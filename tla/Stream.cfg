SPECIFICATION FairSpec
CONSTANTS
  Writers = {a, b}
  MaxMsgs = 1
  Lengths = {1, 4, 5, 8, 9}
  Buffer = 6
  Header = 2
  GoOn = {TRUE}
INVARIANTS Intact GarbledOnlyAfterFailure
PROPERTY AllArrive
CHECK_DEADLOCK FALSE
