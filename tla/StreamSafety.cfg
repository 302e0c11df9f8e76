SPECIFICATION Spec
CONSTANTS
  Writers = {a, b}
  MaxMsgs = 2
  Lengths = {4, 5}
  Buffer = 6
  Header = 2
  GoOn = {TRUE}
INVARIANTS TypeOK Intact GarbledOnlyAfterFailure
CHECK_DEADLOCK FALSE
