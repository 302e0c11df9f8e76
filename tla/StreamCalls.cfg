SPECIFICATION Spec
CONSTANTS
  Writers = {a, b}
  MaxMsgs = 2
  Lengths = {1, 4, 5}
  Buffer = 6
  Header = 2
  GoOn = {TRUE, FALSE}
INVARIANT Intact
CHECK_DEADLOCK FALSE
