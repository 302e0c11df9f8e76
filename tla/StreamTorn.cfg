SPECIFICATION FairSpec
CONSTANTS
  Writers = {a, b}
  MaxMsgs = 1
  Lengths = {1, 5}
  Buffer = 6
  Header = 2
  GoOn = {TRUE}
PROPERTY NoMessageHeldUp
CHECK_DEADLOCK FALSE
