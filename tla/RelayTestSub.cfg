SPECIFICATION ParkedFairSpec
CONSTANTS
  MaxMsgs = 1
  MayClose = FALSE
PROPERTY TestSub
CHECK_DEADLOCK FALSE
