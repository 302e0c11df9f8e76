SPECIFICATION Spec
CONSTANTS
  MaxMsgs = 1
  MayClose = FALSE
INVARIANT RelayHasBuffer
CHECK_DEADLOCK FALSE
