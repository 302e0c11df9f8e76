SPECIFICATION FairSpec
CONSTANTS
  MaxMsgs = 2
  MayClose = TRUE
INVARIANT SwitchedBeforePayload
PROPERTIES RelayIsPipe LateArrives
CHECK_DEADLOCK FALSE
