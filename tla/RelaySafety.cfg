SPECIFICATION Spec
CONSTANTS
  MaxMsgs = 2
  MayClose = TRUE
INVARIANTS TypeOK SwitchedBeforePayload
PROPERTY RelayIsPipe
CHECK_DEADLOCK FALSE
