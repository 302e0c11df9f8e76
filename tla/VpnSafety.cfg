\* By hand: two messages each way, one call of the owner.
SPECIFICATION Spec
CONSTANTS
  Modes = {"proxy", "direct"}
  AppMsgs = 2
  TargetMsgs = 2
  MaxCalls = 1
  Room = 1
INVARIANTS TypeOK FailedCallSendsNothing
PROPERTIES VpnIsPipe
CHECK_DEADLOCK FALSE
