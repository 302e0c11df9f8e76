\* A link through the proxy or without it, and one call of its owner.
SPECIFICATION ReadingSpec
CONSTANTS
  Modes = {"proxy", "direct"}
  AppMsgs = 1
  TargetMsgs = 2
  MaxCalls = 1
  Room = 1
INVARIANT FailedCallSendsNothing
PROPERTIES VpnIsPipe SocketsClose WaitReturns
CHECK_DEADLOCK FALSE
