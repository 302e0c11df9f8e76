\* By hand: the deadline of the ping cuts links that never ping (server/proxy.go:114).
SPECIFICATION Spec
CONSTANTS
  Modes = {"proxy"}
  AppMsgs = 1
  TargetMsgs = 1
  MaxCalls = 0
  Room = 1
INVARIANT EndedByItsUsers
CHECK_DEADLOCK FALSE
