\* By hand: Close of a link without a proxy (client/client_vpn.go:88).
SPECIFICATION Spec
CONSTANTS
  Modes = {"direct"}
  AppMsgs = 1
  TargetMsgs = 1
  MaxCalls = 0
  Room = 1
INVARIANT NoPanic
CHECK_DEADLOCK FALSE
