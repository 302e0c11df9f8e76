\* By hand: an application that reads nothing (client/client_vpn.go:228).
SPECIFICATION FairSpec
CONSTANTS
  Modes = {"proxy"}
  AppMsgs = 1
  TargetMsgs = 2
  MaxCalls = 0
  Room = 1
PROPERTY WaitReturns
CHECK_DEADLOCK FALSE
