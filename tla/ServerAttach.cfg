SPECIFICATION FairSpec
CONSTANTS
  Boxes = {a}
  Subs = {s}
  Names = {n}
  Rooms = {r}
  Server = Server
  Nil = Nil
INVARIANT NoOrphanSub
PROPERTIES HandlerReturns ServerCloseReturns
