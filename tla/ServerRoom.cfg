SPECIFICATION FairRoomSpec
CONSTANTS
  Boxes = {}
  Subs = {s, t, u}
  Names = {}
  Rooms = {r}
  Server = Server
  Nil = Nil
INVARIANTS LinksArePaired NoMutualWait
PROPERTIES HandlerReturns LinkClosePropagates
