SPECIFICATION FairSpec
CONSTANTS
  Boxes = {a}
  Subs = {}
  Names = {n}
  Rooms = {r}
  Server = Server
  Nil = Nil
PROPERTY ExpiredRoomsCollected
