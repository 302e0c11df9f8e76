SPECIFICATION Spec
CONSTANTS
  Boxes = {a}
  Subs = {s, t}
  Names = {n}
  Rooms = {r}
  Server = Server
  Nil = Nil
SYMMETRY SubSymmetry
INVARIANTS TypeOK NoDeadEntry NoOrphanSub NoMutualWait
