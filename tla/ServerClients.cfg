SPECIFICATION Spec
CONSTANTS
  Boxes = {a, b}
  Subs = {}
  Names = {m, n}
  Rooms = {}
  Server = Server
  Nil = Nil
INVARIANT LiveClientIsRegistered
PROPERTIES RegistryIsNameTable CloseEmptiesRegistry
