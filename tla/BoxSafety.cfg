SPECIFICATION Spec
CONSTANTS
  Reader = Reader
  Pinger = Pinger
  Punchers = {u}
  Listeners = {l}
  Accepters = {a}
  Waiters = {w}
  Dialers = {d}
  Closers = {c}
  Subs = {x, y}
  QueueCap = 1
  None = None
INVARIANTS TypeOK NoSubOutlivesBox
CHECK_DEADLOCK FALSE
