SPECIFICATION FairSpec
CONSTANTS
  Reader = Reader
  Pinger = Pinger
  Punchers = {u}
  Listeners = {l}
  Accepters = {p}
  Waiters = {w}
  Dialers = {p}
  Closers = {p}
  Subs = {x, y}
  QueueCap = 1
  None = None
INVARIANTS TypeOK NoSubOutlivesBox
PROPERTIES WaitReturns LoopsEnd
CHECK_DEADLOCK FALSE
