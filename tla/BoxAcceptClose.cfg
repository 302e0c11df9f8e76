SPECIFICATION FairSpec
CONSTANTS
  Reader = Reader
  Pinger = Pinger
  Punchers = {}
  Listeners = {}
  Accepters = {a}
  Waiters = {}
  Dialers = {}
  Closers = {c}
  Subs = {x}
  QueueCap = 1
  None = None
PROPERTY BoxCloses
CHECK_DEADLOCK FALSE
