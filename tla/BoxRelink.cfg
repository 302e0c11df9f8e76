SPECIFICATION FairSpec
CONSTANTS
  Reader = Reader
  Pinger = Pinger
  Punchers = {}
  Listeners = {l}
  Accepters = {}
  Waiters = {}
  Dialers = {}
  Closers = {}
  Subs = {x}
  QueueCap = 1
  None = None
PROPERTY RelinkAfterLoss
CHECK_DEADLOCK FALSE
