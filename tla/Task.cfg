SPECIFICATION FairSpec
CONSTANTS
  Waiting = {a, u}
  Offering = {u}
  Pinging = {}
  MaxPush = 1
  NoTask = NoTask
INVARIANTS AnswerFindsCaller NilMeansAnswered NoCallbackLeft
PROPERTIES WaitCbReturns InboxDrained
CHECK_DEADLOCK FALSE
