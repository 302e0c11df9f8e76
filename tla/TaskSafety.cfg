SPECIFICATION Spec
CONSTANTS
  Waiting = {a, u}
  Offering = {u}
  Pinging = {p}
  MaxPush = 1
  NoTask = NoTask
INVARIANTS TypeOK AnswerFindsCaller NilMeansAnswered NoCallbackLeft
CHECK_DEADLOCK FALSE
