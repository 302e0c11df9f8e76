\* A sub whose partner had left the room before it joined.
SPECIFICATION FairSpec
CONSTANTS
  Boxes = {1, 2, 3}
  Dials = {1, 2, 3}
  Cases <- Faulty
  None = None
PROPERTY AloneEnds
CHECK_DEADLOCK FALSE
