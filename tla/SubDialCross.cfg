\* Two boxes that dial each other, and no timer: each reader waits for the other.
SPECIFICATION FairSpec
CONSTANTS
  Boxes = {1, 2, 3}
  Dials = {1, 2, 3}
  Cases <- Cross
  None = None
PROPERTY CrossDialsSucceed
CHECK_DEADLOCK FALSE
