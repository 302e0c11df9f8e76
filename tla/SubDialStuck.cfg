\* An application that closes its sub while the other one does not read.
SPECIFICATION FairSpec
CONSTANTS
  Boxes = {1, 2, 3}
  Dials = {1, 2, 3}
  Cases <- Faulty
  None = None
PROPERTY EndsAnyway
CHECK_DEADLOCK FALSE
