SPECIFICATION FairSpec
CONSTANTS
  Sides = {a, b}
  Tries = 2
  None = None
PROPERTY ReaderGoesOn
CHECK_DEADLOCK FALSE
