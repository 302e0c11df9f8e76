SPECIFICATION FairSpec
CONSTANTS
  Sides = {a, b}
  Tries = 3
  None = None
INVARIANTS TypeOK PairedWithOther PunchedMeansOpen
PROPERTY HandleReturns
CHECK_DEADLOCK FALSE
