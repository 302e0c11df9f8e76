SPECIFICATION FairTickerSpec
CONSTANTS
  Setters = {s1}
  Getters = {g1}
  Chunks = {1}
  MaxNow = 3
  MaxSets = 3
  None = None
PROPERTY SpeedIsObtained
CHECK_DEADLOCK FALSE
