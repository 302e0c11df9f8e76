SPECIFICATION TickerSpec
CONSTANTS
  Setters = {s1, s2}
  Getters = {g1, g2}
  Chunks = {1, 2}
  MaxNow = 4
  MaxSets = 4
  None = None
INVARIANTS TickerTypeOK CountIsExact ReportsOneSecond
CHECK_DEADLOCK FALSE
