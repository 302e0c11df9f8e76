\* Three dials without a circle of boxes and no timer; two with one, and timers.
SPECIFICATION FairSpec
CONSTANTS
  Boxes = {1, 2, 3}
  Dials = {1, 2, 3}
  Cases <- MCCases
  None = None
INVARIANT BothGivenMeansLinked
PROPERTIES DialsSucceed DialsReturn EndsTogether
CHECK_DEADLOCK FALSE
