\* Three dials without a circle of boxes and no timer; two with one, and timers.
SPECIFICATION Spec
CONSTANTS
  Boxes = {1, 2, 3}
  Dials = {1, 2, 3}
  Cases <- MCCases
  None = None
INVARIANTS TypeOK BothGivenMeansLinked

CHECK_DEADLOCK FALSE
