\* Four threads of two priorities on one condition.
SPECIFICATION Spec
CONSTANTS
  Thread = {main, t1, t2, t3}
  Idle = idle
  Main = main
  PRI_MIN = 0
  PRI_MAX = 1
  PRI_DEFAULT = 0
  TIME_SLICE = 4
SYMMETRY ConditionSymmetry
INVARIANTS MonitorExclusive SignalKept WaitersInCondWait
PROPERTY SignalsHighestSleeper
CHECK_DEADLOCK FALSE
