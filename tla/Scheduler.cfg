\* The scheduler: main and two more threads, three priorities, the
\* code's time slice of four ticks.
SPECIFICATION FairSliceSpec
CONSTANTS
  Thread = {main, t1, t2}
  Idle = idle
  Main = main
  PRI_MIN = 0
  PRI_MAX = 2
  PRI_DEFAULT = 1
  TIME_SLICE = 4
INVARIANTS Consistent Sorted HighestRuns NoHaltWithWork SliceNotExceeded
PROPERTY TopPriorityRuns
CHECK_DEADLOCK FALSE
