\* Main and two more threads under MLFQS, with the code's numbers except for
\* the resolution of the fixed point and the window of load_avg.
SPECIFICATION FairMlfqsSpec
CONSTANTS
  Thread = {main, t1, t2}
  Idle = idle
  Main = main
  PRI_MIN = 0
  PRI_MAX = 63
  PRI_DEFAULT = 31
  TIME_SLICE = 4
  f = 24
  TIMER_FREQ = 100
  THREAD_RECALC_PRIO = 4
  Window = 12
  Nice = {20}
  Changes = 1
  Early = 12
INVARIANT PriorityCurrent
PROPERTY EveryThreadRuns
CHECK_DEADLOCK FALSE
