\* Three threads on two semaphores, three priorities.
SPECIFICATION FairSpec
CONSTANTS
  Thread = {main, t1, t2}
  Sema = {s1, s2}
  Nobody = nobody
  Idle = idle
  Main = main
  PRI_MIN = 0
  PRI_MAX = 2
  PRI_DEFAULT = 0
  TIME_SLICE = 4
  MaxValue = 2
INVARIANTS OneList NoLostWakeup
PROPERTIES WakesHighest ImplementsCounting UnitsReachWaiters
CHECK_DEADLOCK FALSE
