\* Three threads of three priorities and one lock; main may give its priority up.
SPECIFICATION Spec
CONSTANTS
  t1 = t1
  t2 = t2
  Thread = {main, t1, t2}
  Lock = {l1}
  None = none
  Idle = idle
  Main = main
  PRI_MIN = 0
  PRI_MAX = 2
  PRI_DEFAULT = 2
  TIME_SLICE = 4
  BasePriority <- Ladder
  NewPriority <- MainGivesUp
INVARIANTS OneOwner NoLostWakeup
CHECK_DEADLOCK FALSE
