\* Ticks at any point: three threads, two priorities, sleeps of up to two ticks.
SPECIFICATION FairAlarmSpec
CONSTANTS
  Thread = {main, t1, t2}
  End = end
  Idle = idle
  Main = main
  PRI_MIN = 0
  PRI_MAX = 1
  PRI_DEFAULT = 0
  TIME_SLICE = 4
  MaxSleep = 2
  Late <- LateBy
INVARIANTS SleepersListed QuietWindow
PROPERTIES WokenOnTime SleepersWake
CHECK_DEADLOCK FALSE
