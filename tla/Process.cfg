\* The kernel and three processes, the last with a tid that child_exit_status
\* has no room for.
SPECIFICATION FairSpec
CONSTANTS
  Main = 1
  FirstTid = 62
  LastTid = 64
  MAX_CHILD_SIZE = 64
  EXIT_NOT_EXIT = 128
  ExitStatus = {7}
INVARIANTS NoLostWakeup StatusKept
PROPERTIES ExecReturns WaitReturns
CHECK_DEADLOCK FALSE
