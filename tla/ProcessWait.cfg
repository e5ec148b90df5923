\* A parent waits for a child that is on its way out, or for two.
SPECIFICATION Spec
CONSTANTS
  Main = 1
  FirstTid = 62
  LastTid = 64
  MAX_CHILD_SIZE = 64
  EXIT_NOT_EXIT = 128
  ExitStatus = {7}
INVARIANT WaitReturnsStatus
CHECK_DEADLOCK FALSE
