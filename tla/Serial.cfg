\* Two processes that read and write, queues of two bytes, messages of one
\* or two, and one byte from an interrupt handler.
SPECIFICATION FairSpec
CONSTANTS
  Process = {p1, p2}
  Byte = {a, b}
  Key = {a}
  None = None
  INTQ_BUFSIZE = 3
  MessageLength = 2
  Unexpected = 1
INVARIANTS NoLostWakeup OneWriter
PROPERTIES ImplementsFifo OutputMoves
\* The kernel halts.
CHECK_DEADLOCK FALSE
