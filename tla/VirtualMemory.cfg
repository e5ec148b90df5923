\* Two processes with one page of the executable and two of stack each, and
\* two frames: the pool runs out.
SPECIFICATION VMSpec
CONSTANTS
  UserProcess = {p1, p2}
  SegmentPage = {code}
  StackPage = {top, grown}
  Top = top
  Buffers <- MCBuffers
  FrameCount = 2
  Mappings = 2
  Loads = 2
SYMMETRY Symmetry
INVARIANTS FramesExact TableExact Pinned NoFaultUnderLock
CHECK_DEADLOCK FALSE
