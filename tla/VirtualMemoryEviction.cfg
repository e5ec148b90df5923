\* Two programs to load and one frame for them.
SPECIFICATION FairVMSpec
CONSTANTS
  UserProcess = {p1, p2}
  SegmentPage = {code}
  StackPage = {top, grown}
  Top = top
  Buffers <- MCBuffers
  FrameCount = 1
  Mappings = 0
  Loads = 2
PROPERTY EvictionEnds
CHECK_DEADLOCK FALSE
