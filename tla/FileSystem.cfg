\* Two processes and two names; room for two files and for one that is removed
\* but still open.
SPECIFICATION Spec
CONSTANTS
  Process = {p1, p2}
  Name = {n1, n2}
  SectorCount = 7
  DirEntries = 2
  FileSectors = {1, 2}
  InodeCount = 3
  OpenFiles = 1
  Creations = 2
SYMMETRY Symmetry
INVARIANTS DiskSound OpenIsKept CountsExact NothingElseLost
CHECK_DEADLOCK FALSE
