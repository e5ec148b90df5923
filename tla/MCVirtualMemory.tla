---------------------------- MODULE MCVirtualMemory ----------------------------
EXTENDS VirtualMemory, TLC

\* A page to map or to fill, and a buffer that the stack has to grow for.
MCBuffers == {SegmentPage, {Top}, StackPage}

Symmetry == Permutations(UserProcess)

================================================================================
