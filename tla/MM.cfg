\* Three blocks in a heap with lists up to 64 bytes and 72 bytes past their
\* heads: the scale of 2^24 and 20 MB in mm.c and config.h.
CONSTANTS
  N = 7
  MaxHeap = 208
  Ids = {1, 2, 3}
  Requests = {0, 8, 28}
  Stale = {24}
SPECIFICATION Spec
INVARIANTS HeapTiled BlocksOwned FreeBlocksListed Coalesced
PROPERTIES GrowsOnlyWhenFull ImplementsAllocator
\* A block too large for the last list ends the run.
CHECK_DEADLOCK FALSE
