\* Two workers, the lock as lru.c initialises it, and room for two entries of three.
CONSTANTS
  Workers = {t1, t2}
  ReaderSameTime = 10
  Keys = {k1, k2, k3}
  Capacity = 2
  InitialSizes = {0, 1, 2}
  None = None
  MaxGets = 3
  MaxPuts = 3
SPECIFICATION Spec
SYMMETRY WorkersAndKeys
INVARIANTS ListIntact ContentsAsCalled OnlyKnownCrash  HitIsForUrl
PROPERTY LeastRecentlyUsed
\* A thread that followed a wild pointer ends the run, and a reader whose
\* decrement was lost leaves w taken for ever.
CHECK_DEADLOCK FALSE
