\* Three workers, the lock with lru->mutex = 1, as lru.h says.
CONSTANTS
  Workers = {a, b, c}
  ReaderSameTime = 1
SPECIFICATION LockFairSpec
INVARIANTS WriterIsAlone LockRestored
PROPERTY Drains
