\* The lock with lru->mutex = READER_SAME_TIME, as lru.c initialises it.
CONSTANTS
  Workers = {a, b, c}
  ReaderSameTime = 10
SPECIFICATION LockSpec
INVARIANT WriterIsAlone
