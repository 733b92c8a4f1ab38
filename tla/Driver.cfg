\* Traces with two blocks, any allocator, and each of the timing packages.
CONSTANTS
  Packages = {"fcyc", "itimer", "gettod"}
  Word = 3
  Usec = 3
  MAX_ETIME = 9
  kbest = 2
  maxsamples = 3
  EpsNum = 3
  EpsDen = 2
  NRuns = 2
  NEVENT = 2
  THRESHOLD = 2
  RECORDTHRESH = 1
  Durations = {1, 2, 5}
  Marks = {0, 2, 8}
  Files <- MCFiles
  MaxHeap = 6
  Brks = {0, 1, 2, 3, 4, 5, 6}
  ALIGNMENT = 2
  Low <- MCLow
  CharMax = 1
  Null = Null
  Junk = Junk
SPECIFICATION MCSpec
INVARIANTS RangesAreBlocks  UtilizationRight IndexMeansValid TimeIsElapsed KBest
PROPERTY DriverEnds
CHECK_DEADLOCK FALSE
