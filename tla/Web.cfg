\* Two clients with one request each, two workers, one line of buffer.
CONSTANTS
  c1 = c1
  c2 = c2
  w1 = w1
  w2 = w2
  Clients = {c1, c2}
  Workers = {w1, w2}
  Cap = 1
  Urls = {}
  Objects = {}
  CacheCapacity = 2
  InitialSizes = {0}
  SBUFSIZE = 1
  Servers <- MCServers
  IsBinary <- MCIsBinary
  MAX_OBJECT_SIZE = 2
  RootPaths = {"/", "/?"}
  NewData <- MCNewData
  Files <- MCFiles
  Requests <- MCRequests
SPECIFICATION FairSpec
INVARIANTS RightAnswer CacheIsRight 
 
CHECK_DEADLOCK FALSE
