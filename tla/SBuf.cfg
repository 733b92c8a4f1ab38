\* The main thread and three workers, two of which may be stuck in a request;
\* two slots, and descriptor numbers that are reused.
CONSTANTS
  Producers = {p1}
  Consumers = {c1, c2, c3}
  Hung = {c1, c2}
  N = 2
  Fds = {f1, f2, f3}
  None = None
  MaxConn = 4
SPECIFICATION FairSpec
INVARIANTS MutualExclusion NoOverwrite OneOwner
PROPERTIES ImplementsQueue EveryConnectionServed
\* The last connection is closed and no other arrives: the run may stop.
CHECK_DEADLOCK FALSE
