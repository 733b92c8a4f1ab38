\* Commands and children, nothing typed at the keyboard meanwhile.
CONSTANTS
  MAXJOBS = 2
  Pids <- TwoPids
  Commands = {"run", "run_bg", "fg", "bg", "quit"}
  Garbage <- AnyMask
  SelfStops = TRUE
  MaxKeys = 0
SPECIFICATION FairSpec
INVARIANTS JobsAreChildren NoCrash
PROPERTY EveryZombieReaped
\* The shell may end.
CHECK_DEADLOCK FALSE
