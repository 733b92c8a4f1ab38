\* Commands, children, and ctrl-c or ctrl-z typed at any moment.
CONSTANTS
  MAXJOBS = 2
  Pids <- TwoPids
  Commands = {"run", "run_bg", "fg", "bg", "blank", "quit"}
  Garbage <- CleanMask
  SelfStops = TRUE
  MaxKeys = 1
SPECIFICATION Spec
INVARIANT OneForeground
\* The shell may end.
CHECK_DEADLOCK FALSE
