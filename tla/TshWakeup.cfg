\* One foreground command, nothing typed while it runs.
CONSTANTS
  MAXJOBS = 2
  Pids <- OnePid
  Commands = {"run"}
  Garbage <- CleanMask
  SelfStops = FALSE
  MaxKeys = 0
SPECIFICATION Spec
INVARIANT NoSleepWithoutForeground
CHECK_DEADLOCK FALSE
