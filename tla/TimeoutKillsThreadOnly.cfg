SPECIFICATION Spec
CONSTANTS
  W = 10
  PollLimit = 2
  MaxQueries = 3
  MaxStep = 0
  MaxWait = 3
CHECK_DEADLOCK FALSE
INVARIANT
  TimeoutKillsThreadOnly
