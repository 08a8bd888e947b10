SPECIFICATION FairSpec
CONSTANTS
  NumBlocks = 2
  MaxAlarms = 3
  MaxOps = 4
INVARIANT MapInStep
INVARIANT PoolExact
PROPERTY DestroyedStaysSilent
PROPERTY SetRuns
CHECK_DEADLOCK FALSE
