SPECIFICATION FairSpec
CONSTANTS
  NumBlocks = 2
  MaxClients = 2
  MaxOps = 3
INVARIANT ConnectedIsUp
INVARIANT FreedOnce
INVARIANT CallbacksInOrder
INVARIANT TimerInStep
PROPERTY CloseFinalizes
PROPERTY ReconnectHappens
CHECK_DEADLOCK FALSE
