SPECIFICATION FairSpec
CONSTANTS
  Threads = {t1, t2}
  Loop = Loop
  Blocks = {b1}
  NoBlock = NoBlock
  MaxObjects = 2
  MaxCalls = 3
INVARIANT InsideAlive
INVARIANT ReachesItsObject
INVARIANT CloseIsLast
PROPERTY NobodyWaits
PROPERTY ImplementsHandles
CHECK_DEADLOCK FALSE
