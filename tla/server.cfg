SPECIFICATION FairSpec
CONSTANTS
  NumWorkers = 2
  Conns = {2, 3, 4}
  MaxPackets = 2
  SessionLimit = 2
INVARIANT NobodyLeft
INVARIANT OneOwner
INVARIANT OpenedIsClosed
PROPERTY JoinEnds
CHECK_DEADLOCK FALSE
