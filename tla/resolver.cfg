SPECIFICATION FairResolverSpec
CONSTANTS
  Queries = {q1, q2}
  Fds = {f1, f2}
  NoFd = NoFd
INVARIANT EventFindsOwner
INVARIANT BothFamiliesSearched
INVARIANT OnePlace
PROPERTY EveryQueryAnswered
CHECK_DEADLOCK FALSE
