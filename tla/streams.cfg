SPECIFICATION FairSpec
CONSTANTS
  MaxStreams = 3
  MaxSessions = 3
INVARIANT EntryLive
INVARIANT OpenClosePaired
PROPERTY ClosedForGood
PROPERTY RequestServed
CHECK_DEADLOCK FALSE
