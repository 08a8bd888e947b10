SPECIFICATION FairSpec
CONSTANTS
  MaxCalls = 6
  MsgIdLimit = 5
INVARIANT AtMostOnce
INVARIANT ReplyMatchesCall
INVARIANT NoOrphanAlarm
INVARIANT SettledRequestFreed
PROPERTY NoCallbackAfterClose
PROPERTY EveryCallSettled
CHECK_DEADLOCK FALSE
