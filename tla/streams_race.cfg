SPECIFICATION FairSpec
CONSTANTS
  MaxStreams = 1
  MaxSessions = 1
PROPERTY AskedIsOpened
CHECK_DEADLOCK FALSE
