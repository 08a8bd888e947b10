SPECIFICATION FairSpec
CONSTANTS
  Alarms = {a1, a2}
  NoAlarm = NoAlarm
  MaxSets = 4
  MaxTime = 3
  StepsBack = 1
INVARIANT IteratorValid
INVARIANT NoLostAlarm
INVARIANT NoDanglingEntry
PROPERTY ImplementsService
CHECK_DEADLOCK FALSE
