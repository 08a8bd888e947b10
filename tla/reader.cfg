SPECIFICATION Spec
CONSTANTS
  NumWorkers = 2
  NumSlots = 2
  MaxMessages = 4
INVARIANT EveryBufferOnce
CHECK_DEADLOCK FALSE
