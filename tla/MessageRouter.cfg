SPECIFICATION RouterSpec
CONSTANTS
  NumOut = 2
  InDepth = 2
  Depth = 1
  MaxMsg = 4
INVARIANTS
  SendSafe
  DrainsQueue
CHECK_DEADLOCK FALSE
PROPERTY ImplementsContract
