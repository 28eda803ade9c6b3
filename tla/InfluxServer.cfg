SPECIFICATION Spec
CONSTANTS
  NumOut = 2
  InDepth = 2
  Depth = 1
  MaxMsg = 4
  ClientOK = TRUE
INVARIANTS
  AckMeansDrained
PROPERTIES
  DropAfterFullRound
  ShutdownAcked
CHECK_DEADLOCK FALSE
