SPECIFICATION Spec
CONSTANTS
  Kinds = {"dialin", "dialout", "gnmi"}
  NumOut = 2
  Depth = 1
  Stream = {s1, s2}
  MaxCtx = 2
  MaxMsg = 2
INVARIANTS WholeSpray
PROPERTIES OneLoop ShutdownAcked CancelEndsStreams
CHECK_DEADLOCK FALSE
