SPECIFICATION Spec
CONSTANTS
  Kinds = {"gnmi"}
  NumOut = 2
  Depth = 1
  Stream = {s1}
  MaxCtx = 1
  MaxMsg = 1
PROPERTIES AckMeansQuiet
CHECK_DEADLOCK FALSE
