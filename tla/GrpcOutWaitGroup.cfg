SPECIFICATION Spec
CONSTANTS
  Client = {c1, c2}
  Depth = 1
  TLSMayFail = FALSE
  MaxMsg = 2
  MaxFail = 1
INVARIANT WaitGroupNotReused
CHECK_DEADLOCK FALSE
