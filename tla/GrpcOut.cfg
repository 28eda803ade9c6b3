SPECIFICATION Spec
CONSTANTS
  Client = {c1, c2}
  Depth = 1
  TLSMayFail = TRUE
  MaxMsg = 2
  MaxFail = 1
INVARIANTS NoSendOnClosed NoSilentGap GracefulDrain
PROPERTIES ShutdownAcked ServerComesBack
CHECK_DEADLOCK FALSE
