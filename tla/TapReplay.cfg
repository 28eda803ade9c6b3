CONSTANTS
  HdrSize = 2
  MaxPayload = 1
  NumOut = 1
  Depth = 1
  BufSize = 2
  MaxRec = 2
  MaxStart = 2
  FirstN = {0, 1}
  Message <- MCMessage
SPECIFICATION Spec
INVARIANTS ReplaysWhatWasTapped AckMeansFlushed
PROPERTIES ReplayShutdownAcked LoopsForever
CHECK_DEADLOCK FALSE
