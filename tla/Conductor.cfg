SPECIFICATION Spec
CONSTANTS
  Inputs = {i1, i2}
  Outputs = {o1, o2, o3}
  Async = {i2}
  Draining = {o1, o2}
  Ends = {i2}
  Mute = {o2}
  Nil = {o3}
  Depth = 1
  MaxMsg = 2
  MaxSignal = 2
INVARIANTS InputsHooked CleanExit NoSendOnClosed
PROPERTY SignalStops
CHECK_DEADLOCK FALSE
