SPECIFICATION Spec
CONSTANTS
  Inputs = {i1, i2}
  Outputs = {o1, o2}
  Async = {}
  Draining = {o1, o2}
  Ends = {i1}
  Mute = {}
  Nil = {}
  Depth = 1
  MaxMsg = 2
  MaxSignal = 1
PROPERTY SignalAlwaysStops
CHECK_DEADLOCK FALSE
