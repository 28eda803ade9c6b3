CONSTANTS
  p1 = p1
  p2 = p2
  s1 = s1
  Partition = {p1, p2}
  Source = {s1, s2}
  PartitionOf <- MCPartitionOf
  ODepth = 1
  MaxOut = 2
  NumOut = 2
  Depth = 1
  MaxLife = 2
SPECIFICATION Spec
INVARIANTS MarkedWasDelivered SourceInOrder
PROPERTIES ShutdownAcked
CHECK_DEADLOCK FALSE
