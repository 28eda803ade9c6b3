SPECIFICATION Spec
CONSTANTS
  NumOut = 2
  Depth = 1
  Conn = {c1}
  MaxTcpMsg = 2
  MaxTcpFail = 1
  MaxUdpMsg = 1
  MaxUdpFail = 1
INVARIANTS TcpWholeSpray UdpAccounted
PROPERTIES UdpShutdownAcked UdpComesBack TcpConnectionsEnd
CHECK_DEADLOCK FALSE
