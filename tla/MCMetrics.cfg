SPECIFICATION Spec
CONSTANTS
  Worker = {w1, w2}
  First = w1
  Other = o
  StaleAfter = 1
  Wrap = 16
  MinNow = 2
  MaxNow = 3
  MaxFail = 1
  Setups <- MCSetups
  SpecSet <- MCSpecSet
  Clean <- MCClean
  Edit <- MCEdit
  Lazy <- MCLazy
  Decodable <- MCDecodable
  Pieces <- MCPieces
  Updater <- MCUpdater
  Reader <- MCReader
INVARIANTS StatsSound FilledOnce MetricsExact GroupsApart JsonKeepsAll
PROPERTIES FreshKept StaleGoes ShutdownAcked
CHECK_DEADLOCK FALSE
