\* A main and a standby master of one group.
SPECIFICATION Spec
CONSTANTS
  s1 = s1
  s2 = s2
  s3 = s3
  NoSession = NoSession
  Session <- MCPair
  Address <- MCAddress
  Clients <- MCClients
  Mode = "Single"
  BufferSize = 2
  QueueCap = 2
  Unencodable = {2}
  Listener = {1}
  MaxConnections = 2
  MaxPublish = 4
INVARIANTS CurrentIsRight ReportIsTrue OrderedUnlessShort
CHECK_DEADLOCK FALSE
