\* A main and a standby master of one group, under fairness.
SPECIFICATION Spec
CONSTANTS
  s1 = s1
  s2 = s2
  s3 = s3
  NoSession = NoSession
  Session <- MCPair
  Address <- MCAddress
  Clients <- MCClients
  Mode = "Single"
  BufferSize = 1
  QueueCap = 1
  Unencodable = {2}
  Listener = {1}
  MaxConnections = 2
  MaxPublish = 2
PROPERTIES BacklogIsSent ClosedSessionDeparts
CHECK_DEADLOCK FALSE
