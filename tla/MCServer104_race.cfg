\* Two masters of one group that start at once.
SPECIFICATION Spec
CONSTANTS
  s1 = s1
  s2 = s2
  s3 = s3
  NoSession = NoSession
  Session <- MCPair
  Address <- MCAddress
  Clients <- MCClients
  Mode = "Single"
  BufferSize = 1
  QueueCap = 1
  Unencodable = {}
  Listener = {1}
  MaxConnections = 2
  MaxPublish = 1
INVARIANTS SwitchoverKeepsOne
CHECK_DEADLOCK FALSE
