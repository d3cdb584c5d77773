\* The server is closed while a connection is being set up.
SPECIFICATION Spec
CONSTANTS
  s1 = s1
  s2 = s2
  s3 = s3
  NoSession = NoSession
  Session <- MCPair
  Address <- MCAddress
  Clients <- MCClients
  Mode = "Single"
  BufferSize = 0
  QueueCap = 1
  Unencodable = {}
  Listener = {1}
  MaxConnections = 2
  MaxPublish = 1
PROPERTIES CloseEndsSessions
CHECK_DEADLOCK FALSE
