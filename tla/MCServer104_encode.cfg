\* The first broadcast does not encode; everything fits the queue.
SPECIFICATION Spec
CONSTANTS
  s1 = s1
  s2 = s2
  s3 = s3
  NoSession = NoSession
  Session <- MCOne
  Address <- MCAddress
  Clients <- MCClients
  Mode = "Single"
  BufferSize = 2
  QueueCap = 2
  Unencodable = {1}
  Listener = {1}
  MaxConnections = 1
  MaxPublish = 2
PROPERTIES ReplayIsWhole
CHECK_DEADLOCK FALSE
