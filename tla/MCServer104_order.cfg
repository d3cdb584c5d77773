\* A buffer larger than the queue it is replayed into.
SPECIFICATION Spec
CONSTANTS
  s1 = s1
  s2 = s2
  s3 = s3
  NoSession = NoSession
  Session <- MCOne
  Address <- MCAddress
  Clients <- MCClients
  Mode = "Single"
  BufferSize = 2
  QueueCap = 1
  Unencodable = {}
  Listener = {1}
  MaxConnections = 1
  MaxPublish = 3
INVARIANTS SessionInOrder
CHECK_DEADLOCK FALSE
