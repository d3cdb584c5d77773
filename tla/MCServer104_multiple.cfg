\* Two fixed groups, by address, and a limit of two connections.
SPECIFICATION Spec
CONSTANTS
  s1 = s1
  s2 = s2
  s3 = s3
  NoSession = NoSession
  Session <- MCTriple
  Address <- MCAddress
  Clients <- MCClients
  Mode = "Multiple"
  BufferSize = 1
  QueueCap = 1
  Unencodable = {}
  Listener = {1}
  MaxConnections = 2
  MaxPublish = 2
CONSTRAINT ServesOn
SYMMETRY Alike
INVARIANTS LimitRespected ReportIsTrue
CHECK_DEADLOCK FALSE
