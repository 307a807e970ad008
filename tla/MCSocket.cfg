\* A server and two clients, two objects, one start again of the server.
SPECIFICATION FairSpec
CONSTANTS
  s1 = s1
  s2 = s2
  c1 = c1
  c2 = c2
  Clients = {c1, c2}
  Servers = {s1, s2}
  Talkers = {c1, s1}
  Cpu <- Placement
  NListeners = 1
  NObjects = 2
  Backlogs = {0, 2}
  MaxBuf = 1
  None = None
INVARIANTS
  ObjectsAlive
  LeaksExplained
  ConnectionsSound

  
CHECK_DEADLOCK FALSE
