CONSTANTS
  Conns = {c1}
  NoConn = none
  Fds = {3}
  NoFd = nofd
  Window = 2
  Room = 2
  MaxChunk = 3
  Requests = {"good", "many", "wrong"}
  Faults = {"network", "client", "interrupt"}
SPECIFICATION ServedSpec
INVARIANTS InStep
PROPERTIES ImplementsFeed ReadsInOrder GoneClientReleased IdleClientDropped HangupReachesClient
CHECK_DEADLOCK FALSE
