CONSTANTS
  Conns = {c1,c2}
  NoConn = none
  Fds = {3}
  NoFd = nofd
  Window = 1
  Room = 1
  MaxChunk = 2
  Requests = {"good"}
  Faults = {"client"}
SPECIFICATION Spec
INVARIANTS WelcomeIsFirst
CHECK_DEADLOCK FALSE
