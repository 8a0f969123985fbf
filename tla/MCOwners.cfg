CONSTANTS
  Conns = {c1,c2}
  NoConn = none
  Fds = {3}
  NoFd = nofd
  Window = 1
  Room = 1
  MaxChunk = 1
  Requests = {"good"}
  Faults = {"client"}
SPECIFICATION Spec
SYMMETRY Sym
INVARIANTS OwnDescriptor
PROPERTIES OnlyStaleWritersMix
CHECK_DEADLOCK FALSE
