CONSTANTS
  Handlers = {h1}
  MaxChunk = 2
  BufSize = 3
  Faults = {"interrupt", "device", "client", "resources"}
SPECIFICATION Spec
INVARIANTS DaemonTypeOK Inv DeadAreGone JoinedOnce ServedAreCollected FailsFromOutside
PROPERTIES AcquisitionProgress ShutdownCompletes
