CONSTANTS
  Handlers = {h1, h2}
  MaxChunk = 2
  BufSize = 3
  Faults = {}
SPECIFICATION Spec
SYMMETRY Symmetry
INVARIANTS SetsPartition BufferStable GaplessStreams SyncCallsLegal NoLostWakeup
PROPERTIES ImplementsBroadcast
