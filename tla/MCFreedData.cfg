CONSTANTS
  Handlers = {h1}
  MaxChunk = 2
  BufSize = 2
  Faults = {"interrupt"}
SPECIFICATION Spec
INVARIANTS DataIsThereToCopy
