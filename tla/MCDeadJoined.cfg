CONSTANTS
  Handlers = {h1}
  MaxChunk = 2
  BufSize = 2
  Faults = {}
SPECIFICATION ResponsiveSpec
PROPERTIES DeadAreJoined
