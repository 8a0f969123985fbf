CONSTANTS
  ArraySize = 8
  MaxChannels = 8
  DeviceChannels = 8
  BufferSizes = 16
  Leftover = {0, 9}
  Lens = {1, 2}
  Words = {"pm2", "ai7", "all", "volts"}
  Lists <- SomeLists
  MaxArgs = 10
  MaxChunks = 2
SPECIFICATION Spec
INVARIANTS ColumnsAreChannels PrintedIsMeasured
CHECK_DEADLOCK FALSE
