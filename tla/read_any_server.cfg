SPECIFICATION ClientSpec
CONSTANTS
  SectorSize = 2
  BufLen = 6
  AioBufferSize = 3
  Compression = 2
  UIntLimit = 5
  Starts <- MCStarts
  Counts <- MCCounts
  LooseFrames <- Loose
  SocketFails = TRUE
INVARIANTS
  BufferConfined
  ReadIntegrityIfDisjoint
PROPERTIES
  CallEnds
CHECK_DEADLOCK FALSE
