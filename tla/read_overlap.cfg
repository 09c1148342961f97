SPECIFICATION Spec
CONSTANTS
  SectorSize = 2
  BufLen = 6
  AioBufferSize = 3
  Compression = 0
  UIntLimit = 5
  Starts <- MCStarts
  Counts <- MCCounts
  LooseFrames <- Overlapping
  SocketFails = FALSE
INVARIANTS
  LengthBytesFilled
CHECK_DEADLOCK FALSE
