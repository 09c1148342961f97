SPECIFICATION Spec
CONSTANTS
  SectorSize = 2
  BufLen = 6
  AioBufferSize = 3
  Compression = 2
  UIntLimit = 5
  Starts <- MCStarts
  Counts <- MCCounts
  LooseFrames <- ShortPayload
  SocketFails = FALSE
INVARIANTS
  ServerErrorsAreNfcErrors
CHECK_DEADLOCK FALSE
