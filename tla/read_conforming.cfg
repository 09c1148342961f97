SPECIFICATION ServedSpec
CONSTANTS
  SectorSize = 2
  BufLen = 6
  AioBufferSize = 3
  Compression = 2
  UIntLimit = 5
  Starts <- MCStarts
  Counts <- MCCounts
  LooseFrames <- None
  SocketFails = FALSE
INVARIANTS
  TypeOK
  ReadIntegrity
  PackedIntegrity
  AskedForAll
  ResultLengths
PROPERTIES
  ReadCompletes
  ImplementsSectorRead
CHECK_DEADLOCK FALSE
