SPECIFICATION ServedSpec
CONSTANTS
  VIXDISKLIB_SECTOR_SIZE = 2
  SectorSizes = {1, 2, 4}
  AioBufferSize = 3
  FastLz = TRUE
  MinLz = 2
  UIntLimit = 12
  Starts <- MCStarts
  Counts <- MCCounts
  Buffers <- MCBuffers
INVARIANTS
  TypeOK
  WrittenExactly
  WrittenFromTheFront
  FragmentsTile
  LongEnoughAccepted
PROPERTIES
  WriteEnds
CHECK_DEADLOCK FALSE
