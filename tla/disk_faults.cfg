SPECIFICATION Spec
CONSTANTS
  NumBlocks = 2
  OpLimit = 7
  MaxOp = 7
  FaultSet = {"timeout", "sendfail", "writeerr"}
INVARIANTS
  NoStaleRead
  AckedWritesSurvive
  CloseReleases
PROPERTIES
  ImplementsBlockStore
CHECK_DEADLOCK FALSE
