SPECIFICATION ServedSpec
CONSTANTS
  NumBlocks = 2
  OpLimit = 8
  MaxOp = 8
  FaultSet = {"writeerr"}
INVARIANTS
  TypeOK
  Quiescent
  OrderlyClose
PROPERTIES
  CallEnds
CHECK_DEADLOCK FALSE
