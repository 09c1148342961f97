SPECIFICATION Spec
CONSTANTS
  NumBlocks = 2
  OpLimit = 8
  MaxOp = 8
  FaultSet = {"readerr"}
INVARIANTS
  CloseClosesSession
CHECK_DEADLOCK FALSE
