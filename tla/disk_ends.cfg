SPECIFICATION ClientSpec
CONSTANTS
  NumBlocks = 2
  OpLimit = 6
  MaxOp = 6
  FaultSet = {"timeout", "sendfail", "linkdown", "readerr"}
PROPERTIES
  CallEnds
CHECK_DEADLOCK FALSE
