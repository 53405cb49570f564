SPECIFICATION ClientSpec
CONSTANTS
  Blocks <- MCBlocks
  Null = Null
INVARIANTS
  FailedReallocFrees
CHECK_DEADLOCK FALSE
