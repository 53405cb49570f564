SPECIFICATION ClientSpec
CONSTANTS
  Blocks <- MCBlocks
  Null = Null
INVARIANTS
  NoMisuse
  OnlyZeroLeaks
  AllFreed
CHECK_DEADLOCK FALSE
