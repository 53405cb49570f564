CONSTANTS
  Names <- MCNames
  SysvHash <- MCSysvHash
  HiddenFlag = 8
  DefSize = 5
  DefAuxSize = 2
  NeedSize = 4
  NeedAuxSize = 4
  Files <- LinkedFiles
SPECIFICATION Spec
CHECK_DEADLOCK FALSE
INVARIANTS
  SuccessReturnsZero
