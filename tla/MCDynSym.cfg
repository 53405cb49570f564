CONSTANTS
  Names <- MCNames
  SysvHash <- MCSysvHash
  GnuHash <- MCGnuHash
  WordBits = 3
  ClassBits = 2
  Files <- AnyFiles
SPECIFICATION Spec
CHECK_DEADLOCK FALSE
INVARIANTS
  TypeOK
  LoaderStaysInside
  LoaderFindsSymbols
  NothingLeaks
  LinkedAccepted
PROPERTIES
  Terminates
