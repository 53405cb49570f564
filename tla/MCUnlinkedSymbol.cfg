CONSTANTS
  Names <- MCNames
  SysvHash <- MCSysvHash
  GnuHash <- MCGnuHash
  WordBits = 3
  ClassBits = 2
  Files <- UnlinkedSymbol
SPECIFICATION Spec
CHECK_DEADLOCK FALSE
INVARIANTS
  EverySymbolLookedUp
