CONSTANTS
  MaxU = 40
  MaxField = 40
  MaxWord = 6
  EhSize = 1
  PhEnt = 1
  ShEnt = 1
  DynEnt = 1
  SymEnt = 1
  PageSize = 4
  PN_XNUM = 5
  SHN_LORESERVE = 5
  SHN_XINDEX = 6
  Names = {"lib"}
  NameLen <- MCNameLen
  Parsed <- MCParsed
  Counts = {4, 5, 6, 7}
  Offsets = {12, 18, 21}
  Segments <- MCSegments
  DataSize = 26
  Indices = {0, 5}
  MaxCalls = 5
SPECIFICATION Spec
CHECK_DEADLOCK FALSE
INVARIANTS
  ModifiedMeansDirty
