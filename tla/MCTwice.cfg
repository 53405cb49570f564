CONSTANTS
  MaxU = 255
  MaxField = 255
  MaxWord = 127
  EhSize = 1
  PhEnt = 2
  ShEnt = 1
  DynEnt = 2
  PageSize = 4
  PN_XNUM = 7
  SHN_LORESERVE = 9
  SHN_XINDEX = 10
  Names = {"old", "new", "lib"}
  NameLen <- MCNameLen
  Imports <- MCImports
  InputFiles <- TwiceFiles
  Paths = {a, b}
  Missing = Missing
  Cuts <- SomeCuts
  MaxRuns = 2
SYMMETRY PathSymmetry
SPECIFICATION Spec
CHECK_DEADLOCK FALSE
INVARIANTS
  SuccessMeansImported
  TruncatedIsRefused
  TidyOutputParses
PROPERTIES
  IsPatchingTool
