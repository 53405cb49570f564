CONSTANTS
  MaxU = 110
  MaxField = 80
  MaxWord = 80
  EhSize = 1
  PhEnt = 2
  ShEnt = 1
  DynEnt = 2
  PageSize = 4
  PN_XNUM = 7
  SHN_LORESERVE = 9
  SHN_XINDEX = 10
  Names = {"old", "new", "lib"}
  NameLen <- MCNameLen
  Imports <- MCImports
  InputFiles <- LayoutFiles
  Paths = {"a"}
  Missing = Missing
  Cuts <- NoCuts
  MaxRuns = 1
SPECIFICATION Spec
CHECK_DEADLOCK FALSE
INVARIANTS
  TypeOK
  ForeignBytesKept
  SegmentsApart
  PlanHolds
  OnlyWidthsRefused
  DataInSync
  TidyOutputParses
  DynamicStaysWritable
