CONSTANTS
  Base = 2
  Kinds = {"Ehdr", "Phdr", "Shdr", "Dyn", "Sym", "Verdef", "Verdaux", "Verneed", "Vernaux"}
  Starts = {0, 3}
  Slacks <- MCSlacks
  Fillings = {0, 1}
  Edges <- MCEdges
SPECIFICATION Spec
CHECK_DEADLOCK FALSE
INVARIANTS
  WritesDeclared
  ReadsDeclared
  RefusesUnrepresentable
  OthersUntouched
