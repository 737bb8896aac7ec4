CONSTANTS
  a = a
  b = b
  c = c
  Root = Root
  Lib <- NineLib
  Graphs <- PairGraphs
  Files <- MissingFiles
  Roles = {"main"}
SPECIFICATION Spec
INVARIANTS
  MissingLibraryIsReported
