CONSTANTS
  a = a
  b = b
  c = c
  Root = Root
  Lib <- NineLib
  Graphs <- NineGraphs
  Files <- GoodFiles
  Roles = {"main"}
SPECIFICATION Spec
INVARIANTS
  GoodFilesLoad
