CONSTANTS
  a = a
  b = b
  c = c
  Root = Root
  Lib <- SmallLib
  Graphs <- SmallGraphs
  Files <- GoodFiles
  Roles = {"main"}
SPECIFICATION Spec
INVARIANTS
  RecursiveDependenciesMapped
