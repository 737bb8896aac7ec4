CONSTANTS
  a = a
  b = b
  c = c
  Root = Root
  Lib <- NineLib
  Graphs <- FileGraphs
  Files <- MixedFiles
  Roles = {"main", "debug", "dlopen"}
SPECIFICATION Spec
INVARIANTS
  FailuresAreRecorded
  LinkerSeesOpenedFiles
  SmallLoadsStayInBlock
