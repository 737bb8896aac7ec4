CONSTANTS
  a = a
  b = b
  c = c
  Root = Root
  Lib <- SmallLib
  Graphs <- SmallGraphs
  Files <- GoodFiles
  Roles = {"main", "debug", "dlopen"}
SPECIFICATION FairSpec
INVARIANTS
  TypeOK
  NoDuplicateLoads
  OnlyWhatIsNeeded
  NoObjectReentered
  NobodyForgotten
PROPERTIES
  LearnsOnDemand
  LoadingEnds
