CONSTANTS
  x = x
  y = y
  NONE = NONE
  RELATIVE = RELATIVE
  N = 3
  Sym <- TwoSym
  Programs <- AllPrograms
  StackLimit = 5
SPECIFICATION FairSpec
INVARIANTS
  TypeOK
  ProvidersLinkedFirst
  NoReentry
  UnmappedBindsNothing
  LinkedOncePerPath
PROPERTIES
  BindsProvidersFirst
  AcyclicLinkingEnds
