CONSTANTS
  x = x
  y = y
  NONE = NONE
  RELATIVE = RELATIVE
  N = 3
  Sym <- TwoSym
  Programs <- AllPrograms
  StackLimit = 5
SPECIFICATION Spec
INVARIANTS
  RefusedForMissingSymbol
