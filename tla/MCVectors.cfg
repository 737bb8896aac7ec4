CONSTANTS
  Word = 8
  Header = 48
  MinBlock = 64
  Page = 4096
  Pages = 4
  Bases <- PageBases
  Sizes <- AllSizes
  Others <- OtherSizes
  MaxCalls = 5
  MaxPush <- Pushes
SPECIFICATION VSpec
INVARIANTS
  VectorTypeOK
  BlocksDisjoint
  FreeListSound
  EveryBlockIsChained
  ElementsKept
PROPERTIES
  HandedOutForGood
