CONSTANTS
  a = a
  b = b
  Prog = Prog
  x = x
  y = y
  NONE = NONE
  RELATIVE = RELATIVE
  Lib <- Libs
  Root = Prog
  Sym <- Syms
  StackLimit = 3
  Cases <- AllCases
  TraceName <- LT
  TraceOn <- OneText
  IntMod = 256
  SegmentSize = 26
  MaxFds = 28
  Disk <- TheDisk
  FileNames <- AllNames
  MaxCalls = 4
  SizeMod = 65536
SPECIFICATION FairSpec
INVARIANTS
  TypeOK
  ListedWhenAsked
  JumpsToEntry
  ListingReadsBack
  NeedOrderWins
  KilledForCause
  HandleNeverLinked
  SymbolInItsCopy
PROPERTIES
  HandsOver
