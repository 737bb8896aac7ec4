CONSTANTS
  Cases <- AllCases
  Names <- AllNames
  EhdrSize = 4
  Page = 4
  FileBase = 100
  IntMod = 32
  MaxFds = 3
  SizeMod = 65536
  HashMod = 8
SPECIFICATION Spec
INVARIANTS
  TypeOK
  ImageFaithful
  TablesFound
  FindsWhatIsThere
  JudgedByIdentAndInt
  GoodIsUsable
  FirstDirectoryWins
