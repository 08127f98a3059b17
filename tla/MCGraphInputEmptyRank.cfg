CONSTANTS
  Size = 11
  Undefined = Undefined
  Builds <- EmptyRankBuilds
  Byte = 2
  Word = 3
  Lists <- MCLists
  Readers <- MCReaders
  Runs = 1
SPECIFICATION InputSpec
INVARIANTS
  PassedIsWritten
