CONSTANTS
  Size = 11
  Undefined = Undefined
  Builds <- MCBuilds
  Byte = 2
  Word = 3
  Lists <- MCLists
  Readers <- MCReaders
  Runs = 2
SPECIFICATION InputSpec
INVARIANTS
  ConstructionInv
  CopiesRight
  ResidualRight
  StoredInv
PROPERTIES
  InputEnds
