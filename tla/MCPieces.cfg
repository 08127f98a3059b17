CONSTANTS
  Size = 11
  Calls <- MCCalls
  WorldSize = 3
  MaxItems = 5
  WordBits = 2
  Sizes = {0, 2, 3}
  Keys <- MCKeys
  Vals = {v0, v1}
  Width = 2
  TableSize = 4
  Hashes <- MCHashes
  Null = Null
  Invalid = Invalid
  None = None
  Inputs <- MCInputs
  Layouts <- MCLayouts
  Vertices <- MCVertices
  Owners <- MCOwners
  Limit = 16
  Candidates <- MCCandidates
SPECIFICATION PiecesSpec
INVARIANTS
  OwnerInv
  PartitionInv
  HashInv
  TarjanInv
  PartsInv
  PivotInv
PROPERTIES
  ImplementsMap
  ImplementsSets
  PiecesEnd
