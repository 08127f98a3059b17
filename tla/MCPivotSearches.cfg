CONSTANTS
  v1 = v1
  v2 = v2
  v3 = v3
  r1 = r1
  r2 = r2
  Undecided = Undecided
  Vertices <- MCVertices
  Ranks <- MCRanks
  Inputs <- MCInputs
SPECIFICATION EitherFairSpec
INVARIANTS
  SearchInv
  CachedInv
  WholePivotComponent
PROPERTIES
  ImplementsLabelling
  Terminates
