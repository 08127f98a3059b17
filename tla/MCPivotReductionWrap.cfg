CONSTANTS
  Vertices <- MCVertices
  Ranks <- MCRanks
  Limit = 4
  Inputs <- MCLoops
SPECIFICATION Spec
INVARIANTS
  PivotUndecided
