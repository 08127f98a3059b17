CONSTANTS
  Vertices <- MCVertices
  Ranks <- MCRanks
  Undecided = Undecided
  Maps <- MCMaps
  Inputs <- MCInputs
SPECIFICATION SearchesFairSpec
INVARIANTS
  PivotInv
  RoundsInv
PROPERTIES
  ImplementsLabelling
  Terminates
