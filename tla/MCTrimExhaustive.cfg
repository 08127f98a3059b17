CONSTANTS
  v1 = v1
  v2 = v2
  v3 = v3
  r1 = r1
  r2 = r2
  Undecided = Undecided
  Vertices <- MCVertices
  Ranks <- MCRanks
  Copies = {1, 2}
  Inputs <- MCInputs
SPECIFICATION FairSpec
INVARIANTS
  TrimInv
  TrimExhausts
PROPERTIES
  ImplementsLabelling
  Terminates
