CONSTANTS
  Vertices <- MCVertices
  Ranks <- MCRanks
  Undecided = Undecided
  IndexLimit = 16
  ProductLimit = 256
  Inputs <- MCInputs
SPECIFICATION Spec
INVARIANTS
  DriverInv
PROPERTIES
  ImplementsLabelling
  Terminates
