CONSTANTS
  Undecided = Undecided
  Vertices <- MCVertices
  Ranks = {0, 1}
  Maps <- MCMaps
  Inputs <- MCInputs
SPECIFICATION EitherFairSpec
INVARIANTS
  EitherInv
  PushedLabelsAreMinimal
  CachedPeersNoted
  LabelsSettle
  RoundsDecideComponents
PROPERTIES
  ImplementsLabelling
  Terminates
