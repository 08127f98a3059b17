CONSTANTS
  WorldSize = 3
  Msgs = {1, 2, 3}
  Dest <- MCDest
  MaxPhases = 2
SPECIFICATION FairSpec
INVARIANTS
  FrontierInv
PROPERTIES
  ImplementsRounds
  AllPhasesEnd
