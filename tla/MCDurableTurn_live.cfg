SPECIFICATION FairSpec
CONSTANTS
  Calls = {c1, c2}
  MaxTurns = 1
  MaxSteps = 2
  MaxCompactions = 0
  MaxCrashes = 1
  MaxFailures = 1
  TornWrites = TRUE
INVARIANTS
  WriteAhead
PROPERTIES
  TurnEnds
  Recovers
CHECK_DEADLOCK FALSE
