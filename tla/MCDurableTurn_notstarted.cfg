SPECIFICATION Spec
CONSTANTS
  Calls = {c1, c2}
  MaxTurns = 1
  MaxSteps = 2
  MaxCompactions = 1
  MaxCrashes = 1
  MaxFailures = 1
  TornWrites = TRUE
SYMMETRY Symmetry
INVARIANT HonestNotStarted
CHECK_DEADLOCK FALSE
