SPECIFICATION Spec
CONSTANTS
  Calls = {c1, c2}
  MaxTurns = 2
  MaxSteps = 1
  MaxCompactions = 1
  MaxCrashes = 1
  MaxFailures = 1
  TornWrites = FALSE
SYMMETRY Symmetry
INVARIANTS
  HonestNotStarted
  RequestWellFormed
  IdleIsDurable
PROPERTIES
  DurableNeverLost
  ImplementsContract
CHECK_DEADLOCK FALSE
