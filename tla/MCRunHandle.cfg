SPECIFICATION FairSpec
CONSTANTS
  MaxEvents = 2
  MaxBytes = 3
  Sizes = {1, 2, 4}
  MaxProduced = 2
  MaxPrompts = 1
  MaxPauses = 2
INVARIANTS InOrder PausedStandsStill
PROPERTIES SettledOnce RunEnds
CHECK_DEADLOCK FALSE
