SPECIFICATION FairSpec
CONSTANTS
  s1 = s1
  s2 = s2
  Starters <- MCStarters
  Closers = {"host", "runtime"}
  OwnsRuntime = TRUE
  MaxRuns = 3
  MaxFaults = 3
INVARIANTS ClosedByOne ClosedIsQuiet
PROPERTIES HandleStands ClosersReturn
CHECK_DEADLOCK FALSE
