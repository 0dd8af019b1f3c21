SPECIFICATION Spec
CONSTANTS
  s1 = s1
  s2 = s2
  Starters <- MCStarters
  Closers = {"host"}
  OwnsRuntime = TRUE
  MaxRuns = 1
  MaxFaults = 1
INVARIANTS OwnedRuntimeCloses
CHECK_DEADLOCK FALSE
