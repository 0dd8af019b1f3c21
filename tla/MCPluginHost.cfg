SPECIFICATION FairSpec
CONSTANTS
  p = p
  s = s
  r1 = r1
  r2 = r2
  Plan <- MCPlan
  Scope <- MCScope
  Sessions = {k1, k2}
  MaxCuts = 2
INVARIANTS RunsFirst ClosedIsEmpty OneInstance
PROPERTIES ShutdownEmpties
CHECK_DEADLOCK FALSE
