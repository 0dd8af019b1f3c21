SPECIFICATION FairSpec
CONSTANTS
  Tasks = {s, t}
  Keys = {x, y}
  MaxClients = 1
  Modes = {"headless", "headed"}
  DefaultMode = "headless"
  NoTask = NoTask
  NoKey = NoKey
INVARIANTS WithinLimit Settled
PROPERTIES InUseStays CloseAllEnds
CHECK_DEADLOCK FALSE
