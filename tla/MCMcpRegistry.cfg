SPECIFICATION FairSpec
CONSTANTS
  Servers = {s}
  Configs = {"on"}
  Callers = {a}
  Conns = {x, y}
  MaxVersion = 1
  None = None
INVARIANTS CatalogLive NoOrphan
PROPERTIES FreshWhenPublished RevokedIsDown RefreshEnds
CHECK_DEADLOCK FALSE
