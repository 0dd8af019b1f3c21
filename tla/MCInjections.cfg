SPECIFICATION FairSpec
CONSTANTS
  Ids = {x, y, z}
  Contents = {a, b}
  NoInput = NoInput
  MaxSubmissions = 3
  MaxRuns = 2
  MaxRevisions = 1
  MaxRestarts = 1
  MaxFailures = 1
INVARIANTS OnceInOrder CancelHonoured ReceiptsTruthful
PROPERTIES Settles
CHECK_DEADLOCK FALSE
