SPECIFICATION FairBrokerSpec
CONSTANTS
  Requests = {p, o}
  OneShot = {o}
INVARIANTS GrantIsTheHosts NothingStillAsks
PROPERTIES CancelStands Settles
CHECK_DEADLOCK FALSE
