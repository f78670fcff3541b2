SPECIFICATION MCSpec
CONSTANTS
  Calls = {c1, c2}
  MaxContent = 2
  MaxBoots = 3
  QueueLimit = 1
  MaxMachines = 2
  MaxRuns = 2
  MaxKills = 1
  Clients = {c1, c2, c3}
  MaxClients = 2
  Parts = {"window", "attachment", "panels", "setup"}
INVARIANTS
  ConsoleExclusive
  NothingMeansNothing
  LiveIsOwned
  ConnectionsEnd
  ExecutedWasReviewed
  PreparedIsWhole
PROPERTIES
  CancelStops
CHECK_DEADLOCK FALSE
