SPECIFICATION MCSpec
CONSTANTS
  Calls = {c1, c2}
  MaxContent = 2
  MaxBoots = 3
  QueueLimit = 1
  MaxMachines = 2
  MaxRuns = 2
  MaxKills = 1
  Clients = {c1}
  MaxClients = 1
  Parts = {"window"}
INVARIANTS
  BootBecomesVisible
CHECK_DEADLOCK FALSE
