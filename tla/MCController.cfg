SPECIFICATION FairSpec
CONSTANTS
  j1 = j1
  j2 = j2
  j3 = j3
  p1 = p1
  p2 = p2
  m1 = m1
  NoJob = NoJob
  NoMachine = NoMachine
  Job = {j1, j2, j3}
  Path = {p1, p2}
  Machine = {m1}
  PathOf <- MCPathOf
  MachineOf <- MCMachineOf
  Cancellable = {j1}
  Workers = 2
  Limit = 2
  Switches <- Shared
  None = None
  Columns = 2
  Debounce = 3
  Narrow = 8
  Wide = 16
  fn = fn
  one = one
  two = two
  Key = {tab}
  Button = {left}
  Contacts = {fn, one, two}
  Mapped <- MCMapped
  AgentContact = agent
  MaxHeld = 2
  MaxQueue = 1
  MaxBoots = 2
  MaxResets = 1
  Parts = {"controller"}
INVARIANTS
  Exclusive
  HistoryHonest
PROPERTIES
  EveryJobEnds
CHECK_DEADLOCK FALSE
