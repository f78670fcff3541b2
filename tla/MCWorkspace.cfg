SPECIFICATION MCSpec
CONSTANTS
  p1 = p1
  p2 = p2
  named = named
  safety1 = safety1
  safety2 = safety2
  None = None
  Proc = {p1, p2}
  Names = {named}
  Safety = {safety1, safety2}
  Disk = "disk.qcow2"
  Artifacts <- MCArtifacts
  MaxVersion = 2
  Transactions <- MCPlans
  MaxCalls = 4
  MaxFailures = 1
  Parts = {"workspace", "service"}
SYMMETRY Symmetry
INVARIANTS
  PendingIsFinishable
  GuestAlone
  ActedOnce
  AcknowledgedIsTrue
PROPERTIES
  NothingLost
CHECK_DEADLOCK FALSE
