SPECIFICATION MCSpec
CONSTANTS
  Phases = 2
  MaxBoot = 3
  Jobs = {j1, j2}
  MaxBoots = 2
  first = j1
  second = j2
  MaxWrites = 1
INVARIANTS
  StagedIsSound
  SnapshotIsWhole
CHECK_DEADLOCK FALSE
