SPECIFICATION MCSpec
CONSTANTS
  Plans <- TwoPlans
  Chunks = 2
  Old <- Blank
  Source <- Archives
  MaxBoots = 1
  MaxMeddles = 3
INVARIANTS
  CompletionIsDurable
  NeverBothWait
  DerivedIsTheBackup
  DeployedIsQualified
PROPERTIES
  WritesAsApproved
CHECK_DEADLOCK FALSE
