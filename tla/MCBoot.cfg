SPECIFICATION MCSpec
CONSTANTS
  Longest = 30
  Budget = 9
  Check = 1
  Window = 6
  Unmounting = 1
  Approval = 6
  MaxBoots = 2
  Plans = {p1, p2}
  Owner = owner
  MaxNumber = 4
  MaxCampaign = 3
  Journals = {j1, j2, j3}
  MaxReads = 3
SYMMETRY JournalSymmetry
INVARIANTS
  VerdictIsTrue
  LeaseOutlivesMount
  RebootsWhereApproved
  EvidenceIsTrue
  WholeBoots
  
CHECK_DEADLOCK FALSE
