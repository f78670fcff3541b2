SPECIFICATION SessionSpec
CONSTANTS
  Term = 2
  Hard = 3
  Watchdog = 1
  Poll = 1
  Seconds = {2}
  MaxSeq = 2
  MaxTime = 5
INVARIANTS
  ResetInTime
  SessionAgrees
PROPERTIES
  EverySessionEnds
  
CHECK_DEADLOCK FALSE
