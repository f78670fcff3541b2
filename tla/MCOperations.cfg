SPECIFICATION MCSpec
CONSTANTS
  MaxAttempts = 3
  MaxCalls = 5
  MaxDispatches = 4
  Absent = Absent
  Other = Other
  Count = 3
  Before <- MCBefore
  After <- MCAfter
  Edited = {1, 2}
  Leader = leader
  Child = {child, other}
  MaxOps = 2
  None = None

  
  
PROPERTIES
  ImplementsRegister
  
  EveryOperationEnds
CHECK_DEADLOCK FALSE
