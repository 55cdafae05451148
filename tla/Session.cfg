SPECIFICATION Spec
CONSTANTS
  Null = Null
  Junk = Junk
  Nan = Nan
  IntMax = 7
  Calls <- AllCalls
  MaxCalls = 2
  MaxListens = 2
  Losing = TRUE
INVARIANTS ValuesArrive ErrorsArrive OnlyMatchingRun MemoryOwned LifecycleRight
PROPERTY OnlyKnownFaults
CHECK_DEADLOCK FALSE
