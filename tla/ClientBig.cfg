SPECIFICATION Spec
CONSTANTS
  c1 = c1
  c2 = c2
  None = None
  Failed = Failed
  Callers <- OnlyC1
  Calls <- BigCalls
  Cap = 4
  Crashes = FALSE
INVARIANTS NoFalseFailure
CHECK_DEADLOCK FALSE
