SPECIFICATION FairSpec
CONSTANTS
  c1 = c1
  c2 = c2
  None = None
  Failed = Failed
  Callers <- Both
  Calls <- MixedCalls
  Cap = 4
  Crashes = TRUE
INVARIANTS WholeRequests OwnAnswer InStep FittingSucceed
PROPERTIES ImplementsRpcService CallsReturn
CHECK_DEADLOCK FALSE
