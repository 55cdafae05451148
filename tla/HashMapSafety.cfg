SPECIFICATION Spec
CONSTANTS
  k1 = k1
  k2 = k2
  k3 = k3
  k4 = k4
  v1 = v1
  v2 = v2
  v3 = v3
  v4 = v4
  v5 = v5
  Keys = {k1, k2, k3, k4}
  Values = {v1, v2, v3, v4, v5}
  NoValue = NoValue
  Hash <- MCHash
  BucketsLen = 2
  MaxBuckets = 8
INVARIANTS NodesRight
PROPERTIES ImplementsMap
CHECK_DEADLOCK FALSE
