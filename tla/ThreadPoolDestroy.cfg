\* pool_destory writes destroyed without the lock: see the finding.
SPECIFICATION FairSpec
CONSTANTS
  Workers = {w1, w2}
  Putters = {p1}
  Tasks = {t1, t2}
  NoTask = NoTask
  Nobody = Nobody
  Cap = 2
  PutsDuringDestroy = FALSE
PROPERTY DestroyReturns
CHECK_DEADLOCK FALSE
