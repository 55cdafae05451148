\* One putter, the reactor, as server.c uses the pool, and three workers. Nothing
\* runs any more once the pool is freed or a wakeup is lost: no deadlock check.
SPECIFICATION FairSpec
CONSTANTS
  Workers = {w1, w2, w3}
  Putters = {p1}
  Tasks = {t1, t2}
  NoTask = NoTask
  Nobody = Nobody
  Cap = 2
  PutsDuringDestroy = FALSE
INVARIANTS RingSafe NoLostWakeup
PROPERTIES ImplementsTaskQueue TasksAreTaken PutReturns DestroyReturnsUnlessRace
CHECK_DEADLOCK FALSE
