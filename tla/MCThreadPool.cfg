SPECIFICATION FairSpec
CONSTANTS
  Workers = {w1, w2}
  Callers = {c1}
  Tasks = {t1, t2, t3}
  None = None
  StartMayFail = TRUE
INVARIANTS NoLostWakeup
PROPERTIES EveryTaskRuns PoolSpec
\* When all tasks are added and no thread started, nothing is left to do.
CHECK_DEADLOCK FALSE
