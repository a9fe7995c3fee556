\* A destroyed queue does nothing more.
CONSTANTS
  None = None
  Threads = {t1, t2}
  Tasks = {k1, k2, k3, k4}
CHECK_DEADLOCK FALSE
SPECIFICATION FairQueueSpec
INVARIANTS
  NoTaskOutlivesQueue
PROPERTY
  EveryTaskRuns
