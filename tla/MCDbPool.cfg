CONSTANTS
  Threads = {t1, t2, t3, t4}
  PoolSize = 2
  None = None
  MaxUses = 1
SPECIFICATION FairSpec
\* every thread has had its turn
CHECK_DEADLOCK FALSE
INVARIANTS
  PoolConserved
  NoLostWakeup
PROPERTIES
  WaiterServed
  LeaseSpec
