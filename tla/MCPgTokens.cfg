CONSTANTS
  Threads = {t1, t2, t3}
  Conns = {c1, c2}
  None = None
  MaxPair = 3
  MaxTime = 2
  Leases = {1}
SPECIFICATION Spec
SYMMETRY ThreadSymmetry
INVARIANTS
  ReplacedExpired
  HeldAsStored
  NotAllWait
