CONSTANT MaxSignals = 3
SPECIFICATION FairSpec
\* the process ends
CHECK_DEADLOCK FALSE
INVARIANTS
  LoggerOutlivesThreads
  EndsOnlyWhenTold
  NoLoopOnFreedBase
PROPERTIES
  TermStops
