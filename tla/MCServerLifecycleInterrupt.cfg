CONSTANT MaxSignals = 1
SPECIFICATION FairSpec
\* the process ends
CHECK_DEADLOCK FALSE
PROPERTIES
  InterruptStops
