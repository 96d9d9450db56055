SPECIFICATION FairSpec
CONSTANTS
  None = None
  MaxFinalizers = 2
  Faults = {}
INVARIANT
  FinalizerOnce
CHECK_DEADLOCK FALSE
