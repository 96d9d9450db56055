SPECIFICATION FairSpec
CONSTANTS
  None = None
  MaxFinalizers = 2
  Faults = {"annotate"}
PROPERTY
  AppKept
CHECK_DEADLOCK FALSE
