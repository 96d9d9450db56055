SPECIFICATION FairSpec
CONSTANTS
  None = None
  MaxFinalizers = 2
  Faults = {"annotate", "remove", "patch", "post", "helm", "restart"}
INVARIANTS
  TypeOK
  NeverStuck
  ReleaseOwed
PROPERTIES
  HeldUntilUninstalled
  GoneInTheEnd
  UnmarkedInTheEnd
CHECK_DEADLOCK FALSE
