SPECIFICATION FairSpec
CONSTANTS
  Pods = {p1, p2, p3}
  MaxFaults = 2
INVARIANTS
  UndisturbedValid
PROPERTIES
  LastPodServes
CHECK_DEADLOCK FALSE
