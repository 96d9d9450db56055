SPECIFICATION FairSpec
CONSTANTS
  Pods = {p1, p2, p3}
  MaxFaults = 0
INVARIANT LastPodAuthenticated
CHECK_DEADLOCK FALSE
