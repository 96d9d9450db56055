SPECIFICATION FairSpec
CONSTANTS
  h = h
  v = v
  None = None
  Clusters = {h, v}
  HostOf <- MCHostOf
  MaxFaults = 0
PROPERTY OrphansGoInTheEnd
CHECK_DEADLOCK FALSE
