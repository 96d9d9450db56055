SPECIFICATION FairSpec
CONSTANTS
  h = h
  v = v
  None = None
  Clusters = {h, v}
  HostOf <- MCHostOf
  MaxFaults = 2
INVARIANTS
  OneInformer
  WatchOwed
PROPERTIES
  StaleOnly
  WatchFollows
  StaleGoInTheEnd
CHECK_DEADLOCK FALSE
