SPECIFICATION Spec
CONSTANTS
  h = h
  v = v
  None = None
  Clusters = {h, v}
  HostOf <- MCHostOf
  MaxFaults = 0
PROPERTY StoppedWithPeer
CHECK_DEADLOCK FALSE
