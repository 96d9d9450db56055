SPECIFICATION Spec
CONSTANTS
  u1 = u1
  u2 = u2
  n1 = n1
  n2 = n2
  n3 = n3
  UIDs = {u1, u2}
  Earlier <- NoEarlier
  Names = {n1, n2, n3, other}
  NamesOf <- OwnNames
  Generated = {u2}
  Skipped = {u1}
  Foreign = {u2}
  Workers = {w1, w2}
  None = None
  Faults = {"error", "relist", "restart"}
  MaxFaults = 3
SYMMETRY Symmetry
INVARIANTS
  OneClusterEach
  ImportOwed
PROPERTIES
  DeleteOnlyGone
  CleanupOwed
  ImplementsLife
CHECK_DEADLOCK FALSE
