SPECIFICATION Spec
CONSTANTS
  u1 = u1
  u2 = u2
  n1 = n1
  n2 = n2
  n3 = n3
  UIDs = {u1, u2}
  Earlier <- Recreated
  Names = {n1, n2}
  NamesOf <- CustomNames
  Generated = {}
  Skipped = {}
  Foreign = {}
  Workers = {w1, w2}
  None = None
  Faults = {"error", "relist", "restart"}
  MaxFaults = 1
SYMMETRY Symmetry
INVARIANTS
  TypeOK
  ImportOwed
PROPERTIES
  DeleteOnlyGone
CHECK_DEADLOCK FALSE
