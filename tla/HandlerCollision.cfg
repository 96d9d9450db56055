SPECIFICATION FairSpec
CONSTANTS
  u1 = u1
  u2 = u2
  n1 = n1
  n2 = n2
  n3 = n3
  UIDs = {u1, u2}
  Earlier <- NoEarlier
  Names = {n1}
  NamesOf <- SameName
  Generated = {}
  Skipped = {}
  Foreign = {}
  Workers = {w1}
  None = None
  Faults = {}
  MaxFaults = 0
PROPERTY ImportedInTheEnd
CHECK_DEADLOCK FALSE
