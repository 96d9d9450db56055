SPECIFICATION FairSpec
CONSTANTS
  ns = ns
  Services = {s1}
  Namespaces = {ns}
  NamespaceOf <- OneNamespace
  Jobs = {j1, j2}
  None = None
  Faults = {"error", "removed"}
INVARIANTS
  WaitedForAll
PROPERTIES
  InstalledInTheEnd
  QuietInTheEnd
CHECK_DEADLOCK FALSE
