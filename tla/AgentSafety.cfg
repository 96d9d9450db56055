SPECIFICATION Spec
CONSTANTS
  ns = ns
  Services = {s1, s2}
  Namespaces = {ns}
  NamespaceOf <- OneNamespace
  Jobs = {j1}
  None = None
  Faults = {"error"}
SYMMETRY Symmetry
INVARIANTS
  TypeOK
  WaitedForAll
PROPERTY SparesHealthyJobs
CHECK_DEADLOCK FALSE
