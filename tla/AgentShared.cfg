SPECIFICATION FairSpec
CONSTANTS
  ns = ns
  Services = {s1, s2}
  Namespaces = {ns}
  NamespaceOf <- OneNamespace
  Jobs = {j1}
  None = None
  Faults = {}
PROPERTIES
  SparesHealthyJobs
  NamespaceServed
CHECK_DEADLOCK FALSE
