SPECIFICATION FairSpec
CONSTANTS
  ns = ns
  Services = {s1, s2}
  Namespaces = {ns}
  NamespaceOf <- OneNamespace
  Jobs = {j1}
  None = None
  Faults = {}
PROPERTY InstalledInTheEnd
CHECK_DEADLOCK FALSE
