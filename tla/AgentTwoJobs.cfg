SPECIFICATION Spec
CONSTANTS
  ns = ns
  Services = {s1}
  Namespaces = {ns}
  NamespaceOf <- OneNamespace
  Jobs = {j1, j2}
  None = None
  Faults = {}
INVARIANT OneInstaller
CHECK_DEADLOCK FALSE
