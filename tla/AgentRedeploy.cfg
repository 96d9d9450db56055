SPECIFICATION Spec
CONSTANTS
  ns = ns
  Services = {s1}
  Namespaces = {ns}
  NamespaceOf <- OneNamespace
  Jobs = {j1, j2}
  None = None
  Faults = {"removed"}
PROPERTY RedeployHasCommand
CHECK_DEADLOCK FALSE
