SPECIFICATION FairSpec
CONSTANTS
  c = c
  p = p
  h = h
  u1 = u1
  inProject = inProject
  inHost = inHost
  group = group
  Clusters = {c}
  ProjectOf <- OneProject
  HostOf <- OneHost
  Bindings = {inProject, inHost, group}
  Users = {u1}
  ScopeOf <- Scopes
  UserOf <- UsersOf
  NoUser = NoUser
  Qualifying = {inProject, inHost, group}
  Faults = {"error", "dropped", "project", "removed", "restart"}
INVARIANTS
  OwnersFollow
PROPERTIES
  GrantedInTheEnd
  RevokedUnlessBlocked
CHECK_DEADLOCK FALSE
