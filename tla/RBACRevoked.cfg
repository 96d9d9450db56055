SPECIFICATION FairSpec
CONSTANTS
  c = c
  p = p
  h = h
  u1 = u1
  inProject = inProject
  inHost = inHost
  group = group
  Clusters = {c}
  ProjectOf <- OneProject
  HostOf <- OneHost
  Bindings = {inProject, group}
  Users = {u1}
  ScopeOf <- Scopes
  UserOf <- UsersOf
  NoUser = NoUser
  Qualifying = {inProject, group}
  Faults = {}
PROPERTY
  RevokedInTheEnd
CHECK_DEADLOCK FALSE
