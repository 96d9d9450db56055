SPECIFICATION FairSpec
CONSTANTS
  s1 = s1
  s2 = s2
  w = w
  env = env
  org = org
  loft = loft
  Services <- MCServices
  Namings <- MCNamings
  Labelled = {s1}
  Workspaces = {w}
  Default = w
  NoWorkspace = NoWorkspace
  Mapped <- MCMapped
  AutoCreate = TRUE
  Keys = {env, org, loft}
  Values = {v}
  Absent = Absent
  Included = {env}
  IncludedPrefix = {org, loft}
  Excluded = {loft}
  MaxEdits = 3
INVARIANTS
  NameFits
PROPERTIES
  OthersKept
  LabelsFollow
  CreatedInTheEnd
CHECK_DEADLOCK FALSE
