SPECIFICATION FairSpec
CONSTANTS
  s1 = s1
  s2 = s2
  top = top
  left = left
  right = right
  leaf = leaf
  none = none
  c1 = c1
  Servers = {s1, s2}
  Workspaces <- MCWorkspaces
  Children <- MCChildren
  None = none
  Files <- MCFiles
  Outages <- MCOutages
  Callers = {c1}
  Sought = {leaf}
  Steady = TRUE
  MaxWrites = 2
  MaxChanges = 2
INVARIANTS
  RightWorkspace
  TargetsExact
PROPERTIES
  ChildrenOffered
