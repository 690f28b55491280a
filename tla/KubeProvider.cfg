SPECIFICATION FairSpec
CONSTANTS
  east = east
  west = west
  none = none
  c1 = c1
  c2 = c2
  r1 = r1
  r2 = r2
  Strategies = {"kubeconfig", "single"}
  Contexts = {east, west}
  None = none
  Files <- MCFiles
  Callers = {c1, c2}
  Callbacks = {r1, r2}
  Prompts = FALSE
  Steady = TRUE
  Whole = TRUE
  MaxWrites = 2
INVARIANTS
  CallsSurvive
  RightCluster
PROPERTIES
  FileTakesEffect
