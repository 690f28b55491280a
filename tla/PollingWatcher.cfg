SPECIFICATION FairSpec
CONSTANTS
  t1 = t1
  t2 = t2
  Threads = {t1, t2}
  MaxCallbacks = 1
  Kinds = {"ClusterState", "WorkspaceWatcher"}
  S1 = S1
  S2 = S2
  States = {S1, S2, Unreachable}
  Unreachable = Unreachable
  Unfetched = Unfetched
  Overlap = FALSE
  Steady = TRUE
  MaxChanges = 2
  MaxFailures = 1
INVARIANTS
  BaselineApplied
PROPERTIES
  ReloadsConverge
