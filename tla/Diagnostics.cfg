SPECIFICATION DiagnosticsSpec
CONSTANTS
  TopLimit = 2
  GraphTypes <- MCGraphTypes
  HealthAnswers <- MCHealthAnswers
  Worlds <- MCWorlds
  ClusterCalls <- MCClusterCalls
  GuideCalls <- MCGuideCalls
  OpenShiftNamespaces = {"openshift-x"}
  Extends <- MCExtends
  RestartThreshold = 5
  EventLimit = 2
  MaxChanges = 1
  MaxFailures = 2
INVARIANTS
  EveryPartAccounted
  SummaryExact
  ReportsTruthful
CHECK_DEADLOCK FALSE
