SPECIFICATION Spec
CONSTANTS
  Calls = {c1, c2}
  c1 = c1
  c2 = c2
  ClusterKinds <- MCClusterKinds
  Defines <- MCDefines
  Within <- Part
  Images <- MCImages
  Default = "default"
  MayListAll = FALSE
  DataSources <- MCDataSources
  Preferences <- MCPreferences
  Instancetypes <- MCInstancetypes
  Requests <- MCRequests
  OpenShift = TRUE
  InitialObjects <- MCObjects
  InitialKinds <- MCKinds
  Others <- MCOthers
  MaxOthers = 1
SYMMETRY MCSymmetry
INVARIANTS
  HintsHold
  ManifestApplied
  OwnDefinitionsKnown
  PodsDeleteExact
  CreatedAsAsked
PROPERTIES
  SeenBeforeReplaced
CHECK_DEADLOCK FALSE
