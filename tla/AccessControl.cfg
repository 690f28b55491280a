CONSTANTS
  Calls = {1}
  Tools <- MCTools
  Requests <- MCRequests
  Known <- MCKnown
  Configs <- MCConfigs
  Segments <- MCSegments
  Prefix <- MCPrefix
  MaxReloads = 1
  MaxRequests = 2
SPECIFICATION Spec
INVARIANTS
  NothingDeniedDelivered
  RequestsConfirmed
  ToolsConfirmed
  NotAskedInVain
CHECK_DEADLOCK FALSE
