SPECIFICATION FairSpec
CONSTANTS
  sighup = sighup
  watcher = watcher
  core = core
  helm = helm
  alone = alone
  fleet = fleet
  get = get
  delete = delete
  routes = routes
  listTargets = listTargets
  check = check
  custom = custom
  Reloaders <- MCReloaders
  Sighup = sighup
  Concurrent = FALSE
  Configs <- MCConfigs
  InitialConfig <- permissive
  Toolsets <- MCToolsets
  Worlds <- MCWorlds
  MultiTarget = {fleet}
  Tools <- MCTools
  Prompts <- MCPrompts
  TargetLists = {listTargets}
  ReadOnlyHint = {get, listTargets, routes}
  Destructive = {delete}
  Provides <- MCProvides
  MaxReloads = 4
INVARIANTS
  SettledExact
PROPERTIES
  ImplementsRegistry
  ReloadsSettle
CHECK_DEADLOCK FALSE
