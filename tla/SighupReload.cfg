SPECIFICATION FairSpec
CONSTANTS
  login = login
  sso = sso
  none = none
  openid = openid
  groups = groups
  Transports = {"http", "stdio"}
  Issuers = {login, sso}
  NoIssuer = none
  Scopes = {openid, groups}
  Toolsets = {"core", "no-such-toolset"}
  ValidToolsets = {"core"}
  Defaults <- MCDefaults
  Parts <- MCParts
  Broken = Broken
  Flags <- MCFlags
  MaxEdits = 2
  MaxSignals = 2
  MaxFailures = 1
INVARIANTS
  SnapshotConsistent
  OAuthAgrees
PROPERTIES
  SignalTakesEffect
CHECK_DEADLOCK FALSE
