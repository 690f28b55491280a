SPECIFICATION Spec
CONSTANTS
  login = login
  sso = sso
  none = none
  openid = openid
  groups = groups
  Transports = {"stdio"}
  Issuers = {login, sso}
  NoIssuer = none
  Scopes = {openid, groups}
  Toolsets = {"core", "no-such-toolset"}
  ValidToolsets = {"core"}
  Defaults <- MCDefaults
  Parts <- MCParts
  Broken = Broken
  Flags <- MCReadOnly
  MaxEdits = 2
  MaxSignals = 2
  MaxFailures = 0
INVARIANT FlagsHold
CHECK_DEADLOCK FALSE
