SPECIFICATION KubeconfigFairSpec
CONSTANTS
  t1 = t1
  t2 = t2
  Threads = {t1, t2}
  MaxCallbacks = 2
  MaxFileChanges = 3
INVARIANTS ChannelProtocol NoSpuriousReload
PROPERTIES CloseStopsGoroutine ChangeReloads

