CONSTANTS
  MaxCmds = 2
  MaxConns = 1
  MaxLoads = 3
  TTL = 2
  ErrSetsDisconnecting = TRUE
  SlotCount = 1
  Seed = "a"
  Servers <- MCServers
  Tables <- MCTables
  Interval = 1
  ConnTimeout = 0
  Auth = FALSE
  MaxTime = 1
  QuietAfter = 1
  Env = {"load_failed"}
SPECIFICATION Spec
INVARIANT
  NoReloadLoop
