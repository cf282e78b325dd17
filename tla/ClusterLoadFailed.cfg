CONSTANTS
  MaxCmds = 2
  MaxConns = 2
  MaxLoads = 1
  TTL = 2
  ErrSetsDisconnecting = TRUE
  SlotCount = 1
  Seed = "a"
  Servers <- MCServers
  Tables <- MCTables
  Interval = 1
  ConnTimeout = 0
  Auth = FALSE
  MaxTime = 2
  QuietAfter = 2
  Env = {"load_failed"}
SPECIFICATION Spec
INVARIANT
  NoUseAfterFree
