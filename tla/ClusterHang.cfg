CONSTANTS
  MaxCmds = 2
  MaxConns = 3
  MaxLoads = 3
  TTL = 2
  ErrSetsDisconnecting = TRUE
  SlotCount = 1
  Seed = "a"
  Servers <- MCServers
  Tables <- MCTables
  Interval = 0
  ConnTimeout = 0
  Auth = FALSE
  MaxTime = 0
  QuietAfter = 0
  Env = {"CLUSTERDOWN"}
SPECIFICATION FairSpec
PROPERTY
  EveryCallReturns
