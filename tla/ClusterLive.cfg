CONSTANTS
  MaxCmds = 1
  MaxConns = 3
  MaxLoads = 1
  TTL = 2
  ErrSetsDisconnecting = FALSE
  SlotCount = 1
  Seed = "a"
  Servers <- MCServers
  Tables <- MCTables
  Interval = 1
  ConnTimeout = 0
  Auth = FALSE
  MaxTime = 5
  QuietAfter = 1
  Env = {"MOVED", "ASK", "TRYAGAIN", "reset_idle", "release_idle"}
SPECIFICATION FairSpec
INVARIANTS
  NoUseAfterFree
  NoDanglingPrivdata
  UpdatingHasLoad
PROPERTIES
  EveryCommandEnds
  EveryCallReturns
