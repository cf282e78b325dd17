CONSTANTS
  MaxCmds = 2
  MaxConns = 2
  MaxLoads = 1
  TTL = 2
  ErrSetsDisconnecting = TRUE
  SlotCount = 1
  Seed = "a"
  Servers <- MCServers
  Tables <- MCTwoTables
  Interval = 1
  ConnTimeout = 0
  Auth = TRUE
  MaxTime = 0
  QuietAfter = 0
  Env = {"MOVED", "start", "connect", "bad_format"}
SPECIFICATION Spec
INVARIANTS
  EachCommandHeldOnce
  NobodyWaitsForTable
  NoUseAfterFree
  NothingOvertakesAuth
