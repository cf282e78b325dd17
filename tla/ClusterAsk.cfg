CONSTANTS
  MaxCmds = 2
  MaxConns = 2
  MaxLoads = 1
  TTL = 4
  ErrSetsDisconnecting = TRUE
  SlotCount = 1
  Seed = "a"
  Servers <- MCServers
  Tables <- MCTables
  Interval = 1
  ConnTimeout = 0
  Auth = FALSE
  MaxTime = 2
  QuietAfter = 2
  Env = {"ASK"}
SPECIFICATION Spec
INVARIANT
  AskingComesFirst
