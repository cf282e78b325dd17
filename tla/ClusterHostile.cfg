CONSTANTS
  MaxCmds = 1
  MaxConns = 2
  MaxLoads = 1
  TTL = 2
  ErrSetsDisconnecting = TRUE
  SlotCount = 1
  Seed = "a"
  Servers <- MCServers
  Tables <- MCTables
  Interval = 1
  ConnTimeout = 1
  Auth = FALSE
  MaxTime = 2
  QuietAfter = 1
  Env = {"connect_failed", "bad_addr", "reset_busy", "release_busy", "MOVED", "ASK",
         "TRYAGAIN", "CLUSTERDOWN", "load_failed"}
SPECIFICATION Spec
INVARIANTS
  TypeOK
  EachCommandHeldOnce
  OkMeansAnswered
  ReplyListMatchesHiredis
  MapMatchesConnections
  TimeoutHitsConnecting
  EndIsReported
  NobodyWaitsForTable
PROPERTY
  ImplementsLifecycle
