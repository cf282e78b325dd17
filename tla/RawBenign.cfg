CONSTANTS
  MaxCmds = 3
  MaxConns = 2
  MaxLoads = 0
  TTL = 2
  ErrSetsDisconnecting = TRUE
  Interval = 1
  ConnTimeout = 0
  Auth = TRUE
  MaxTime = 2
  QuietAfter = 1
  Env = {"connect_refused", "bad_format", "connect", "reset_idle", "release_idle"}
SPECIFICATION Spec
INVARIANTS
  NoDanglingPrivdata
  NoUseAfterFree
  NoDeadContext
  NothingOvertakesAuth
