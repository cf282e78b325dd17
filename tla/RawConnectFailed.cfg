CONSTANTS
  MaxCmds = 1
  MaxConns = 1
  MaxLoads = 0
  TTL = 2
  ErrSetsDisconnecting = TRUE
  Interval = 1
  ConnTimeout = 0
  Auth = FALSE
  MaxTime = 1
  QuietAfter = 1
  Env = {"connect_failed"}
SPECIFICATION Spec
INVARIANT NoUseAfterFree
