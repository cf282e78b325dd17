CONSTANTS
  MaxCmds = 3
  MaxConns = 2
  MaxLoads = 0
  TTL = 3
  ErrSetsDisconnecting = FALSE
  Interval = 1
  ConnTimeout = 0
  Auth = FALSE
  MaxTime = 4
  QuietAfter = 2
  Env = {"connect_refused", "reset_idle", "release_idle"}
SPECIFICATION FairSpec
INVARIANTS
  NoUseAfterFree
  EachCommandHeldOnce
  ReplyListMatchesHiredis
PROPERTY EveryCommandEnds
