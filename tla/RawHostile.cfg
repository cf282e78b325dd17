CONSTANTS
  MaxCmds = 2
  MaxConns = 2
  MaxLoads = 0
  TTL = 3
  ErrSetsDisconnecting = TRUE
  Interval = 1
  ConnTimeout = 1
  Auth = FALSE
  MaxTime = 3
  QuietAfter = 3
  Env = {"connect_failed", "connect_refused", "connect", "reset_busy", "release_busy"}
SPECIFICATION Spec
INVARIANTS
  TypeOK
  EachCommandHeldOnce
  OkMeansAnswered
  ReplyListMatchesHiredis
  TimeoutSparesEstablished
  ProcAssertion
  EndIsReported
PROPERTY ImplementsLifecycle
