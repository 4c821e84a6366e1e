SPECIFICATION FairSpec
CONSTANTS
  Backends = {b1, b2, b3}
  BreakerEnabled = TRUE
  FailureThreshold = 1
  HalfOpenMaxProbes = 1
  HistoryLimit = 1
  Requests = {r1}
  MaxRetries = 2
  MaxInflight = 9
  Handlers = {"check", "drain", "reset", "poll"}
  None = None
  MaxOthers = 1
PROPERTIES
  RetryElsewhere
  PoolSpec
  Answered
CHECK_DEADLOCK FALSE
