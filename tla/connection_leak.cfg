SPECIFICATION Spec
CONSTANTS
  Backends = {b1, b2}
  BreakerEnabled = TRUE
  FailureThreshold = 2
  HalfOpenMaxProbes = 1
  HistoryLimit = 1
  Requests = {r1}
  MaxRetries = 2
  MaxInflight = 9
  Handlers = {}
  None = None
  MaxOthers = 2
INVARIANTS
  IdleIsZero
CHECK_DEADLOCK FALSE
SYMMETRY Symmetry
