SPECIFICATION Spec
CONSTANTS
  Backends = {b1, b2}
  BreakerEnabled = TRUE
  FailureThreshold = 2
  HalfOpenMaxProbes = 1
  HistoryLimit = 1
  Requests = {r1, r2}
  MaxRetries = 2
  MaxInflight = 9
  Handlers = {"drain", "undrain", "override"}
  None = None
  MaxOthers = 1
INVARIANTS
  TypeOK
  ConnectionsCounted
PROPERTIES
  QuietWhenDrained
  ContractSpec
CHECK_DEADLOCK FALSE
SYMMETRY Symmetry
