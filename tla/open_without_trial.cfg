SPECIFICATION UnattendedSpec
CONSTANTS
  Backends = {b1}
  BreakerEnabled = TRUE
  FailureThreshold = 2
  HalfOpenMaxProbes = 1
  HistoryLimit = 1
  MaxInflight = 2
PROPERTIES
  OpenGetsTrial
