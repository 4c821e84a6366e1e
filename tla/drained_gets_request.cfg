SPECIFICATION MaintenanceSpec
CONSTANTS
  Backends = {b1}
  BreakerEnabled = TRUE
  FailureThreshold = 2
  HalfOpenMaxProbes = 2
  HistoryLimit = 2
  MaxInflight = 2
PROPERTIES
  DrainedGetsNoRequest
