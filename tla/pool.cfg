SPECIFICATION FairSpec
CONSTANTS
  Backends = {b1}
  BreakerEnabled = TRUE
  FailureThreshold = 3
  HalfOpenMaxProbes = 2
  HistoryLimit = 2
  MaxInflight = 2
INVARIANTS
  TypeOK
  BreakerCoherent
  StatusCoherent
  DrainArmed
PROPERTIES
  DispatchThroughBreaker
  CleanDrain
  OverrideHolds
  TrialEnds
  DrainEnds
