SPECIFICATION Spec
CONSTANTS
  Minute = 2
  Interval = 1
  MaxLogs = 2
  MaxAggregates = 2
  MaxTime = 4
  Deadline = 1
  MaxRequests = 3
  MaxSignals = 2
INVARIANTS
  TypeOK
  AggregateAccurate
PROPERTIES
  CountsGrow
  ShutdownEnds
CHECK_DEADLOCK FALSE
