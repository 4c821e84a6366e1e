SPECIFICATION Spec
CONSTANTS
  Minute = 2
  Interval = 1
  MaxLogs = 2
  MaxAggregates = 2
  MaxTime = 2
  Deadline = 1
  MaxRequests = 1
  MaxSignals = 1
INVARIANTS
  InFlightComplete
CHECK_DEADLOCK FALSE
