SPECIFICATION Spec
CONSTANTS
  MaxReconnects = 1
  MaxDrops = 1
  Capacity = 2
  Window = 2
  PenaltyCapacity = 1
  PenaltyTime = 3
  Slack = 2
  EvictAfter = 3
  MaxWait = 2
  MaxTime = 4
  MaxRequests = 4
  MaxOthers = 1
INVARIANTS
  TypeOK
  WithinBudget
  PenaltyBites
  RetryAfterHonest
PROPERTIES
  Decided
CHECK_DEADLOCK FALSE
