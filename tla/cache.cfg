SPECIFICATION Spec
CONSTANTS
  MaxReconnects = 1
  MaxDrops = 1
  TTL = 1
  MaxWait = 1
  MaxTime = 3
  MaxRequests = 3
  MaxPurges = 2
INVARIANTS
  TypeOK
  PurgeComplete
  Accounted
PROPERTIES
  HitFresh
  LookupEnds
CHECK_DEADLOCK FALSE
