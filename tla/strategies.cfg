SPECIFICATION Spec
CONSTANTS
  Pool <- MCPool
  InitWeight <- MCInitWeight
  HistoryLimit = 1
  VnodesPerWeight = 1
  Hashes <- MCHashes
  Keys = {0, 3, 8, 9}
  Weights = {0, 4}
  Outcomes <- MCOutcomes
  MaxConnections = 1
  MaxRecorded = 2
  MaxChanges = 1
INVARIANTS
  TypeOK
  SelectionEnds
  Proportional
  EvenRotation
  OwnerClockwise
  OnlyOwnKeysMove
  FailuresRankBelow
CHECK_DEADLOCK FALSE
