SPECIFICATION Spec
CONSTANTS
  AutoEnforce = TRUE
  MaxRequests = 12
  MaxWindows = 5
INVARIANTS
  TypeOK
PROPERTIES
  BaselineKept
  FlagsOnlyRises
CHECK_DEADLOCK FALSE
