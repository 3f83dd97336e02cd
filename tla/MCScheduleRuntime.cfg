CONSTANTS
  LastInstant = 2
  Intervals = {1}
  MaxDelay = 1
  MaxCalls = 1
  MaxWorks = 2
  MaxMishaps = 1
SPECIFICATION FairSpec
INVARIANTS
  TypeOK
  RemindedOnce
PROPERTIES
  ActsOnConfirmed
  RuntimeSettles
CHECK_DEADLOCK FALSE
