CONSTANTS
  MaxMessages = 2
  MaxSteps = 1
  MaxCancels = 1
  MaxJobs = 1
SPECIFICATION FairSpec
INVARIANTS
  TypeOK
  BoundariesClosed
  InputReachesTurns
PROPERTIES
  LogGrammar
  AbortStopsWork
  WhenIdleIsQuiescent
  ActivitiesSettle
  WakesOpenTurns
CHECK_DEADLOCK FALSE
