CONSTANTS
  Owners = {o1}
  Limit = 1
  WakeBudget = 1
  MaxJobs = 2
  MaxWaits = 2
SPECIFICATION FairSpec
INVARIANTS
  TypeOK
  JobsAccounted
PROPERTIES
  JobsSettle
CHECK_DEADLOCK FALSE
