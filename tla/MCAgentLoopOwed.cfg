CONSTANTS
  MaxMessages = 2
  MaxSteps = 2
  MaxCancels = 0
  MaxJobs = 0
SPECIFICATION Spec
INVARIANTS
  NothingOwedAtClose
CHECK_DEADLOCK FALSE
