CONSTANTS
  MaxMessages = 2
  MaxSteps = 1
  MaxCancels = 0
  MaxJobs = 0
SPECIFICATION Spec
PROPERTIES
  DrainedLeavesNothing
CHECK_DEADLOCK FALSE
