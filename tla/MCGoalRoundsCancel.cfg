CONSTANTS
  Caps = {1, 2}
  MaxChanges = 2
  MaxPrompts = 0
  MaxCancels = 1
  MaxJobs = 1
SPECIFICATION ResumesFirst
PROPERTIES
  CancelledRoundsPause
CHECK_DEADLOCK FALSE
