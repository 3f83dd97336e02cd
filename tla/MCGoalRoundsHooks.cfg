CONSTANTS
  Caps = {2}
  MaxChanges = 2
  MaxPrompts = 0
  MaxCancels = 0
  MaxJobs = 0
SPECIFICATION ResumesFirst
INVARIANTS
  AdmittedRoundsReplay
CHECK_DEADLOCK FALSE
