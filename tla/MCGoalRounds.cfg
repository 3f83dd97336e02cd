CONSTANTS
  Caps = {1, 2}
  MaxChanges = 2
  MaxPrompts = 1
  MaxCancels = 1
  MaxJobs = 1
SPECIFICATION FairSpec
INVARIANTS
  TypeOK
PROPERTIES
  RefusedOnlyIfOvertaken
  RoundsReservedWhenDue
  GoalDriven
CHECK_DEADLOCK FALSE
