CONSTANTS
  MaxTurns = 2
  MaxSteps = 2
  MaxCalls = 2
  MaxCrashes = 2
SPECIFICATION FairSpec
INVARIANTS
  TypeOK
  RepairAccepted
  RepairAnswers
  RepairConfluent
PROPERTIES
  RecordsKept
  Resumes
CHECK_DEADLOCK FALSE
