CONSTANTS
  NCalls = 4
  PoolSize = 2
SPECIFICATION FairSpec
INVARIANTS
  TypeOK
  TranscriptValid
  PoolDiscipline
  FailureContained
PROPERTIES
  NoLateStarts
  BatchSettles
CHECK_DEADLOCK FALSE
