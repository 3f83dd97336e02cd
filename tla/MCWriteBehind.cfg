CONSTANTS
  MaxEvents = 4
  MaxFlushes = 2
  MaxFailures = 2
SPECIFICATION FairSpec
INVARIANTS
  TypeOK
  NothingLostOrStranded
  FlushedIsDurable
PROPERTIES
  WritesProgress
  ImplementsDurableLog
CHECK_DEADLOCK FALSE
