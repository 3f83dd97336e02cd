CONSTANTS
  c1 = c1
  c2 = c2
  Callers = {c1, c2}
  Capacity = 1
  Ids = {1, 2}
  Objects = {1, 2, 3, 4}
  MaxCalls = 2
  MaxWrites = 1
SPECIFICATION FairSpec
INVARIANTS
  TypeOK
  ReservationsAreCurrent
  ExclusiveReservation
PROPERTIES
  CallsSettle
CHECK_DEADLOCK FALSE
