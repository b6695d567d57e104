SPECIFICATION FairSpec
CONSTANTS
  MaxEvents = 6
  Capacity = 3
  BatchSize = 2
  TsfnCapacity = 3
  MayStop = TRUE
  MayTearDown = TRUE
INVARIANTS
  CountSafe
  InOrder
  Accounted
PROPERTIES
  EventsSettle
  StopReturns
CHECK_DEADLOCK FALSE
