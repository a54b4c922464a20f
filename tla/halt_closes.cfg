SPECIFICATION Spec
CONSTANTS
  None = None
  Reads = "rows"
  FlattenOnHalt = TRUE
  MaxRunners = 2
  MaxHeld = 1
  MaxOrders = 2
  MaxTrips = 1
  MaxTroubles = 0
INVARIANTS ClosesDoNotStack
CHECK_DEADLOCK FALSE
