SPECIFICATION Spec
CONSTANTS
  None = None
  Reads = "rows"
  FlattenOnHalt = FALSE
  MaxRunners = 2
  MaxHeld = 0
  MaxOrders = 1
  MaxTrips = 2
  MaxTroubles = 1
INVARIANTS SweepLeavesOnlyLate
PROPERTIES NoCancelTwice TurnsNeedKnownPosition
CHECK_DEADLOCK FALSE
