SPECIFICATION Spec
CONSTANTS
  None = None
  Reads = "envelope"
  FlattenOnHalt = FALSE
  MaxHeld = 0
  MaxRunners = 1
  MaxOrders = 1
  MaxTrips = 1
  MaxTroubles = 0
INVARIANT StopFindsRunner
CHECK_DEADLOCK FALSE
