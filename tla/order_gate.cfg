SPECIFICATION Spec
CONSTANTS
  c1 = c1
  c2 = c2
  spy = spy
  btc = btc
  Clients = {c1, c2}
  NoClient = NoClient
  Symbols = {spy}
  Sizes <- MCBuy
  Mandates <- MCBoth
  NoMandate = NoMandate
  NoOrder = NoOrder
  Unreadable = Unreadable
  Paths = {"order", "action"}
  Effects = {"filled", "resting"}
  Reducers = TRUE
  Cap = 1
  MaxDay = 1
  MaxFaults = 1
SYMMETRY Callers
INVARIANTS AdmissionIsExclusive AtMostOneCarried
PROPERTIES DailyCap HaltStopsNewOrders ImplementsBudget
CHECK_DEADLOCK TRUE
