SPECIFICATION FairSpec
CONSTANTS
  c1 = c1
  c2 = c2
  spy = spy
  btc = btc
  Clients = {c1, c2}
  NoClient = NoClient
  Symbols = {spy}
  Sizes <- MCSizes
  Mandates <- MCTight
  NoMandate = NoMandate
  NoOrder = NoOrder
  Unreadable = Unreadable
  Paths = {"order", "action"}
  Effects = {"filled"}
  Reducers = FALSE
  Cap = 3
  MaxDay = 0
  MaxFaults = 0
PROPERTIES ExposureCap StaleReadsCost SubmissionAnswered
