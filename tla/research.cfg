SPECIFICATION Spec
CONSTANTS
  Jobs = {j1, j2}
  NoJob = NoJob
  None = None
  Specs <- MCBoth
  Lease = 1
  Interval = 1
  RetryBase = 1
  RetryMax = 2
  MaxFailures = 2
  MaxTime = 1
  MaxBorn = 2
  MaxRuns = 2
  MaxTroubles = 1
INVARIANTS SentOnceUnlessRepeated SentWasDelivered
PROPERTIES NotFiredWhileOwed
CHECK_DEADLOCK FALSE
