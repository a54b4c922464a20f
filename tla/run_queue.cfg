SPECIFICATION Spec
CONSTANTS
  w1 = w1
  w2 = w2
  Runs = {1, 2}
  Workers = {w1, w2}
  Ids = {w1, w2}
  NoId = NoId
  NoRun = NoRun
  IdOf <- MCDistinct
  Limit <- MCNoStop
SYMMETRY Processes2
INVARIANTS ArtifactsMatchClose RefundFollowsClose DuplicatesNeedTroubles AnswersNeedTroubles
PROPERTIES ImplementsRunLife CloserIsLastClaimer
CHECK_DEADLOCK FALSE
