SPECIFICATION FairSpec
CONSTANTS
  w1 = w1
  w2 = w2
  Runs = {1}
  Workers = {w1, w2}
  Ids = {w1, w2}
  NoId = NoId
  NoRun = NoRun
  IdOf <- MCDistinct
  Limit <- MCEach
PROPERTIES RunsClose
CHECK_DEADLOCK FALSE
