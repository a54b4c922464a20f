SPECIFICATION FairSpec
CONSTANTS
  Sessions = {s1}
  None = None
  MaxAttempts = 3
  Slots = 1
  MaxTroubles = 1
INVARIANTS OneRunPerSession StrandedOnlyByEarlyCancel CancelIsHonoured RunningIsLive
PROPERTIES CancelFreesSession ClaimsEnd
CHECK_DEADLOCK FALSE
