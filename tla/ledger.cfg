CONSTANTS
    p1 = p1
    p2 = p2
    Processes = {p1, p2}
    None = None
    MaxEntries = 4
    MaxRotations = 2
    MaxFaults = 2
SPECIFICATION FairSpec
INVARIANTS ChainSound AnsweredOrReported LossShows
PROPERTIES HistoryKept CallsEnd
CHECK_DEADLOCK FALSE
