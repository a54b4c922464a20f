SPECIFICATION FairSpec
CONSTANTS
    a = a
    b = b
    c = c
    Tasks = {a, b, c}
    Deps <- Join
    Changes <- FirstMayChange
    Readers = {ui}
    Nobody = Nobody
    MaxRuns = 2
    MaxFresh = 1
    MaxTroubles = 1
INVARIANTS ResultsKept ResultsAgree CompletedHasAll
PROPERTIES RunsEnd
CHECK_DEADLOCK FALSE
