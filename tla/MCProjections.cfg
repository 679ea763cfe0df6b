SPECIFICATION FairProjectionSpec
CONSTANTS
    a = a  b = b  s1 = s1  s2 = s2
    Checkouts = {a, b}
    Skus = {s1, s2}
    OnHand <- OneEach
    History <- Sale
    Processors = 2
    BatchSize = 2
    MaxInFlight = 2
    MaxFailures = 1
INVARIANTS
    AvailableIsReplay
    StatusIsOutcome
    StopsOnlyAfterLateEvent
PROPERTIES
    CatchesUp
CHECK_DEADLOCK FALSE
