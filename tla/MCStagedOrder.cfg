SPECIFICATION FairSpec
CONSTANTS
    c1 = c1  c2 = c2  k1 = k1  w1 = w1  w2 = w2
    Null = Null
    Commands = {c1, c2}
    Keys = {k1}
    KeyOf <- RetriedKeys
    Workers = {w1, w2}
    FetchSize = 2
    BatchSize = 2
    MaxFaults = 1
    MaxCrashes = 1
INVARIANTS
    OneEventPerCommand
    SettledRowIsAnswered
PROPERTIES
    ImplementsLifecycle
    PublishedIsAnswered
CHECK_DEADLOCK FALSE
