SPECIFICATION FairSpec
CONSTANTS
    c1 = c1  c2 = c2  c3 = c3  k1 = k1
    Null = Null
    Commands = {c1, c2}
    Keys = {k1}
    KeyOf <- PairKeys
    Deliveries <- PairDeliveries
    Partitions = {1, 2}
    Members = {1}
    JoinedBefore = TRUE
    MaxAborts = 1
    MaxCrashes = 1
    MaxRejoins = 1
PROPERTIES
    EveryOutcomePersisted
CHECK_DEADLOCK FALSE
