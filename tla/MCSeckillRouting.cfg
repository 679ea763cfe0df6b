SPECIFICATION Spec
CONSTANTS
    s1 = s1  s2 = s2  c1 = c1  c2 = c2  c3 = c3
    Null = Null
    Skus = {s1, s2}
    Commands = {c1, c2, c3}
    ItemsOf <- TwoAloneOneMixed
    Limits = {1}
    TTL = 1
    QueryTime = 1
    MaxTime = 3
    MaxUpdates = 1
    MaxInvalidations = 1
SYMMETRY SameOrders
PROPERTIES
    SettledConfigDecides
    InvalidationHeeded
CHECK_DEADLOCK FALSE
