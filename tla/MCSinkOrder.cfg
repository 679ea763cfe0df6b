SPECIFICATION Spec
CONSTANTS
    c1 = c1  c2 = c2  c3 = c3  k1 = k1
    Null = Null
    Commands = {c1, c2, c3}
    Keys = {k1}
    KeyOf <- RetriedKeys
    Deliveries <- RetriedDeliveries
    Partitions = {1}
    Members = {1, 2}
    JoinedBefore = FALSE
    MaxAborts = 0
    MaxCrashes = 1
    MaxRejoins = 1
INVARIANTS
    CreatedHasEvent
    OneIntentPerKey
PROPERTIES
    OnlyOvertakenPassedOver
    ImplementsLifecycle
CHECK_DEADLOCK FALSE
