SPECIFICATION Spec
CONSTANTS
    c1 = c1  c2 = c2  c3 = c3  c4 = c4  k1 = k1  k2 = k2  k3 = k3
    Null = Null
    Commands = {c1, c2, c3, c4}
    Keys = {k1, k2, k3}
    KeyOf <- SpillKeys
    QuantityOf <- SpillQuantities
    BucketCount = 2
    MaxProbe = 2
    PrimaryBucket <- SpillHash
    Partitions = {0, 1}
    PublishPartition <- ManualPartition
    RetryPartition <- HashPartition
    OnHand = 2
    InitialLimit = 2
    LimitValues = {}
    ReleasesElsewhere = FALSE
    ResendOnDisconnect = FALSE
    BootstrapMayFail = FALSE
INVARIANTS
    NoOversell
CHECK_DEADLOCK FALSE
