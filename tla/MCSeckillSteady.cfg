SPECIFICATION FairSpec
CONSTANTS
    c1 = c1  c2 = c2  c3 = c3  c4 = c4  k1 = k1  k2 = k2  k3 = k3
    Null = Null
    Commands = {c1, c2, c3}
    Keys = {k1, k2}
    KeyOf <- RetriedKeys
    QuantityOf <- RetriedQuantities
    BucketCount = 2
    MaxProbe = 2
    PrimaryBucket <- RetriedHash
    Partitions = {0, 1}
    PublishPartition <- HashPartition
    RetryPartition <- HashPartition
    OnHand = 3
    InitialLimit = 3
    LimitValues = {}
    ReleasesElsewhere = FALSE
    ResendOnDisconnect = TRUE
    BootstrapMayFail = FALSE
INVARIANTS
    TypeOK
    OneTaskPerBucket
    RejectedOnlyWhenNoBucketFits
PROPERTIES
    ImplementsSale
    EveryAckedCommandIsAnswered
CHECK_DEADLOCK FALSE
