SPECIFICATION FairBenchmarkSpec
CONSTANTS
    Configs <- Ways
    Requests = 3
    Concurrency = 2
    BatchSize = 2
    ProjectionBatch = 2
    UsedIds = {0, 1}
    MaxKeys = 4
INVARIANTS
    KeysAreFresh
    PassIsEarned
PROPERTIES
    RunEnds
CHECK_DEADLOCK FALSE
