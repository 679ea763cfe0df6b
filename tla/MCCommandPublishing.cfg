SPECIFICATION FairSpec
CONSTANTS
    r1 = r1  r2 = r2  r3 = r3  d1 = d1  d2 = d2
    Commands = {r1, r2, r3, d1, d2}
    SeckillCommands = {r1, r2, r3}
    BatchSize = 2
    MaxFailures = 2
INVARIANTS
    NothingStranded
    AcceptedIsPublished
PROPERTIES
    AnsweredOnce
    SentAtMostTwice
    RejectedForAReason
    EveryCallAnswered
CHECK_DEADLOCK FALSE
