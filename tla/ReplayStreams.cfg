\* Each stream over subscriptions that fail in every way, across a fork.
SPECIFICATION FairSpec
CONSTANTS
    MaxId = 3
    QueueSize = 1
    Streams = {"zswap", "dust", "unshielded"}
    ForkAt = 3
    MaxRetries = 1
    BatchSize = 2
    CheckpointEvery = 2
INVARIANTS
    EventsOnceInOrder
    CaughtUp
    StallHasLiveSocket
PROPERTIES
    ReplayReturns
CHECK_DEADLOCK FALSE
