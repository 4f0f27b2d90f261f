SPECIFICATION FairSpec
CONSTANTS
    MaxChunks = 4
    QueueMax = 2
    DrainBatch = 2
INVARIANTS
    InOrder
    NoLostWakeup
PROPERTIES
    EndReachesConsumer
    AbandonedIsReleased
