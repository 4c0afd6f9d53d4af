CONSTANTS
    kMaxQueueDepth = 2
    OutputMayFail = TRUE
    MaxPayloads = 6
SPECIFICATION FairSpec
INVARIANTS
    TypeOK
    QueueBounded
PROPERTIES
    StopReturns
    PayloadsConsumed
