SPECIFICATION FairSpec
CONSTANTS
    BUFFER_SIZE = 2
    PRODUCTION_LIMIT = 2
    CONSUMPTION_LIMIT = 2
    Producers = {p1, p2}
    Consumers = {c1, c2}
    MaxSpurious = 1
INVARIANTS
    TypeOK
    MutexOwnership
    TestHolds
    CountMatchesBuffer
    NoLostWakeup
PROPERTIES
    ImplementsFifo
    Termination
