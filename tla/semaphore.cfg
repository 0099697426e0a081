SPECIFICATION FairSpec
CONSTANTS
    BUFFER_SIZE = 2
    PRODUCTION_LIMIT = 3
    CONSUMPTION_LIMIT = 2
    Producers = {p1, p2}
    Consumers = {c1, c2}
INVARIANTS
    TypeOK
    SemaphoreAccounting
    Leftover
PROPERTIES
    ImplementsFifo
    Termination
