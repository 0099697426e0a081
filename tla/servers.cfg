SPECIFICATION FairSpec
CONSTANTS
    Clients = {c1, c2}
    Backlog = 1
    MaxLines = 2
CHECK_DEADLOCK FALSE
INVARIANTS
    TypeOK
    EndsForCause
PROPERTIES
    ImplementsEcho
    KillserverHolds
    Answered
    Served
