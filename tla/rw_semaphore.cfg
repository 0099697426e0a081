SPECIFICATION FairSpec
CONSTANTS
    WRITE_ACTIONS = 2
    Writers = {w1, w2}
    Readers = {r1, r2}
    Nobody = Nobody
INVARIANTS
    TypeOK
    Exclusion
    Accounting
    FlagWhileWriting
PROPERTIES
    ImplementsRegister
    ReadersStop
