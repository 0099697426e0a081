SPECIFICATION FairSpec
CONSTANTS
    WRITE_ACTIONS = 2
    Writers = {w1, w2}
    Readers = {r1}
    Nobody = Nobody
INVARIANTS
    TypeOK
    WriterOwnership
    BufferSettles
    FlagSettles
PROPERTY Termination
