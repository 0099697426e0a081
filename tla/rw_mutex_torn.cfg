SPECIFICATION Spec
CONSTANTS
    WRITE_ACTIONS = 1
    Writers = {w1, w2}
    Readers = {r1}
    Nobody = Nobody
INVARIANT NoMisread
