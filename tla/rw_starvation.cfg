SPECIFICATION StronglyFairSpec
CONSTANTS
    WRITE_ACTIONS = 1
    Writers = {w1}
    Readers = {r1, r2}
    Nobody = Nobody
PROPERTY WritersFinish
