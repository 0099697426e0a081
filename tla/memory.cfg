SPECIFICATION FairSpec
CONSTANTS
    MEM_SIZE = 6
    Sizes = {1, 2, 3, 5}
    MaxRequests = 6
    MaxVacated = 2
    Policies = {"ff", "nf", "bf", "wf", "pages"}
INVARIANTS
    TypeOK
    WholeProcesses
    FramesUnshared
    InBounds
PROPERTIES
    CompactionKeepsContents
    CompactionEnds
    ReservedKept
