SPECIFICATION FairSpec
CONSTANTS
    MAX = 12
    NUM_CHILDREN = 3
    Processes <- AllProcesses
INVARIANTS
    TypeOK
    FactorialIfItFits
    OutputComplete
PROPERTY AllEnd
