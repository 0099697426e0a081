SPECIFICATION Spec
CONSTANTS
    MEM_SIZE = 6
    Sizes = {2, 3, 5}
    MaxRequests = 5
    MaxVacated = 2
    Policies = {"pages"}
INVARIANT
    PagedWhole
