SPECIFICATION Spec
CONSTANTS
    MEM_SIZE = 6
    Sizes = {1, 2, 3, 5}
    MaxRequests = 5
    MaxVacated = 2
    Policies = {"bf"}
PROPERTY
    RegionAssigned
