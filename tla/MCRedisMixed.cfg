CONSTANTS
    CodeLengths <- OneTier
    Capacity <- OneTierCapacity
    TTL = 1
    Skew = 1
    IndexModes = {TRUE, FALSE}
    BatchLimit = 2
    MaxVersion = 2
    LastTime = 3
SPECIFICATION Spec
INVARIANTS
    Canonical
    NoLiveFree
