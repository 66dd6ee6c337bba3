SPECIFICATION CodedSpec
CONSTANTS
    CodeLengths <- MCCodeLengths
    Capacity <- MCCapacity
    Base = 2
    Rounds = 3
    HalfBits <- MCHalfBits
    RoundFunctions <- MCRoundFunctions
INVARIANTS
    TypeOK
    Canonical
    CodesNameTheirIds
PROPERTY ImplementsPool
CHECK_DEADLOCK TRUE
