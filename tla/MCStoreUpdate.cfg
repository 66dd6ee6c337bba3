SPECIFICATION Spec
CONSTANTS
    r1 = r1
    r2 = r2
    r3 = r3
    Requests = {r1, r2, r3}
    Creator = Creator
    TTL = 2
    Skew = 1
    MaxVersion = 3
    LastTime = 5
SYMMETRY Symmetry
CHECK_DEADLOCK FALSE
INVARIANTS TypeOK AnswersOwnSave ErrorOnlyIfOvertaken
PROPERTY ImplementsRooms
