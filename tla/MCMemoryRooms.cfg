SPECIFICATION Spec
CONSTANTS
    t1 = t1
    t2 = t2
    t3 = t3
    Codes = {0, 1}
    Tasks = {t1, t2, t3}
    TTL = 2
    MaxVersion = 2
    LastTime = 2
SYMMETRY SameTasks
INVARIANTS TypeOK CodesConserved OneSavePerVersion
PROPERTIES OnlyExpiredGo VersionsGrow ImplementsRooms
