SPECIFICATION Spec
CONSTANTS
    p1 = p1
    p2 = p2
    a = a
    b = b
    Empty = Empty
    Failed = Failed
    Pages = {p1, p2}
    Savers = {p1}
    Passwords = {a, b, Empty}
    Capacity = 1
    MaxRooms = 2
    MaxVersion = 2
SYMMETRY SamePasswords
INVARIANTS LinkAndPasswordShowLatest
