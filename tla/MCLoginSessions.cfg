SPECIFICATION Spec
CONSTANTS
    l1 = l1
    l2 = l2
    r1 = r1
    r2 = r2
    r3 = r3
    s1 = s1
    s2 = s2
    Servers = {s1, s2}
    MaxSetups = 3
    Logins = {l1, l2}
    Requests = {r1, r2, r3}
    LOGIN_TTL = 1
    LastTime = 2
SYMMETRY Symmetry
CHECK_DEADLOCK FALSE
INVARIANTS NoReuseAfterSuccess OneSessionPerLogin LoginsAnywhere
