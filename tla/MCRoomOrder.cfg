SPECIFICATION Spec
CONSTANTS
    c1 = c1
    c2 = c2
    s1 = s1
    s2 = s2
    None = None
    Clients = {c1, c2}
    Writers = {c1}
    Slots = {s1, s2}
    Capacity = 1
    MaxVersion = 3
PROPERTY EventsNeverGoBack
