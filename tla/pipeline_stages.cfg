SPECIFICATION Spec
SYMMETRY Symmetric
CONSTANTS
    r1 = r1
    r2 = r2
    i1 = i1
    i2 = i2
    Req = {r1, r2}
    Instance = {i1, i2}
    MaxStages = 3
INVARIANTS TypeOK LinksGoForward OneList GroupsComeLast HeldOnce
CHECK_DEADLOCK FALSE
