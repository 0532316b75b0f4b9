SPECIFICATION Spec
SYMMETRY Symmetric
CONSTANTS
    r1 = r1
    r2 = r2
    d1 = d1
    d2 = d2
    g1 = g1
    g2 = g2
    s1 = s1
    s2 = s2
    Req = {r1, r2}
    Device = {d1, d2}
    Group = {g1, g2}
    Snapshot = {s1, s2}
    Ops = {"membership", "deploy", "deleteGroup", "assign", "unassign"}
    Alone = {"deploy", "assign", "unassign"}
    MaxOps = 6
INVARIANTS TypeOK MembersRunGroupSnapshot MembersOfApplication
CHECK_DEADLOCK FALSE
