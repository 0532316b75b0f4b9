SPECIFICATION Spec
CONSTANTS
    Req = {r1, r2}
    Ops = {"enable", "disable"}
    MaxOps = 2
    MaxSockets = 2
    Faults = {}
    Reported = {"running"}
SYMMETRY Slots
INVARIANTS TypeOK RowFollowsTunnel
\* the run ends once MaxOps requests have been served
CHECK_DEADLOCK FALSE
