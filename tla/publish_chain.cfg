SPECIFICATION FairSpec
CONSTANTS
    Proc = {p1}
    Caller = {c1, c2, c3}
    Home <- OneProcess
    Row = "running"
    Transitions = {"starting", "stopping"}
    Reports = {"running", "crashed", "stopped"}
    MaxRequests = 3
INVARIANTS TypeOK NoStaleState
PROPERTIES NoRepeats ClientsCatchUp
\* the run ends once MaxRequests changes have been made
CHECK_DEADLOCK FALSE
