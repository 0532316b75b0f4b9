SPECIFICATION Spec
CONSTANTS
    Proc = {p1, p2}
    Caller = {c1, c2}
    Home <- AProcessEach
    Row = "running"
    Transitions = {"starting", "stopping"}
    Reports = {"running", "crashed", "stopped"}
    MaxRequests = 4
INVARIANT NoStaleState
\* the run ends once MaxRequests changes have been made
CHECK_DEADLOCK FALSE
