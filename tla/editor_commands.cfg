SPECIFICATION FairSpec
CONSTANTS
    Req = {r1, r2}
    Ops = {"enable", "disable", "restart", "upload"}
    MaxOps = 2
    MaxSockets = 0
    Faults = {"repeatReply", "deviceRefuses"}
    Reported = {"running", "crashed"}
INVARIANT NoStuckRestart
PROPERTIES KeepsPromise RequestsEnd
\* the run ends once MaxOps requests have been served
CHECK_DEADLOCK FALSE
