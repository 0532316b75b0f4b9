SPECIFICATION FairSpec
CONSTANTS
    Req = {r1, r2}
    Ops = {"start", "stop", "restart", "suspend", "rollback", "restartStack", "update", "updateStack", "delete", "deploy", "import", "ha", "upgradeStack", "scheduledRestart", "updateState"}
    Faults = {}
    InitRow = "running"
    MaxOps = 2
PROPERTY TransitionsClear
\* the run ends once MaxOps operations have been served
CHECK_DEADLOCK FALSE
