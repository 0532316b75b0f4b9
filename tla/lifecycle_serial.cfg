SPECIFICATION Spec
CONSTANTS
    Req = {r1}
    Ops = {"start", "stop", "restart", "suspend", "rollback", "restartStack", "update", "updateStack", "delete", "deploy", "import", "ha", "upgradeStack", "scheduledRestart", "updateState", "export", "liveState"}
    Faults = {"launch"}
    InitRow = "running"
    MaxOps = 5
INVARIANT TypeOK
INVARIANT ContainerMatchesRow
INVARIANT BillingMatchesRow
INVARIANT TransitionsEnd
\* the run ends once MaxOps operations have been served
CHECK_DEADLOCK FALSE
