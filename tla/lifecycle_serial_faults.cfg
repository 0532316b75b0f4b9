SPECIFICATION Spec
CONSTANTS
    Req = {r1}
    Ops = {"start", "stop", "restart", "suspend", "rollback", "restartStack", "update", "updateStack", "export", "delete", "deploy", "import", "customHostname", "ha", "upgradeStack", "scheduledRestart", "licenseSuspend", "billingDeleted", "updateState"}
    Faults = {"license", "billing", "stripe", "launch", "driver", "import"}
    InitRow = "suspended"
    MaxOps = 4
INVARIANT ClientsSeeTheInstance
PROPERTY NoFreeLaunch
\* the run ends once MaxOps operations have been served
CHECK_DEADLOCK FALSE
