SPECIFICATION Spec
CONSTANTS
    Req = {r1, r2}
    Ops = {"start", "stop", "restart", "suspend", "rollback", "restartStack", "update", "updateStack", "delete", "deploy", "import", "ha", "upgradeStack", "scheduledRestart", "updateState"}
    Faults = {"license", "billing", "stripe", "stripeUpdate", "launch", "driver", "import"}
    InitRow = "running"
    MaxOps = 3
SYMMETRY Slots
INVARIANT NoStrandedTransition
\* the run ends once MaxOps operations have been served
CHECK_DEADLOCK FALSE
