SPECIFICATION FairSpec
CONSTANTS
    r1 = r1
    s1 = s1
    s2 = s2
    Req = {r1}
    Ops = {"assignInstance", "assignApplication", "unassign", "target", "instanceTarget", "settings", "delete"}
    MaxOps = 2
    MaxMessages = 1
    InstanceSnapshots = {s1}
    OtherSnapshots = {s2}
    Reassigns = FALSE
    Agents = {TRUE, FALSE}
INVARIANT HashCoversSettings
PROPERTY Converges
