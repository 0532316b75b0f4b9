---------------------------- MODULE DeviceGroups ----------------------------
(***************************************************************************)
(* The groups of an application's devices: membership and the snapshot of  *)
(* a group (ee/db/controllers/DeviceGroup.js,                              *)
(* ee/routes/applicationDeviceGroups), deployment of a pipeline stage to a *)
(* group (ee/db/controllers/Pipeline.js), and the requests that take a     *)
(* device out of the application (routes/api/device.js).                   *)
(*                                                                         *)
(* A request handler holds the group or the device that its preHandler     *)
(* loaded; other handlers run wherever it awaits.  A transaction is one    *)
(* step, for nobody sees its updates before they are committed; what it    *)
(* was decided on is read before.  The targets that devices are given one  *)
(* by one and the update commands belong to DeviceSync.                    *)
(***************************************************************************)
EXTENDS Naturals, FiniteSets

CONSTANTS
    Req,            \* slots for request handlers
    Device,
    Group,          \* the device groups of the application
    Snapshot,
    Ops,            \* the operations the handlers may run: a subset of AllOps
    Alone,          \* those of them that run with no other at work
    MaxOps          \* requests per behaviour

AllOps == {"membership", "deploy", "deleteGroup", "assign", "unassign"}
Home == "home"      \* the application of the groups
Away == "away"      \* another application of the team
None == "none"

ASSUME BoundsAssumption == MaxOps \in Nat
ASSUME OpsAssumption == Ops \subseteq AllOps /\ Alone \subseteq Ops
ASSUME NoneAssumption == None \notin Snapshot \cup Group

VARIABLES
    application, group, target,     \* each device: ApplicationId, DeviceGroupId, targetSnapshotId
    groups,         \* the groups there are
    groupTarget,    \* targetSnapshotId of each
    req,            \* each handler: its step, its operation and what it has loaded
    served          \* requests so far

devices == <<application, group, target>>
vars == <<devices, groups, groupTarget, req, served>>

Idle == [step |-> "idle", op |-> "deploy", group |-> None, loaded |-> None, add |-> {},
         remove |-> {}, device |-> None, owner |-> None]

TypeOK ==
    /\ application \in [Device -> {Home, Away, None}]
    /\ group \in [Device -> Group \cup {None}]
    /\ target \in [Device -> Snapshot \cup {None}]
    /\ groups \subseteq Group
    /\ groupTarget \in [Group -> Snapshot \cup {None}]
    /\ \A r \in Req : /\ req[r].add \subseteq Device /\ req[r].remove \subseteq Device
                      /\ req[r].loaded \in Snapshot \cup Group \cup {None}
    /\ served \in 0..MaxOps

Init ==
    /\ application = [d \in Device |-> Home]
    /\ group = [d \in Device |-> None]
    /\ target = [d \in Device |-> None]
    /\ groups = Group
    /\ groupTarget = [g \in Group |-> None]
    /\ req = [r \in Req |-> Idle]
    /\ served = 0

Members(g) == {d \in Device : group[d] = g}

-----------------------------------------------------------------------------

Resting(r) == req[r].step = "idle"
At(r, op, step) == req[r].op = op /\ req[r].step = step

Begin(r, new) ==
    /\ Resting(r) /\ served < MaxOps
    /\ \A q \in Req : Resting(q) \/ (req[q].op \notin Alone /\ new.op \notin Alone)
    /\ served' = served + 1
    /\ req' = [req EXCEPT ![r] = new]
    /\ UNCHANGED <<devices, groups, groupTarget>>

Continue(r, next) == req' = [req EXCEPT ![r] = next] /\ UNCHANGED served
Goto(r, step) == Continue(r, [req[r] EXCEPT !.step = step])
Finish(r) == Continue(r, Idle)

\* PATCH of a group's members: the preHandler loads the group, its target included.
LoadGroup(r) ==
    \E g \in groups, add, remove \in SUBSET Device :
        /\ "membership" \in Ops
        /\ Begin(r, [Idle EXCEPT !.step = "members", !.op = "membership", !.group = g,
                            !.loaded = groupTarget[g], !.add = add, !.remove = remove])

\* updateDeviceGroupMembership: the lists are those that change something.
ReadMembers(r) ==
    /\ At(r, "membership", "members")
    /\ Continue(r, [req[r] EXCEPT !.step = "validate",
                        !.add = @ \ Members(req[r].group),
                        !.remove = @ \cap Members(req[r].group)])
    /\ UNCHANGED <<devices, groups, groupTarget>>

AnyoneAdded(r) == TRUE     \* mutant: the application of a device is not looked at

\* validateDeviceList: a device to add is of the group's application; it may be in another group.
AddedAreOfApplication(r) == \A d \in req[r].add : application[d] = Home

RemovedAreMembers(r) ==
    \A d \in req[r].remove : group[d] = req[r].group /\ application[d] = Home

ValidateDeviceList(r) ==
    /\ At(r, "membership", "validate")
    /\ IF AddedAreOfApplication(r) /\ RemovedAreMembers(r) THEN Goto(r, "commit") ELSE Finish(r)
    /\ UNCHANGED <<devices, groups, groupTarget>>

\* The updates of removeDevicesFromGroup are for devices that are still members.
StillMembers(r) == req[r].remove \cap Members(req[r].group)

ClearedAnywhere(r) == {d \in req[r].remove : target[d] = req[r].loaded}     \* mutant: of any group

\* A removed device loses the target that was the group's when the group was loaded.
Cleared(r) == {d \in StillMembers(r) : target[d] = req[r].loaded}

AppliedGroup(r) == req[r].group     \* mutant: arguments in the wrong order

AppliedTarget(r) == req[r].loaded

\* assignDevicesToGroup and removeDevicesFromGroup: a group without a target leaves the devices
\* their own; a group that has gone fails the transaction.
CommitMembership(r) ==
    LET q == req[r] IN
    /\ At(r, "membership", "commit")
    /\ IF q.add # {} /\ q.group \notin groups
       THEN UNCHANGED <<group, target>>
       ELSE /\ group' = [d \in Device |-> IF d \in q.add THEN q.group
                                          ELSE IF d \in StillMembers(r) THEN None ELSE group[d]]
            /\ target' = [d \in Device |-> IF d \in q.add /\ q.loaded # None THEN AppliedTarget(r)
                                           ELSE IF d \in Cleared(r) THEN None ELSE target[d]]
    /\ Finish(r)
    /\ UNCHANGED <<application, groups, groupTarget>>

\* A pipeline deploys to a group, or PUT of a group sets or clears its target: the members are
\* read before the transaction.
ReadDeployMembers(r) ==
    \E g \in groups, s \in Snapshot \cup {None} :
        /\ "deploy" \in Ops
        /\ Begin(r, [Idle EXCEPT !.step = "commit", !.op = "deploy", !.group = g, !.loaded = s,
                            !.add = Members(g)])

CommitDeploy(r) ==
    /\ At(r, "deploy", "commit")
    /\ groupTarget' = [groupTarget EXCEPT ![req[r].group] = req[r].loaded]
    /\ target' = [d \in Device |-> IF d \in req[r].add THEN req[r].loaded ELSE target[d]]
    /\ Finish(r)
    /\ UNCHANGED <<application, group, groups>>

\* The rows of the members lose their reference to the group; their targets stay.
DeleteGroup(r) ==
    \E g \in groups :
        /\ "deleteGroup" \in Ops
        /\ Resting(r) /\ served < MaxOps /\ served' = served + 1
        /\ \A q \in Req : Resting(q) \/ req[q].op \notin Alone
        /\ groups' = groups \ {g}
        /\ group' = [d \in Device |-> IF group[d] = g THEN None ELSE group[d]]
        /\ UNCHANGED <<application, target, groupTarget, req>>

\* PUT of a device: the preHandler's copy has the group it was in.
LoadDevice(r) ==
    \E d \in Device, owner \in {Home, Away, None} :
        LET op == IF owner = None THEN "unassign" ELSE "assign" IN
        /\ op \in Ops /\ application[d] # owner
        /\ Begin(r, [Idle EXCEPT !.step = "owner", !.op = op, !.device = d, !.owner = owner,
                            !.loaded = group[d]])

DeviceRequest(r) == req[r].op \in {"assign", "unassign"}

\* setApplication: the application is saved on its own.
SetApplication(r) ==
    /\ DeviceRequest(r) /\ req[r].step = "owner"
    /\ application' = [application EXCEPT ![req[r].device] = req[r].owner]
    /\ Goto(r, IF req[r].op = "unassign" THEN "target" ELSE "group")
    /\ UNCHANGED <<group, target, groups, groupTarget>>

ClearTarget(r) ==
    /\ req[r].step = "target"
    /\ target' = [target EXCEPT ![req[r].device] = None]
    /\ Goto(r, "group")
    /\ UNCHANGED <<application, group, groups, groupTarget>>

\* device.save() writes a null group only over a group that was loaded.
ClearedGroup(r) == IF req[r].loaded = None THEN group ELSE [group EXCEPT ![req[r].device] = None]

ClearGroup(r) ==
    /\ DeviceRequest(r) /\ req[r].step = "group"
    /\ group' = ClearedGroup(r)
    /\ Finish(r)
    /\ UNCHANGED <<application, target, groups, groupTarget>>

Next ==
    \E r \in Req :
        \/ LoadGroup(r) \/ ReadMembers(r) \/ ValidateDeviceList(r) \/ CommitMembership(r)
        \/ ReadDeployMembers(r) \/ CommitDeploy(r) \/ DeleteGroup(r)
        \/ LoadDevice(r) \/ SetApplication(r) \/ ClearTarget(r) \/ ClearGroup(r)

Spec == Init /\ [][Next]_vars

-----------------------------------------------------------------------------
(* Properties *)

Settled == \A r \in Req : Resting(r)

\* Once the requests have ended, the members of a group that has a snapshot are to run that
\* snapshot, whichever requests moved them between groups at the same time.
MembersRunGroupSnapshot ==
    Settled => \A d \in Device :
        group[d] # None /\ groupTarget[group[d]] # None => target[d] = groupTarget[group[d]]

\* Once the requests have ended, a device is in a group of its own application or in none.
MembersOfApplication == Settled => \A d \in Device : group[d] # None => application[d] = Home
=============================================================================
