------------------------- MODULE DeviceGroupsProofs -------------------------
(***************************************************************************)
(* What holds of the device groups for any number of devices, groups,      *)
(* snapshots, handler slots and requests.                                  *)
(*                                                                         *)
(* What the handlers leave behind depends on which of them overlap, so the *)
(* two safety theorems name in a hypothesis the operations that run with   *)
(* no other at work (the constant Alone): deploying to a group and taking  *)
(* a device out of the application for the first, moving a device to or    *)
(* from the application for the second.                                    *)
(***************************************************************************)
EXTENDS DeviceGroups, TLAPS

Steps == {"idle", "members", "validate", "commit", "owner", "target", "group"}

Handler == [step : Steps, op : AllOps, group : Group \cup {None},
            loaded : Snapshot \cup Group \cup {None}, add : SUBSET Device, remove : SUBSET Device,
            device : Device \cup {None}, owner : {Home, Away, None}]

\* A handler is at a step of its own operation, with what that operation loads.
WellFormed(h) ==
    /\ h \in Handler
    /\ h.op \in {"membership", "deploy"} /\ h.step # "idle" =>
           /\ h.step \in {"members", "validate", "commit"}
           /\ h.group \in Group /\ h.loaded \in Snapshot \cup {None}
    /\ h.op \in {"assign", "unassign"} /\ h.step # "idle" =>
           /\ h.step \in {"owner", "target", "group"}
           /\ h.device \in Device /\ h.loaded \in Group \cup {None}
    /\ h.step = "target" => h.op = "unassign"
    /\ h.op = "deploy" /\ h.step # "idle" => h.step = "commit"
    /\ h.op = "deleteGroup" => h.step = "idle"
    /\ h.op = "unassign" /\ h.step # "idle" => h.owner = None
    /\ h.step # "idle" => h.op \in Ops

RowTypes ==
    /\ application \in [Device -> {Home, Away, None}]
    /\ group \in [Device -> Group \cup {None}]
    /\ target \in [Device -> Snapshot \cup {None}]
    /\ groups \subseteq Group
    /\ groupTarget \in [Group -> Snapshot \cup {None}]
    /\ served \in 0..MaxOps

HandlerTypes == req \in [Req -> Handler] /\ \A r \in Req : WellFormed(req[r])

\* An operation of Alone has the process to itself.
Exclusive == \A r, q \in Req : ~Resting(r) /\ ~Resting(q) /\ r # q => req[r].op \notin Alone

TypeInv == RowTypes /\ HandlerTypes /\ Exclusive

-----------------------------------------------------------------------------
(* Types *)

LEMMA IdleWellFormed == WellFormed(Idle) /\ Idle \in Handler /\ Idle.step = "idle"
BY DEF WellFormed, Handler, Idle, Steps, AllOps, Home, Away, None

LEMMA SlotBegins ==
    ASSUME TypeInv, NEW r \in Req, NEW new, WellFormed(new), Begin(r, new)
    PROVE  TypeInv'
<1>1. new \in Handler /\ req \in [Req -> Handler]
    BY DEF TypeInv, HandlerTypes, WellFormed
<1>2. req' = [req EXCEPT ![r] = new] /\ req' \in [Req -> Handler]
    BY <1>1 DEF Begin
<1>3. RowTypes'
    BY BoundsAssumption DEF TypeInv, RowTypes, Begin, devices
<1>4. HandlerTypes'
    BY <1>1, <1>2 DEF TypeInv, HandlerTypes, Begin, devices, WellFormed
<1>5. Exclusive'
    <2> SUFFICES ASSUME NEW p \in Req, NEW q \in Req, ~Resting(p)', ~Resting(q)', p # q
                 PROVE  req'[p].op \notin Alone
        BY DEF Exclusive
    <2>1. CASE p # r /\ q # r
        BY <2>1, <1>1, <1>2 DEF TypeInv, Exclusive, Resting
    <2>2. CASE p = r
        BY <2>2, <1>1, <1>2 DEF Begin, Resting
    <2>3. CASE q = r
        BY <2>3, <1>1, <1>2 DEF Begin, Resting
    <2> QED BY <2>1, <2>2, <2>3
<1> QED BY <1>3, <1>4, <1>5 DEF TypeInv

LEMMA SlotContinues ==
    ASSUME TypeInv, NEW r \in Req, ~Resting(r), NEW next, WellFormed(next), Continue(r, next),
           next.step = "idle" \/ next.op = req[r].op
    PROVE  /\ HandlerTypes' /\ Exclusive' /\ served' \in 0..MaxOps
           /\ req' = [req EXCEPT ![r] = next]
           /\ req'[r] = next /\ \A q \in Req \ {r} : req'[q] = req[q]
<1>1. next \in Handler /\ req \in [Req -> Handler] /\ req' = [req EXCEPT ![r] = next]
    BY DEF TypeInv, HandlerTypes, WellFormed, Continue
<1>2. /\ req' \in [Req -> Handler]
      /\ req'[r] = next /\ \A q \in Req \ {r} : req'[q] = req[q]
    BY <1>1
<1>3. HandlerTypes'
    <2> SUFFICES ASSUME NEW q \in Req PROVE WellFormed(req'[q])
        BY <1>2 DEF HandlerTypes, WellFormed
    <2> QED BY <1>2 DEF TypeInv, HandlerTypes
<1>4. Exclusive'
    BY <1>1, <1>2 DEF TypeInv, Exclusive, Resting
<1>5. served' \in 0..MaxOps
    BY DEF TypeInv, RowTypes, Continue
<1> QED BY <1>1, <1>2, <1>3, <1>4, <1>5

\* Goto and Finish leave a handler well formed.
LEMMA SlotMoves ==
    ASSUME TypeInv, NEW r \in Req, ~Resting(r),
           \/ Finish(r)
           \/ \E step \in Steps : Goto(r, step) /\ WellFormed([req[r] EXCEPT !.step = step])
    PROVE  HandlerTypes' /\ Exclusive' /\ served' \in 0..MaxOps
<1>1. CASE Finish(r)
    BY <1>1, IdleWellFormed, SlotContinues DEF Finish
<1>2. ASSUME NEW step \in Steps, Goto(r, step), WellFormed([req[r] EXCEPT !.step = step])
      PROVE  HandlerTypes' /\ Exclusive' /\ served' \in 0..MaxOps
    <2> DEFINE next == [req[r] EXCEPT !.step = step]
    <2>1. WellFormed(next) /\ Continue(r, next)
        BY <1>2 DEF Goto
    <2>2. next.op = req[r].op
        BY DEF TypeInv, HandlerTypes, Handler
    <2> HIDE DEF next
    <2> QED BY <2>1, <2>2, SlotContinues
<1> QED BY <1>1, <1>2

LEMMA HandlerRecord ==
    ASSUME TypeInv, NEW r \in Req
    PROVE  WellFormed(req[r]) /\ req[r] \in Handler
BY DEF TypeInv, HandlerTypes

LEMMA InitTypes == Init => TypeInv
<1> SUFFICES ASSUME Init PROVE TypeInv
    OBVIOUS
<1>1. RowTypes
    BY BoundsAssumption DEF Init, RowTypes, Home, Away, None
<1>2. HandlerTypes
    BY IdleWellFormed DEF Init, HandlerTypes
<1>3. Exclusive
    BY IdleWellFormed DEF Init, Exclusive, Resting
<1> QED BY <1>1, <1>2, <1>3 DEF TypeInv

LEMMA MembershipTypes ==
    ASSUME TypeInv, NEW r \in Req,
           LoadGroup(r) \/ ReadMembers(r) \/ ValidateDeviceList(r) \/ CommitMembership(r)
    PROVE  TypeInv'
<1>h. WellFormed(req[r]) /\ req[r] \in Handler
    BY HandlerRecord
<1>1. CASE LoadGroup(r)
    <2> PICK g \in groups, add \in SUBSET Device, remove \in SUBSET Device :
            /\ "membership" \in Ops
            /\ Begin(r, [Idle EXCEPT !.step = "members", !.op = "membership", !.group = g,
                            !.loaded = groupTarget[g], !.add = add, !.remove = remove])
        BY <1>1 DEF LoadGroup
    <2> DEFINE new == [Idle EXCEPT !.step = "members", !.op = "membership", !.group = g,
                            !.loaded = groupTarget[g], !.add = add, !.remove = remove]
    <2>1. g \in Group /\ groupTarget[g] \in Snapshot \cup {None}
        BY DEF TypeInv, RowTypes
    <2>2. new \in Handler
        BY <2>1 DEF Handler, Idle, Steps, AllOps, Home, Away, None
    <2>3. WellFormed(new)
        BY <2>1, <2>2 DEF WellFormed, Idle
    <2> QED BY <2>3, SlotBegins
<1>2. CASE ReadMembers(r)
    <2> DEFINE next == [req[r] EXCEPT !.step = "validate", !.add = @ \ Members(req[r].group),
                                      !.remove = @ \cap Members(req[r].group)]
    <2>1. next \in Handler /\ next.op = req[r].op /\ next.step = "validate"
          /\ next.group = req[r].group /\ next.loaded = req[r].loaded
        BY <1>h DEF Handler, Steps, Members
    <2>2. Continue(r, next) /\ ~Resting(r) /\ req[r].op = "membership"
        BY <1>2, <1>h DEF ReadMembers, At, Resting, Handler
    <2> HIDE DEF next
    <2>3. WellFormed(next)
        BY <2>1, <2>2, <1>h DEF WellFormed, Resting
    <2>4. HandlerTypes' /\ Exclusive' /\ served' \in 0..MaxOps
        BY <2>1, <2>2, <2>3, SlotContinues
    <2> QED BY <1>2, <2>4 DEF ReadMembers, devices, TypeInv, RowTypes
<1>3. CASE ValidateDeviceList(r)
    <2>1. ~Resting(r)
        BY <1>3 DEF ValidateDeviceList, At, Resting
    <2>2. WellFormed([req[r] EXCEPT !.step = "commit"])
        BY <1>h, <1>3 DEF WellFormed, ValidateDeviceList, At, Handler, Steps
    <2>3. Finish(r) \/ Goto(r, "commit")
        BY <1>3 DEF ValidateDeviceList
    <2>4. HandlerTypes' /\ Exclusive' /\ served' \in 0..MaxOps
        BY <2>1, <2>2, <2>3, SlotMoves DEF Steps
    <2> QED BY <1>3, <2>4 DEF ValidateDeviceList, devices, TypeInv, RowTypes
<1>4. CASE CommitMembership(r)
    <2>1. HandlerTypes' /\ Exclusive' /\ served' \in 0..MaxOps
        BY <1>4, SlotMoves DEF CommitMembership, At, Resting
    <2>2. req[r].group \in Group /\ req[r].loaded \in Snapshot \cup {None}
        BY <1>h, <1>4 DEF CommitMembership, At, WellFormed
    <2>3. RowTypes'
        BY <1>4, <2>1, <2>2 DEF CommitMembership, TypeInv, RowTypes, AppliedTarget
    <2> QED BY <2>1, <2>3 DEF TypeInv
<1> QED BY <1>1, <1>2, <1>3, <1>4

LEMMA GroupTypes ==
    ASSUME TypeInv, NEW r \in Req, ReadDeployMembers(r) \/ CommitDeploy(r) \/ DeleteGroup(r)
    PROVE  TypeInv'
<1>h. WellFormed(req[r]) /\ req[r] \in Handler
    BY HandlerRecord
<1>1. CASE ReadDeployMembers(r)
    <2> PICK g \in groups, s \in Snapshot \cup {None} :
            /\ "deploy" \in Ops
            /\ Begin(r, [Idle EXCEPT !.step = "commit", !.op = "deploy", !.group = g,
                            !.loaded = s, !.add = Members(g)])
        BY <1>1 DEF ReadDeployMembers
    <2> DEFINE new == [Idle EXCEPT !.step = "commit", !.op = "deploy", !.group = g,
                            !.loaded = s, !.add = Members(g)]
    <2>1. g \in Group
        BY DEF TypeInv, RowTypes
    <2>2. new \in Handler
        BY <2>1 DEF Handler, Idle, Steps, AllOps, Home, Away, None, Members
    <2>3. WellFormed(new)
        BY <2>1, <2>2 DEF WellFormed, Idle
    <2> QED BY <2>3, SlotBegins
<1>2. CASE CommitDeploy(r)
    <2>1. HandlerTypes' /\ Exclusive' /\ served' \in 0..MaxOps
        BY <1>2, SlotMoves DEF CommitDeploy, At, Resting
    <2>2. req[r].group \in Group /\ req[r].loaded \in Snapshot \cup {None}
        BY <1>h, <1>2 DEF CommitDeploy, At, WellFormed
    <2>3. RowTypes'
        BY <1>2, <2>1, <2>2 DEF CommitDeploy, TypeInv, RowTypes
    <2> QED BY <2>1, <2>3 DEF TypeInv
<1>3. CASE DeleteGroup(r)
    <2>1. RowTypes' /\ UNCHANGED req
        BY <1>3, BoundsAssumption DEF DeleteGroup, TypeInv, RowTypes
    <2> QED BY <2>1 DEF TypeInv, HandlerTypes, Exclusive, Resting, WellFormed
<1> QED BY <1>1, <1>2, <1>3

LEMMA DeviceTypes ==
    ASSUME TypeInv, NEW r \in Req,
           LoadDevice(r) \/ SetApplication(r) \/ ClearTarget(r) \/ ClearGroup(r)
    PROVE  TypeInv'
<1>h. WellFormed(req[r]) /\ req[r] \in Handler
    BY HandlerRecord
<1>1. CASE LoadDevice(r)
    <2> PICK d \in Device, owner \in {Home, Away, None} :
            LET op == IF owner = None THEN "unassign" ELSE "assign" IN
            /\ op \in Ops /\ application[d] # owner
            /\ Begin(r, [Idle EXCEPT !.step = "owner", !.op = op, !.device = d, !.owner = owner,
                                !.loaded = group[d]])
        BY <1>1 DEF LoadDevice
    <2> DEFINE op == IF owner = None THEN "unassign" ELSE "assign"
               new == [Idle EXCEPT !.step = "owner", !.op = op, !.device = d, !.owner = owner,
                                !.loaded = group[d]]
    <2>1. group[d] \in Group \cup {None} /\ op \in {"assign", "unassign"} /\ op \in Ops
        BY DEF TypeInv, RowTypes
    <2>2. op = "unassign" => owner = None
        BY DEF None
    <2>3. Begin(r, new)
        OBVIOUS
    <2> HIDE DEF op
    <2>4. new \in Handler
        BY <2>1 DEF Handler, Idle, Steps, AllOps, Home, Away, None
    <2>5. WellFormed(new)
        BY <2>1, <2>2, <2>4 DEF WellFormed, Idle
    <2> HIDE DEF new
    <2> QED BY <2>3, <2>5, SlotBegins
<1>2. CASE SetApplication(r)
    <2>1. /\ ~Resting(r) /\ req[r].device \in Device /\ req[r].owner \in {Home, Away, None}
          /\ req[r].op \in {"assign", "unassign"}
        BY <1>2, <1>h DEF SetApplication, DeviceRequest, Resting, WellFormed, Handler
    <2>2. \E step \in Steps : Goto(r, step) /\ WellFormed([req[r] EXCEPT !.step = step])
        <3>1. CASE req[r].op = "unassign"
            <4>1. Goto(r, "target")
                BY <1>2, <3>1 DEF SetApplication
            <4>2. WellFormed([req[r] EXCEPT !.step = "target"])
                BY <1>2, <3>1, <1>h DEF SetApplication, WellFormed, Handler, Steps
            <4> QED BY <4>1, <4>2 DEF Steps
        <3>2. CASE req[r].op # "unassign"
            <4>1. Goto(r, "group")
                BY <1>2, <3>2 DEF SetApplication
            <4>2. WellFormed([req[r] EXCEPT !.step = "group"])
                BY <1>2, <3>2, <2>1, <1>h DEF SetApplication, WellFormed, Handler, Steps
            <4> QED BY <4>1, <4>2 DEF Steps
        <3> QED BY <3>1, <3>2
    <2>3. HandlerTypes' /\ Exclusive' /\ served' \in 0..MaxOps
        BY <2>1, <2>2, SlotMoves
    <2> QED BY <1>2, <2>1, <2>3 DEF SetApplication, TypeInv, RowTypes
<1>3. CASE ClearTarget(r)
    <2>1. ~Resting(r) /\ req[r].op = "unassign" /\ req[r].device \in Device
        BY <1>3, <1>h DEF ClearTarget, Resting, WellFormed
    <2>2. Goto(r, "group") /\ WellFormed([req[r] EXCEPT !.step = "group"])
        BY <1>3, <1>h, <2>1 DEF ClearTarget, WellFormed, Handler, Steps
    <2>3. HandlerTypes' /\ Exclusive' /\ served' \in 0..MaxOps
        BY <2>1, <2>2, SlotMoves DEF Steps
    <2> QED BY <1>3, <2>1, <2>3 DEF ClearTarget, TypeInv, RowTypes
<1>4. CASE ClearGroup(r)
    <2>1. ~Resting(r) /\ req[r].device \in Device
        BY <1>4, <1>h DEF ClearGroup, DeviceRequest, Resting, WellFormed
    <2>2. HandlerTypes' /\ Exclusive' /\ served' \in 0..MaxOps
        BY <1>4, <2>1, SlotMoves DEF ClearGroup
    <2> QED BY <1>4, <2>1, <2>2 DEF ClearGroup, ClearedGroup, TypeInv, RowTypes
<1> QED BY <1>1, <1>2, <1>3, <1>4

LEMMA StutterTypes == TypeInv /\ UNCHANGED vars => TypeInv'
BY DEF TypeInv, RowTypes, HandlerTypes, WellFormed, Exclusive, Resting, vars, devices

LEMMA NextTypes == TypeInv /\ [Next]_vars => TypeInv'
BY MembershipTypes, GroupTypes, DeviceTypes, StutterTypes DEF Next

LEMMA TypesFollow == TypeInv => TypeOK
BY DEF TypeInv, RowTypes, HandlerTypes, Handler, TypeOK

\* The rows of devices and groups keep their types, and so does what handlers hold of them,
\* whichever requests overlap (DeviceGroup.js, Pipeline.js, routes/api/device.js).
THEOREM TypeCorrect == Spec => []TypeOK
BY InitTypes, NextTypes, TypesFollow, PTL DEF Spec

-----------------------------------------------------------------------------
(* The second invariant: the members run the group's snapshot *)

\* The device whose target a handler has cleared, and whose group it is about to clear.
LosesItsGroup(d) == \E r \in Req : At(r, "unassign", "group") /\ req[r].device = d

RunInv ==
    /\ \A r \in Req : ~Resting(r) /\ req[r].op = "membership"
                          => req[r].loaded = groupTarget[req[r].group]
    /\ \A r \in Req : At(r, "deploy", "commit") => req[r].add = Members(req[r].group)
    /\ \A r \in Req : ~Resting(r) /\ req[r].op = "unassign" => req[r].loaded = group[req[r].device]
    /\ \A d \in Device : group[d] # None /\ groupTarget[group[d]] # None
           => target[d] = groupTarget[group[d]] \/ LosesItsGroup(d)

(* The third: the members are of the application *)

\* The device whose application a handler has written, and whose group it is about to clear.
Moves(d) == \E r \in Req : /\ DeviceRequest(r) /\ req[r].step \in {"target", "group"}
                           /\ req[r].device = d /\ req[r].loaded # None

HomeInv ==
    /\ \A r \in Req : At(r, "membership", "commit") => \A d \in req[r].add : application[d] = Home
    /\ \A r \in Req : ~Resting(r) /\ DeviceRequest(r) => req[r].loaded = group[req[r].device]
    /\ \A d \in Device : group[d] # None => application[d] = Home \/ Moves(d)

-----------------------------------------------------------------------------
(* What a step leaves of the other handlers *)

\* No other handler is at work while one of an operation of Alone is.
LEMMA OnlyOne ==
    ASSUME TypeInv, NEW r \in Req, NEW q \in Req, q # r, ~Resting(r), ~Resting(q)
    PROVE  req[r].op \notin Alone /\ req[q].op \notin Alone
BY DEF TypeInv, Exclusive

LEMMA FinishRests ==
    ASSUME TypeInv, NEW r \in Req, Finish(r)
    PROVE  /\ req' = [req EXCEPT ![r] = Idle] /\ Resting(r)'
           /\ \A q \in Req \ {r} : req'[q] = req[q]
BY IdleWellFormed DEF TypeInv, HandlerTypes, Finish, Continue, Resting

LEMMA GotoKeeps ==
    ASSUME TypeInv, NEW r \in Req, NEW step, Goto(r, step)
    PROVE  /\ req'[r].step = step /\ req'[r].op = req[r].op /\ req'[r].group = req[r].group
           /\ req'[r].loaded = req[r].loaded /\ req'[r].device = req[r].device
           /\ req'[r].add = req[r].add
           /\ \A q \in Req \ {r} : req'[q] = req[q]
BY DEF TypeInv, HandlerTypes, Handler, Goto, Continue

LEMMA BeginStarts ==
    ASSUME TypeInv, NEW r \in Req, NEW new, Begin(r, new)
    PROVE  /\ req'[r] = new /\ Resting(r) /\ UNCHANGED <<application, group, target, groups, groupTarget>>
           /\ \A q \in Req \ {r} : req'[q] = req[q]
           /\ new.op \in Alone => \A q \in Req : Resting(q)
           /\ \A q \in Req : ~Resting(q) => req[q].op \notin Alone
BY DEF TypeInv, HandlerTypes, Begin, devices

-----------------------------------------------------------------------------
(* The members run the snapshot of the group *)

\* A deployment, and taking a device out of the application, have the process to themselves.
RunAlone == {"deploy", "unassign"} \cap Ops \subseteq Alone

LEMMA Deploying ==
    ASSUME TypeInv, RunAlone, NEW r \in Req, ~Resting(r), req[r].op \in {"deploy", "unassign"}
    PROVE  req[r].op \in Alone /\ \A q \in Req \ {r} : Resting(q)
<1>1. req[r].op \in Ops
    BY HandlerRecord DEF WellFormed, Resting
<1> QED BY <1>1, OnlyOne DEF RunAlone

LEMMA RunApart ==
    ASSUME TypeInv, RunInv, NEW r \in Req, ~Resting(r), RunAlone,
           UNCHANGED <<group, target, groupTarget>>,
           \A q \in Req \ {r} : req'[q] = req[q],
           \/ Resting(r)' /\ req[r].op \in {"membership"}
           \/ /\ req'[r].op = req[r].op /\ req'[r].loaded = req[r].loaded
              /\ req'[r].group = req[r].group /\ req'[r].device = req[r].device
              /\ req[r].op # "deploy" /\ ~At(r, "unassign", "group")
    PROVE  RunInv'
<1>1. \A q \in Req \ {r} : Resting(q)' = Resting(q) /\ req'[q] = req[q]
    BY DEF Resting
<1>2. ASSUME NEW d \in Device, LosesItsGroup(d) PROVE LosesItsGroup(d)'
    BY <1>2 DEF LosesItsGroup, At, Resting
<1> QED
    BY <1>1, <1>2 DEF RunInv, At, Resting, Members

LEMMA RunMembership ==
    ASSUME TypeInv, RunInv, RunAlone, NEW r \in Req,
           LoadGroup(r) \/ ReadMembers(r) \/ ValidateDeviceList(r) \/ CommitMembership(r)
    PROVE  RunInv'
<1>h. WellFormed(req[r]) /\ req[r] \in Handler
    BY HandlerRecord
<1>1. CASE LoadGroup(r)
    <2> PICK g \in groups, add \in SUBSET Device, remove \in SUBSET Device :
            Begin(r, [Idle EXCEPT !.step = "members", !.op = "membership", !.group = g,
                            !.loaded = groupTarget[g], !.add = add, !.remove = remove])
        BY <1>1 DEF LoadGroup
    <2> DEFINE new == [Idle EXCEPT !.step = "members", !.op = "membership", !.group = g,
                            !.loaded = groupTarget[g], !.add = add, !.remove = remove]
    <2>1. new.step = "members" /\ new.op = "membership" /\ new.group = g
          /\ new.loaded = groupTarget[g]
        BY DEF Idle
    <2>2. Begin(r, new)
        OBVIOUS
    <2> HIDE DEF new
    <2>3. \A d \in Device : LosesItsGroup(d) => LosesItsGroup(d)'
        BY <2>2, BeginStarts DEF LosesItsGroup, At, Resting
    <2> QED BY <2>1, <2>2, <2>3, BeginStarts DEF RunInv, At, Resting, Members
<1>2. CASE ReadMembers(r)
    <2>1. req[r].op = "membership" /\ ~Resting(r)
        BY <1>2 DEF ReadMembers, At, Resting
    <2>2. /\ req'[r].op = req[r].op /\ req'[r].loaded = req[r].loaded
          /\ req'[r].group = req[r].group /\ req'[r].device = req[r].device
          /\ \A q \in Req \ {r} : req'[q] = req[q]
        BY <1>2 DEF ReadMembers, Continue, TypeInv, HandlerTypes, Handler
    <2>3. UNCHANGED <<group, target, groupTarget>>
        BY <1>2 DEF ReadMembers, devices
    <2> QED BY <2>1, <2>2, <2>3, RunApart DEF At
<1>3. CASE ValidateDeviceList(r)
    <2>1. req[r].op = "membership" /\ ~Resting(r) /\ UNCHANGED <<group, target, groupTarget>>
        BY <1>3 DEF ValidateDeviceList, At, Resting, devices
    <2>2. CASE Goto(r, "commit")
        BY <2>1, <2>2, GotoKeeps, RunApart DEF At
    <2>3. CASE Finish(r)
        BY <2>1, <2>3, FinishRests, RunApart
    <2> QED BY <1>3, <2>2, <2>3 DEF ValidateDeviceList
<1>4. CASE CommitMembership(r)
    <2>1. /\ req[r].op = "membership" /\ ~Resting(r) /\ UNCHANGED groupTarget /\ Finish(r)
          /\ req[r].group \in Group
        BY <1>4, <1>h DEF CommitMembership, At, Resting, WellFormed
    <2>2. req[r].loaded = groupTarget[req[r].group]
        BY <2>1 DEF RunInv
    <2>3. Resting(r)' /\ \A q \in Req \ {r} : req'[q] = req[q]
        BY <2>1, FinishRests
    <2>4. \A q \in Req : ~Resting(q) => req[q].op \notin {"deploy", "unassign"}
        BY <2>1, Deploying
    <2>5. \A d \in Device : ~LosesItsGroup(d)
        BY <2>4 DEF LosesItsGroup, At, Resting
    <2>6. ASSUME NEW d \in Device, group'[d] # None, groupTarget[group'[d]] # None
          PROVE  target'[d] = groupTarget[group'[d]]
        <3>1. CASE UNCHANGED <<group, target>>
            BY <2>5, <2>6, <3>1 DEF RunInv
        <3>2. CASE d \in req[r].add /\ ~UNCHANGED <<group, target>>
            BY <1>4, <2>2, <2>6, <3>2 DEF CommitMembership, AppliedTarget
        <3>3. CASE d \notin req[r].add /\ ~UNCHANGED <<group, target>>
            <4>1. group'[d] = group[d] /\ d \notin StillMembers(r)
                BY <1>4, <2>6, <3>3 DEF CommitMembership
            <4>2. target'[d] = target[d]
                BY <1>4, <3>3, <4>1 DEF CommitMembership, Cleared
            <4> QED BY <2>5, <2>6, <4>1, <4>2 DEF RunInv
        <3> QED BY <3>1, <3>2, <3>3
    <2> QED BY <2>1, <2>3, <2>4, <2>6 DEF RunInv, At, Resting
<1> QED BY <1>1, <1>2, <1>3, <1>4

LEMMA RunGroup ==
    ASSUME TypeInv, RunInv, RunAlone, NEW r \in Req,
           ReadDeployMembers(r) \/ CommitDeploy(r) \/ DeleteGroup(r)
    PROVE  RunInv'
<1>h. WellFormed(req[r]) /\ req[r] \in Handler
    BY HandlerRecord
<1>1. CASE ReadDeployMembers(r)
    <2> PICK g \in groups, s \in Snapshot \cup {None} :
            Begin(r, [Idle EXCEPT !.step = "commit", !.op = "deploy", !.group = g,
                            !.loaded = s, !.add = Members(g)])
        BY <1>1 DEF ReadDeployMembers
    <2> DEFINE new == [Idle EXCEPT !.step = "commit", !.op = "deploy", !.group = g,
                            !.loaded = s, !.add = Members(g)]
    <2>1. new.step = "commit" /\ new.op = "deploy" /\ new.group = g /\ new.add = Members(g)
        BY DEF Idle
    <2>2. Begin(r, new)
        OBVIOUS
    <2> HIDE DEF new
    <2>3. \A d \in Device : LosesItsGroup(d) => LosesItsGroup(d)'
        BY <2>2, BeginStarts DEF LosesItsGroup, At, Resting
    <2> QED BY <2>1, <2>2, <2>3, BeginStarts DEF RunInv, At, Resting, Members
<1>2. CASE CommitDeploy(r)
    <2>1. /\ req[r].op = "deploy" /\ At(r, "deploy", "commit") /\ ~Resting(r) /\ UNCHANGED group
          /\ Finish(r) /\ req[r].group \in Group /\ req[r].add = Members(req[r].group)
        BY <1>2, <1>h DEF CommitDeploy, At, Resting, WellFormed, RunInv
    <2>2. \A q \in Req : Resting(q)'
        BY <2>1, Deploying, FinishRests DEF Resting
    <2>3. \A d \in Device : ~LosesItsGroup(d)
        BY <2>1, Deploying DEF LosesItsGroup, At, Resting
    <2>4. ASSUME NEW d \in Device, group[d] # None, groupTarget'[group[d]] # None
          PROVE  target'[d] = groupTarget'[group[d]]
        <3>1. group[d] \in Group /\ groupTarget \in [Group -> Snapshot \cup {None}]
            BY <2>4 DEF TypeInv, RowTypes
        <3>2. CASE group[d] = req[r].group
            BY <1>2, <2>1, <3>1, <3>2 DEF CommitDeploy, Members
        <3>3. CASE group[d] # req[r].group
            BY <1>2, <2>1, <2>3, <2>4, <3>1, <3>3 DEF CommitDeploy, Members, RunInv
        <3> QED BY <3>2, <3>3
    <2> QED BY <2>1, <2>2, <2>4 DEF RunInv, At, Resting
<1>3. CASE DeleteGroup(r)
    <2>1. /\ UNCHANGED <<target, groupTarget, req>>
          /\ \A d \in Device : group'[d] \in {group[d], None}
        BY <1>3 DEF DeleteGroup
    <2>2. \A q \in Req : ~Resting(q) => req[q].op \notin {"deploy", "unassign"}
        BY <1>3, Deploying DEF DeleteGroup
    <2> QED BY <2>1, <2>2 DEF RunInv, LosesItsGroup, At, Resting
<1> QED BY <1>1, <1>2, <1>3

LEMMA RunDevice ==
    ASSUME TypeInv, RunInv, RunAlone, NEW r \in Req,
           LoadDevice(r) \/ SetApplication(r) \/ ClearTarget(r) \/ ClearGroup(r)
    PROVE  RunInv'
<1>h. WellFormed(req[r]) /\ req[r] \in Handler
    BY HandlerRecord
<1>1. CASE LoadDevice(r)
    <2> PICK d \in Device, owner \in {Home, Away, None} :
            LET op == IF owner = None THEN "unassign" ELSE "assign" IN
            /\ op \in Ops
            /\ Begin(r, [Idle EXCEPT !.step = "owner", !.op = op, !.device = d, !.owner = owner,
                                !.loaded = group[d]])
        BY <1>1 DEF LoadDevice
    <2> DEFINE op == IF owner = None THEN "unassign" ELSE "assign"
               new == [Idle EXCEPT !.step = "owner", !.op = op, !.device = d, !.owner = owner,
                                !.loaded = group[d]]
    <2>1. new.step = "owner" /\ new.op \in {"assign", "unassign"} /\ new.device = d
          /\ new.loaded = group[d]
        BY DEF Idle
    <2>2. Begin(r, new)
        OBVIOUS
    <2> HIDE DEF op, new
    <2>3. \A e \in Device : LosesItsGroup(e) => LosesItsGroup(e)'
        BY <2>2, BeginStarts DEF LosesItsGroup, At, Resting
    <2> QED BY <2>1, <2>2, <2>3, BeginStarts DEF RunInv, At, Resting, Members
<1>2. CASE SetApplication(r)
    <2>1. /\ req[r].op # "deploy" /\ ~At(r, "unassign", "group") /\ ~Resting(r)
          /\ UNCHANGED <<group, target, groupTarget>>
        BY <1>2 DEF SetApplication, DeviceRequest, At, Resting
    <2>2. \E step \in Steps : Goto(r, step)
        BY <1>2 DEF SetApplication, Steps
    <2> QED BY <2>1, <2>2, GotoKeeps, RunApart
<1>3. CASE ClearTarget(r)
    <2>1. /\ req[r].op = "unassign" /\ ~Resting(r) /\ UNCHANGED <<group, groupTarget>>
          /\ Goto(r, "group") /\ req[r].device \in Device
        BY <1>3, <1>h DEF ClearTarget, WellFormed, Resting
    <2>2. \A q \in Req \ {r} : Resting(q) /\ Resting(q)'
        BY <2>1, Deploying, GotoKeeps DEF Resting
    <2>3. /\ At(r, "unassign", "group")' /\ req'[r].device = req[r].device
          /\ req'[r].loaded = req[r].loaded
        BY <2>1, GotoKeeps DEF At
    <2>4. \A d \in Device : ~LosesItsGroup(d)
        BY <1>3, <2>1, <2>2 DEF LosesItsGroup, At, Resting, ClearTarget
    <2>5. LosesItsGroup(req[r].device)'
        BY <2>3 DEF LosesItsGroup
    <2>6. \A d \in Device \ {req[r].device} : target'[d] = target[d]
        BY <1>3, <2>1 DEF ClearTarget, TypeInv, RowTypes
    <2> QED BY <2>1, <2>2, <2>3, <2>4, <2>5, <2>6 DEF RunInv, At, Resting
<1>4. CASE ClearGroup(r)
    <2>1. /\ req[r].op \in {"assign", "unassign"} /\ ~Resting(r) /\ UNCHANGED <<target, groupTarget>>
          /\ Finish(r) /\ req[r].device \in Device
        BY <1>4, <1>h DEF ClearGroup, DeviceRequest, WellFormed, Resting
    <2>2. Resting(r)' /\ \A q \in Req \ {r} : req'[q] = req[q]
        BY <2>1, FinishRests
    <2>3. \A q \in Req \ {r} : ~Resting(q) => req[q].op \notin {"deploy", "unassign"}
        BY <2>1, Deploying
    <2>4. \A d \in Device : group'[d] \in {group[d], None}
        BY <1>4 DEF ClearGroup, ClearedGroup, TypeInv, RowTypes
    <2>5. \A d \in Device : LosesItsGroup(d) => group'[d] = None
        BY <1>4, <2>1, <2>3
        DEF LosesItsGroup, At, Resting, ClearGroup, ClearedGroup, RunInv, TypeInv, RowTypes
    <2> QED BY <2>1, <2>2, <2>3, <2>4, <2>5 DEF RunInv, At, Resting
<1> QED BY <1>1, <1>2, <1>3, <1>4

LEMMA RunInit == Init => RunInv
BY IdleWellFormed DEF Init, RunInv, Resting, At

LEMMA RunNext == TypeInv /\ RunInv /\ RunAlone /\ [Next]_vars => RunInv'
<1>1. RunInv /\ UNCHANGED vars => RunInv'
    BY DEF RunInv, LosesItsGroup, Resting, At, Members, vars, devices
<1> QED BY <1>1, RunMembership, RunGroup, RunDevice DEF Next

LEMMA RunFollows == TypeInv /\ RunInv => MembersRunGroupSnapshot
BY DEF RunInv, MembersRunGroupSnapshot, LosesItsGroup, Settled, Resting, At

\* Whatever requests about the members of groups overlap, and whichever groups are deleted
\* meanwhile, once they have ended the members of a group that has a snapshot are to run it:
\* as long as a deployment to a group, or taking a device out of the application, overlaps no
\* other request (updateDeviceGroupMembership, deployPipelineStage, PUT of a device).
THEOREM GroupSnapshotRuns ==
    ASSUME RunAlone PROVE Spec => []MembersRunGroupSnapshot
<1>1. Init => TypeInv /\ RunInv
    BY InitTypes, RunInit
<1>2. TypeInv /\ RunInv /\ [Next]_vars => TypeInv' /\ RunInv'
    BY NextTypes, RunNext
<1>3. TypeInv /\ RunInv => MembersRunGroupSnapshot
    BY RunFollows
<1> QED BY <1>1, <1>2, <1>3, PTL DEF Spec

-----------------------------------------------------------------------------
(* The members are of the application *)

\* A device moves to or from the application with the process to itself.
MoveAlone == {"assign", "unassign"} \cap Ops \subseteq Alone

LEMMA Moving ==
    ASSUME TypeInv, MoveAlone, NEW r \in Req, ~Resting(r), DeviceRequest(r)
    PROVE  \A q \in Req \ {r} : Resting(q)
<1>1. req[r].op \in Ops
    BY HandlerRecord DEF WellFormed, Resting
<1> QED BY <1>1, OnlyOne DEF MoveAlone, DeviceRequest

LEMMA HomeBegins ==
    ASSUME TypeInv, HomeInv, NEW r \in Req, NEW new, Begin(r, new), new.step \in {"members", "commit", "owner"},
           new.op = "membership" => new.step = "members",
           new.op \in {"assign", "unassign"} => new.loaded = group[new.device]
    PROVE  HomeInv'
<1>1. \A d \in Device : Moves(d) => Moves(d)'
    BY BeginStarts DEF Moves, DeviceRequest, Resting
<1> QED BY <1>1, BeginStarts DEF HomeInv, At, Resting, DeviceRequest

LEMMA HomeApart ==
    ASSUME TypeInv, HomeInv, NEW r \in Req, req[r].op \notin {"assign", "unassign"},
           UNCHANGED <<application, group>>, \A q \in Req \ {r} : req'[q] = req[q],
           req'[r].op \notin {"assign", "unassign"} \/ Resting(r)',
           At(r, "membership", "commit")' => \A d \in req'[r].add : application[d] = Home
    PROVE  HomeInv'
<1>1. \A d \in Device : Moves(d) => Moves(d)'
    BY DEF Moves, DeviceRequest
<1> QED BY <1>1 DEF HomeInv, At, Resting, DeviceRequest

LEMMA HomeMembership ==
    ASSUME TypeInv, HomeInv, MoveAlone, NEW r \in Req,
           LoadGroup(r) \/ ReadMembers(r) \/ ValidateDeviceList(r) \/ CommitMembership(r)
    PROVE  HomeInv'
<1>1. CASE LoadGroup(r)
    <2> PICK g \in groups, add \in SUBSET Device, remove \in SUBSET Device :
            Begin(r, [Idle EXCEPT !.step = "members", !.op = "membership", !.group = g,
                            !.loaded = groupTarget[g], !.add = add, !.remove = remove])
        BY <1>1 DEF LoadGroup
    <2> DEFINE new == [Idle EXCEPT !.step = "members", !.op = "membership", !.group = g,
                            !.loaded = groupTarget[g], !.add = add, !.remove = remove]
    <2>1. new.step = "members" /\ new.op = "membership" /\ Begin(r, new)
        BY DEF Idle
    <2> HIDE DEF new
    <2> QED BY <2>1, HomeBegins
<1>2. CASE ReadMembers(r)
    <2>1. /\ req[r].op = "membership" /\ UNCHANGED <<application, group>>
          /\ req'[r].op = "membership" /\ req'[r].step = "validate"
          /\ \A q \in Req \ {r} : req'[q] = req[q]
        BY <1>2 DEF ReadMembers, At, Continue, TypeInv, HandlerTypes, Handler, devices
    <2> QED BY <2>1, HomeApart DEF At
<1>3. CASE ValidateDeviceList(r)
    <2>1. req[r].op = "membership" /\ UNCHANGED <<application, group>>
        BY <1>3 DEF ValidateDeviceList, At, devices
    <2>2. CASE AddedAreOfApplication(r) /\ RemovedAreMembers(r)
        <3>1. Goto(r, "commit") /\ \A d \in req[r].add : application[d] = Home
            BY <1>3, <2>2 DEF ValidateDeviceList, AddedAreOfApplication
        <3> QED BY <2>1, <3>1, GotoKeeps, HomeApart
    <2>3. CASE Finish(r)
        BY <2>1, <2>3, FinishRests, HomeApart DEF At, Resting
    <2> QED BY <1>3, <2>2, <2>3 DEF ValidateDeviceList
<1>4. CASE CommitMembership(r)
    <2>1. /\ req[r].op = "membership" /\ ~Resting(r) /\ UNCHANGED application /\ Finish(r)
          /\ \A d \in req[r].add : application[d] = Home
        BY <1>4 DEF CommitMembership, At, Resting, HomeInv
    <2>2. Resting(r)' /\ \A q \in Req \ {r} : req'[q] = req[q]
        BY <2>1, FinishRests
    <2>3. \A q \in Req : ~Resting(q) => ~DeviceRequest(q)
        BY <2>1, Moving DEF DeviceRequest
    <2>4. \A d \in Device : ~Moves(d)
        BY <2>3 DEF Moves, Resting
    <2>5. \A d \in Device : d \in req[r].add \/ group'[d] \in {group[d], None}
        BY <1>4 DEF CommitMembership
    <2> QED BY <2>1, <2>2, <2>3, <2>4, <2>5 DEF HomeInv, At, Resting, DeviceRequest
<1> QED BY <1>1, <1>2, <1>3, <1>4

LEMMA HomeGroup ==
    ASSUME TypeInv, HomeInv, MoveAlone, NEW r \in Req,
           ReadDeployMembers(r) \/ CommitDeploy(r) \/ DeleteGroup(r)
    PROVE  HomeInv'
<1>1. CASE ReadDeployMembers(r)
    <2> PICK g \in groups, s \in Snapshot \cup {None} :
            Begin(r, [Idle EXCEPT !.step = "commit", !.op = "deploy", !.group = g,
                            !.loaded = s, !.add = Members(g)])
        BY <1>1 DEF ReadDeployMembers
    <2> DEFINE new == [Idle EXCEPT !.step = "commit", !.op = "deploy", !.group = g,
                            !.loaded = s, !.add = Members(g)]
    <2>1. new.step = "commit" /\ new.op = "deploy" /\ Begin(r, new)
        BY DEF Idle
    <2> HIDE DEF new
    <2> QED BY <2>1, HomeBegins
<1>2. CASE CommitDeploy(r)
    <2>1. req[r].op = "deploy" /\ UNCHANGED <<application, group>> /\ Finish(r)
        BY <1>2 DEF CommitDeploy, At
    <2> QED BY <2>1, FinishRests, HomeApart DEF At, Resting
<1>3. CASE DeleteGroup(r)
    <2>1. /\ UNCHANGED <<application, req>> /\ \A d \in Device : group'[d] \in {group[d], None}
        BY <1>3 DEF DeleteGroup
    <2>2. \A q \in Req : ~Resting(q) => ~DeviceRequest(q)
        BY <1>3, HandlerRecord DEF DeleteGroup, MoveAlone, DeviceRequest, WellFormed, Resting
    <2>3. \A d \in Device : ~Moves(d)
        BY <2>2 DEF Moves, Resting
    <2> QED BY <2>1, <2>2, <2>3 DEF HomeInv, At, Resting, DeviceRequest
<1> QED BY <1>1, <1>2, <1>3

LEMMA HomeDevice ==
    ASSUME TypeInv, HomeInv, MoveAlone, NEW r \in Req,
           LoadDevice(r) \/ SetApplication(r) \/ ClearTarget(r) \/ ClearGroup(r)
    PROVE  HomeInv'
<1>h. WellFormed(req[r]) /\ req[r] \in Handler
    BY HandlerRecord
<1>1. CASE LoadDevice(r)
    <2> PICK d \in Device, owner \in {Home, Away, None} :
            LET op == IF owner = None THEN "unassign" ELSE "assign" IN
            Begin(r, [Idle EXCEPT !.step = "owner", !.op = op, !.device = d, !.owner = owner,
                                !.loaded = group[d]])
        BY <1>1 DEF LoadDevice
    <2> DEFINE op == IF owner = None THEN "unassign" ELSE "assign"
               new == [Idle EXCEPT !.step = "owner", !.op = op, !.device = d, !.owner = owner,
                                !.loaded = group[d]]
    <2>1. new.step = "owner" /\ new.op # "membership" /\ new.loaded = group[new.device]
        BY DEF Idle
    <2>2. Begin(r, new)
        OBVIOUS
    <2> HIDE DEF op, new
    <2> QED BY <2>1, <2>2, HomeBegins
<1>5. ASSUME DeviceRequest(r), ~Resting(r)
      PROVE  /\ req[r].device \in Device /\ req[r].loaded = group[req[r].device]
             /\ \A q \in Req \ {r} : Resting(q)
    BY <1>5, <1>h, Moving DEF HomeInv, DeviceRequest, WellFormed, Resting
<1>2. CASE SetApplication(r)
    <2>1. /\ DeviceRequest(r) /\ ~Resting(r) /\ UNCHANGED group /\ req[r].step = "owner"
          /\ \E step \in {"target", "group"} : Goto(r, step)
        BY <1>2 DEF SetApplication, Resting
    <2>2. /\ req'[r].step \in {"target", "group"} /\ req'[r].op = req[r].op
          /\ req'[r].loaded = req[r].loaded /\ req'[r].device = req[r].device
          /\ \A q \in Req \ {r} : Resting(q) /\ req'[q] = req[q]
        BY <2>1, <1>5, GotoKeeps
    <2>3. \A d \in Device : ~Moves(d)
        BY <2>1, <2>2 DEF Moves, Resting
    <2>4. group[req[r].device] # None => Moves(req[r].device)'
        BY <1>5, <2>1, <2>2 DEF Moves, DeviceRequest
    <2>5. \A d \in Device \ {req[r].device} : application'[d] = application[d]
        BY <1>2, <1>5, <2>1 DEF SetApplication, TypeInv, RowTypes
    <2> QED BY <1>5, <2>1, <2>2, <2>3, <2>4, <2>5 DEF HomeInv, At, Resting, DeviceRequest
<1>3. CASE ClearTarget(r)
    <2>1. /\ DeviceRequest(r) /\ ~Resting(r) /\ UNCHANGED <<application, group>> /\ Goto(r, "group")
        BY <1>3, <1>h DEF ClearTarget, WellFormed, Resting, DeviceRequest
    <2>2. /\ req'[r].step = "group" /\ req'[r].op = req[r].op
          /\ req'[r].loaded = req[r].loaded /\ req'[r].device = req[r].device
          /\ \A q \in Req \ {r} : req'[q] = req[q]
        BY <2>1, GotoKeeps
    <2>3. \A d \in Device : Moves(d) => Moves(d)'
        BY <2>1, <2>2 DEF Moves, DeviceRequest
    <2> QED BY <2>1, <2>2, <2>3, <1>5 DEF HomeInv, At, Resting, DeviceRequest
<1>4. CASE ClearGroup(r)
    <2>1. /\ DeviceRequest(r) /\ ~Resting(r) /\ UNCHANGED application /\ Finish(r)
        BY <1>4 DEF ClearGroup, Resting
    <2>2. Resting(r)' /\ \A q \in Req \ {r} : Resting(q) /\ req'[q] = req[q]
        BY <2>1, <1>5, FinishRests
    <2>3. \A d \in Device : group'[d] \in {group[d], None}
        BY <1>4 DEF ClearGroup, ClearedGroup, TypeInv, RowTypes
    <2>4. \A d \in Device : Moves(d) => group'[d] = None
        BY <1>4, <1>5, <2>1, <2>2
        DEF Moves, DeviceRequest, Resting, ClearGroup, ClearedGroup, TypeInv, RowTypes
    <2> QED BY <2>1, <2>2, <2>3, <2>4 DEF HomeInv, At, Resting, DeviceRequest
<1> QED BY <1>1, <1>2, <1>3, <1>4

LEMMA HomeInit == Init => HomeInv
BY IdleWellFormed DEF Init, HomeInv, Resting, At

LEMMA HomeNext == TypeInv /\ HomeInv /\ MoveAlone /\ [Next]_vars => HomeInv'
<1>1. HomeInv /\ UNCHANGED vars => HomeInv'
    BY DEF HomeInv, Moves, DeviceRequest, Resting, At, vars, devices
<1> QED BY <1>1, HomeMembership, HomeGroup, HomeDevice DEF Next

LEMMA HomeFollows == TypeInv /\ HomeInv => MembersOfApplication
BY DEF HomeInv, MembersOfApplication, Moves, DeviceRequest, Settled, Resting

\* A device ends up in a group of its own application or in none, whichever changes of the
\* members, deployments and deletions of groups overlap, as long as the requests that move a
\* device between applications overlap nothing (validateDeviceList, setApplication).
THEOREM MembershipWithinApplication ==
    ASSUME MoveAlone PROVE Spec => []MembersOfApplication
<1>1. Init => TypeInv /\ HomeInv
    BY InitTypes, HomeInit
<1>2. TypeInv /\ HomeInv /\ [Next]_vars => TypeInv' /\ HomeInv'
    BY NextTypes, HomeNext
<1>3. TypeInv /\ HomeInv => MembersOfApplication
    BY HomeFollows
<1> QED BY <1>1, <1>2, <1>3, PTL DEF Spec

=============================================================================
