-------------------------- MODULE DeviceSyncProofs --------------------------
(***************************************************************************)
(* Proofs about DeviceSync: with one request at a time a device that has   *)
(* the settings hash of its row has the device's own settings, for any     *)
(* number of requests, snapshots and messages under way, whichever copy of *)
(* the row and of its target the hash was made of.                         *)
(***************************************************************************)
EXTENDS DeviceSync, TLAPS

Owner == {None, Instance, Application}
Target == Snapshots \cup {None}
Envs == [version : Nat, application : Owner, snapshot : Target \cup {Starter}]
Hash == [env : Envs, salt : Nat]
Row == [project : Owner, application : Owner, target : Target, hash : Hash]

Handler == [step : {"idle", "begin", "inheritTarget", "saveTarget", "hash", "retargetDevices",
                    "sendTarget", "saveHash", "send"},
            op : AllOps, loaded : Row, copy : Row, assoc : Target, pick : Target]

Command == [project : Owner \cup {Keep}, application : Owner \cup {Keep},
            snapshot : Target \cup {Starter}, settings : Hash]

Device == [project : Owner, application : Owner, snapshot : Target \cup {Starter},
           settings : Hash, env : Envs,
           step : {"idle", "fetchSnapshot", "fetchSettings", "fetchEnv"}, legacy : BOOLEAN]

Types ==
    /\ row \in Row /\ exists \in BOOLEAN
    /\ instanceTarget \in Target
    /\ settings \in Nat /\ served \in Nat
    /\ req \in [Req -> Handler]
    /\ commands \subseteq Command
    /\ dev \in Device

\* A request has stored new settings and not yet their hash.
Renewing(q) == q.op = "settings" /\ q.step \in {"hash", "saveHash"}
Renewal == \E r \in Req : Renewing(req[r])

\* A request is still going to give the row the random hash of its number.
Salting(q) ==
    \/ q.op = "target" /\ q.step = "begin"
    \/ q.op = "instanceTarget" /\ q.step \in {"begin", "retargetDevices"}

\* Until the hash is saved the row has the hash it was loaded with; the hash that will be saved is
\* of the settings as they are; a random hash that is still to come is nobody's.
InHand(q) ==
    /\ q.step \in {"begin", "inheritTarget", "saveTarget", "hash", "saveHash"}
            => q.loaded.hash = row.hash
    /\ q.step = "saveHash" => q.copy.hash.env.version = settings /\ q.copy.hash.salt = 0
    /\ q.step = "retargetDevices" => q.op = "instanceTarget"
    /\ Salting(q) => row.hash.salt < served /\ dev.settings.salt # served

\* Random hashes are numbered by requests.  Other hashes are of the settings as they are, or
\* about to be renewed, while the device exists.
HashInv ==
    /\ served <= MaxOps
    /\ row.hash.salt <= served
    /\ dev.settings.salt <= served \/ dev.settings.salt = MaxOps + 1
    /\ row.hash.env.version <= settings
    /\ exists /\ row.hash.salt = 0 => row.hash.env.version = settings \/ Renewal

\* The device has at least the settings of its hash, and those of today if it has the random hash
\* of its row.
DeviceInv ==
    /\ dev.env.version <= settings
    /\ dev.settings.salt = 0 => dev.settings.env.version <= settings
    /\ exists /\ dev.step # "fetchEnv" =>
        /\ dev.settings.salt = 0 => dev.settings.env.version <= dev.env.version
        /\ dev.settings.salt # 0 /\ dev.settings = row.hash => dev.env.version = settings \/ Renewal

Inv == Types /\ HashInv /\ DeviceInv /\ \A r \in Req : InHand(req[r])

OneHandler == \A r, o \in Req : r = o

-----------------------------------------------------------------------------
(* Types *)

LEMMA HashesAreTyped ==
    /\ FirstEnv \in Envs /\ FirstEnv.version = 0
    /\ \A e \in Envs : HashOf(e) \in Hash /\ HashOf(e).env = e /\ HashOf(e).salt = 0
    /\ \A n \in Nat : RandomHash(n) \in Hash /\ RandomHash(n).env.version = 0
                      /\ RandomHash(n).salt = n
    /\ NoHash \in Hash /\ NoHash.salt = MaxOps + 1
<1>1. FirstEnv \in Envs /\ FirstEnv.version = 0
    BY DEF FirstEnv, Envs, Owner, Target
<1> QED
    BY <1>1, BoundsAssumption DEF HashOf, RandomHash, NoHash, Hash

LEMMA EnvIsTyped ==
    ASSUME NEW version \in Nat, NEW d \in Row, NEW snapshot \in Target
    PROVE  Env(version, d, snapshot) \in Envs /\ Env(version, d, snapshot).version = version
<1>1. d.application \in Owner /\ None \in Owner
    BY DEF Row, Owner
<1> QED
    BY <1>1 DEF Env, Envs

LEMMA UpdateIsCommand ==
    ASSUME Types, NEW d \in Row
    PROVE  UpdateFor(d) \in Command
<1>1. d.project \in Owner /\ d.application \in Owner /\ d.target \in Target /\ d.hash \in Hash
    BY DEF Row
<1>2. TargetOf(d) \in Target /\ None \in Target /\ None \in Owner /\ NoHash \in Hash
    BY <1>1, HashesAreTyped DEF TargetOf, Target, Owner
<1> QED
    BY <1>1, <1>2 DEF UpdateFor, Command

LEMMA PublishKeeps ==
    ASSUME commands \subseteq Command, NEW c \in Command, Publish(c)
    PROVE  commands' \subseteq Command
BY DEF Publish

\* The slot of a handler that goes on, or ends.
LEMMA GoesOn ==
    ASSUME Types, NEW r \in Req, NEW step, NEW copy \in Row, Continue(r, step, copy),
           step \in {"inheritTarget", "saveTarget", "hash", "retargetDevices", "sendTarget",
                     "saveHash", "send"}
    PROVE  /\ req' \in [Req -> Handler] /\ served' = served /\ dev' = dev
           /\ req'[r].step = step /\ req'[r].copy = copy
           /\ req'[r].op = req[r].op /\ req'[r].loaded = req[r].loaded
           /\ req'[r].pick = req[r].pick
<1>. DEFINE h == [req[r] EXCEPT !.step = step, !.copy = copy]
<1>1. req[r] \in Handler /\ req \in [Req -> Handler]
    BY DEF Types
<1>2. /\ h \in Handler /\ h.step = step /\ h.copy = copy /\ h.op = req[r].op
      /\ h.loaded = req[r].loaded /\ h.pick = req[r].pick
    BY <1>1 DEF Handler
<1>3. req' = [req EXCEPT ![r] = h] /\ served' = served /\ dev' = dev
    BY <1>1 DEF Continue
<1>. HIDE DEF h
<1> QED
    BY <1>1, <1>2, <1>3

LEMMA IdleIsHandler == Idle \in Handler /\ Idle.step = "idle" /\ Idle.op = "settings"
                       /\ FirstRow \in Row
<1>1. FirstRow \in Row
    BY HashesAreTyped DEF FirstRow, Row, Owner, Target
<1> QED
    BY <1>1 DEF Idle, Handler, AllOps, Target

LEMMA GoesIdle ==
    ASSUME Types, NEW r \in Req, Finish(r)
    PROVE  /\ req' \in [Req -> Handler] /\ served' = served /\ dev' = dev
           /\ req'[r].step = "idle" /\ req'[r].op = "settings"
BY IdleIsHandler DEF Types, Finish

-----------------------------------------------------------------------------
(* What a step of a request leaves true *)

\* With one handler the invariant is about its slot.
LEMMA Sole ==
    ASSUME OneHandler, NEW r \in Req
    PROVE  /\ (\A o \in Req : InHand(req[o])) <=> InHand(req[r])
           /\ (\A o \in Req : InHand(req[o]))' <=> InHand(req[r])'
           /\ Renewal <=> Renewing(req[r])
           /\ Renewal' <=> Renewing(req'[r])
<1>1. \A o \in Req : o = r
    BY DEF OneHandler
<1>2. Renewal <=> Renewing(req[r])
    BY <1>1 DEF Renewal
<1>3. Renewal' <=> Renewing(req'[r])
    BY <1>1 DEF Renewal, Renewing
<1>4. (\A o \in Req : InHand(req[o])) <=> InHand(req[r])
    BY <1>1
<1>5. (\A o \in Req : InHand(req[o]))' <=> InHand(req[r])'
    BY <1>1 DEF InHand, Salting
<1> QED
    BY <1>2, <1>3, <1>4, <1>5

LEMMA InvOf ==
    ASSUME OneHandler, Inv, NEW r \in Req
    PROVE  Types /\ HashInv /\ DeviceInv /\ InHand(req[r])
BY DEF Inv

LEMMA HashStays ==
    ASSUME OneHandler, Inv, NEW r \in Req, Types', dev' = dev, exists' => exists,
           row'.hash = row.hash, settings' = settings, served' = served,
           Renewing(req[r]) /\ exists' => Renewing(req'[r]), InHand(req[r])'
    PROVE  Inv'
<1>1. HashInv'
    BY Sole DEF Inv, HashInv
<1>2. DeviceInv'
    BY Sole DEF Inv, DeviceInv
<1> QED
    BY <1>1, <1>2, Sole DEF Inv

\* A request that ends, or has only its command to send.
LEMMA NothingInHand ==
    ASSUME NEW r, req'[r].step \in {"idle", "send", "sendTarget"}
    PROVE  InHand(req[r])' /\ ~Salting(req'[r])
BY DEF InHand, Salting

\* The row is given the random hash of the request.
LEMMA Salted ==
    ASSUME OneHandler, Inv, NEW r \in Req, Salting(req[r]), Types', dev' = dev, exists' = exists,
           row'.hash = RandomHash(served), settings' = settings, served' = served,
           req'[r].step \in {"send", "sendTarget"}
    PROVE  Inv'
<1>1. Types /\ HashInv /\ DeviceInv /\ InHand(req[r])
    BY InvOf
<1>2. served \in Nat /\ settings \in Nat /\ row.hash \in Hash /\ dev.settings \in Hash
    BY <1>1 DEF Types, Row, Device
<1>3. row.hash.salt < served /\ dev.settings.salt # served /\ row.hash.salt \in Nat
    BY <1>1, <1>2 DEF InHand, Hash
<1>4. row'.hash.salt = served /\ row'.hash.env.version = 0 /\ served # 0
    BY <1>2, <1>3, HashesAreTyped
<1>5. dev.settings # row'.hash
    BY <1>3, <1>4
<1>6. HashInv'
    BY <1>1, <1>2, <1>4 DEF HashInv
<1>7. ~Renewal
    BY Sole DEF Renewing, Salting
<1>8. DeviceInv'
    BY <1>1, <1>5 DEF DeviceInv
<1> QED
    BY <1>6, <1>8, NothingInHand, Sole DEF Inv

-----------------------------------------------------------------------------
(* The steps of requests *)

LEMMA Loading ==
    ASSUME OneHandler, Inv, NEW r \in Req, NEW op \in Ops, Load(r, op)
    PROVE  Inv'
<1>1. Types /\ HashInv /\ DeviceInv /\ InHand(req[r])
    BY InvOf
<1>2. PICK s \in Target :
            req' = [req EXCEPT ![r] = [step |-> "begin", op |-> op, loaded |-> row, copy |-> row,
                                       assoc |-> row.target, pick |-> s]]
    BY DEF Load, Target, Snapshots
<1>3. /\ served' = served + 1 /\ served < MaxOps /\ At(r, "idle")
      /\ UNCHANGED <<db, commands, dev>>
    BY DEF Load
<1>. DEFINE h == [step |-> "begin", op |-> op, loaded |-> row, copy |-> row,
                      assoc |-> row.target, pick |-> s]
<1>4. h \in Handler /\ h.step = "begin" /\ h.op = op /\ h.loaded = row
    BY <1>1, OpsAssumption DEF Types, Handler, Row
<1>. HIDE DEF h
<1>5. req' \in [Req -> Handler] /\ req'[r] = h
    BY <1>1, <1>2, <1>4 DEF Types, h
<1>6. Types'
    BY <1>1, <1>3, <1>5 DEF Types, db
<1>7. /\ served \in Nat /\ row.hash.salt \in Nat /\ dev.settings.salt \in Nat
      /\ row.hash.salt <= served
      /\ dev.settings.salt <= served \/ dev.settings.salt = MaxOps + 1
    BY <1>1 DEF Types, HashInv, Row, Device, Hash
<1>8. /\ req'[r].step = "begin" /\ req'[r].loaded = row /\ row' = row /\ dev' = dev
      /\ row.hash.salt < served' /\ dev.settings.salt # served'
    BY <1>3, <1>4, <1>5, <1>7, BoundsAssumption DEF db
<1>9. InHand(req[r])'
    BY <1>8 DEF InHand, Salting
<1>10. ~Renewal
    BY <1>3, Sole DEF Renewing, At
<1>11. HashInv'
    BY <1>1, <1>3, <1>7, <1>10, BoundsAssumption DEF HashInv, db
<1>12. DeviceInv'
    BY <1>1, <1>3, <1>10 DEF DeviceInv, db
<1> QED
    BY <1>6, <1>9, <1>11, <1>12, Sole DEF Inv

\* The steps that change owner or target, and those that change nothing yet.
LEMMA OwnerSteps ==
    ASSUME OneHandler, Inv, NEW r \in Req,
           AssignInstance(r) \/ InheritTarget(r) \/ AssignApplication(r) \/ Unassign(r)
    PROVE  Inv'
<1>1. Types /\ InHand(req[r])
    BY InvOf
<1>2. Copy(r) \in Row /\ row \in Row /\ req[r] \in Handler
    BY <1>1 DEF Types, Handler, Copy
<1>3. ASSUME Finish(r), UNCHANGED <<db, commands>>, ~Renewing(req[r]) PROVE Inv'
    <2>1. /\ req' \in [Req -> Handler] /\ served' = served /\ dev' = dev
          /\ req'[r].step = "idle" /\ req'[r].op = "settings"
        BY <1>1, <1>3, GoesIdle
    <2>2. Types'
        BY <1>1, <1>3, <2>1 DEF Types, db
    <2> QED
        BY <1>3, <2>1, <2>2, NothingInHand, HashStays DEF db
<1>4. ASSUME NEW d \in Row, row' = d, d.hash = row.hash,
             UNCHANGED <<exists, instanceTarget, settings, commands>>,
             NEW step \in {"inheritTarget", "saveTarget", "send"},
             NEW copy \in Row, Continue(r, step, copy), ~Renewing(req[r]),
             req[r].loaded.hash = row.hash
      PROVE  Inv'
    <2>1. /\ req' \in [Req -> Handler] /\ served' = served /\ dev' = dev
          /\ req'[r].step = step /\ req'[r].loaded = req[r].loaded
        BY <1>1, <1>4, GoesOn
    <2>2. Types'
        BY <1>1, <1>4, <2>1 DEF Types
    <2>3. InHand(req[r])'
        BY <1>4, <2>1 DEF InHand, Salting
    <2> QED
        BY <1>4, <2>1, <2>2, <2>3, HashStays
<1>5. CASE AssignInstance(r)
    <2>1. req[r].loaded.hash = row.hash /\ ~Renewing(req[r])
        BY <1>1, <1>5 DEF AssignInstance, Begins, At, InHand, Renewing
    <2>. DEFINE d == [row EXCEPT !.project = Instance]
                c == [Copy(r) EXCEPT !.project = Instance]
    <2>2. d \in Row /\ d.hash = row.hash /\ c \in Row
        BY <1>2 DEF Row, Owner
    <2>3. \/ Finish(r) /\ UNCHANGED <<db, commands>>
          \/ Save(d) /\ Continue(r, "inheritTarget", c)
        BY <1>5 DEF AssignInstance
    <2>. HIDE DEF d, c
    <2> QED
        BY <1>3, <1>4, <2>1, <2>2, <2>3 DEF Save
<1>6. CASE InheritTarget(r)
    <2>1. req[r].loaded.hash = row.hash /\ ~Renewing(req[r])
        BY <1>1, <1>6 DEF InheritTarget, At, InHand, Renewing
    <2>. DEFINE c == [Copy(r) EXCEPT !.target = instanceTarget]
    <2>2. c \in Row
        BY <1>1, <1>2 DEF Row, Types, Target, Snapshots
    <2>3. Continue(r, "saveTarget", c) /\ UNCHANGED <<db, commands>>
        BY <1>6 DEF InheritTarget
    <2>. HIDE DEF c
    <2> QED
        BY <1>2, <1>4, <2>1, <2>2, <2>3 DEF db
<1>7. CASE AssignApplication(r)
    <2>1. req[r].loaded.hash = row.hash /\ ~Renewing(req[r])
        BY <1>1, <1>7 DEF AssignApplication, Begins, At, InHand, Renewing
    <2>. DEFINE d == [row EXCEPT !.application = Application]
                c == [Copy(r) EXCEPT !.application = Application]
    <2>2. d \in Row /\ d.hash = row.hash /\ c \in Row
        BY <1>2 DEF Row, Owner
    <2>3. \/ Finish(r) /\ UNCHANGED <<db, commands>>
          \/ Save(d) /\ Continue(r, "send", c)
        BY <1>7 DEF AssignApplication
    <2>. HIDE DEF d, c
    <2> QED
        BY <1>3, <1>4, <2>1, <2>2, <2>3 DEF Save
<1>8. CASE Unassign(r)
    <2>1. req[r].loaded.hash = row.hash /\ ~Renewing(req[r])
        BY <1>1, <1>8 DEF Unassign, Begins, At, InHand, Renewing
    <2>2. CASE Finish(r) /\ UNCHANGED <<db, commands>>
        BY <1>3, <2>1, <2>2
    <2>3. CASE ~(Finish(r) /\ UNCHANGED <<db, commands>>)
        <3>1. PICK owner \in {"project", "application"} :
                /\ Save([row EXCEPT ![owner] = None])
                /\ Continue(r, "saveTarget", [Copy(r) EXCEPT ![owner] = None, !.target = None])
            BY <1>8, <2>3 DEF Unassign
        <3>. DEFINE d == [row EXCEPT ![owner] = None]
                    c == [Copy(r) EXCEPT ![owner] = None, !.target = None]
        <3>2. d \in Row /\ d.hash = row.hash /\ c \in Row
            <4>1. CASE owner = "project"
                BY <1>2, <4>1 DEF Row, Owner, Target
            <4>2. CASE owner = "application"
                BY <1>2, <4>2 DEF Row, Owner, Target
            <4> QED
                BY <4>1, <4>2
        <3>3. Save(d) /\ Continue(r, "saveTarget", c)
            BY <3>1
        <3>. HIDE DEF d, c
        <3> QED
            BY <1>4, <2>1, <3>2, <3>3 DEF Save
    <2> QED
        BY <2>2, <2>3
<1> QED
    BY <1>5, <1>6, <1>7, <1>8

LEMMA TargetSteps ==
    ASSUME OneHandler, Inv, NEW r \in Req,
           SaveTarget(r) \/ SetTarget(r) \/ SetInstanceTarget(r) \/ RetargetDevices(r)
           \/ SendTarget(r)
    PROVE  Inv'
<1>1. Types /\ InHand(req[r])
    BY InvOf
<1>2. /\ Copy(r) \in Row /\ row \in Row /\ req[r] \in Handler /\ req[r].pick \in Target
      /\ Copy(r).target \in Target
    BY <1>1 DEF Types, Handler, Copy, Row
<1>3. CASE SaveTarget(r)
    <2>1. req[r].loaded.hash = row.hash /\ req[r].step = "saveTarget"
        BY <1>1, <1>3 DEF SaveTarget, At, InHand
    <2>2. PICK step \in {"send", "hash"}, d \in {row, [row EXCEPT !.target = Copy(r).target]} :
                /\ Continue(r, step, Copy(r)) /\ row' = d
                /\ UNCHANGED <<exists, instanceTarget, settings, commands>>
        BY <1>3 DEF SaveTarget, Save, db
    <2>3. d \in Row /\ d.hash = row.hash
        BY <1>2, <2>2 DEF Row
    <2>4. /\ req' \in [Req -> Handler] /\ served' = served /\ dev' = dev
          /\ req'[r].step = step /\ req'[r].loaded = req[r].loaded
        BY <1>1, <1>2, <2>2, GoesOn
    <2>5. Types'
        BY <1>1, <2>2, <2>3, <2>4 DEF Types
    <2>6. InHand(req[r])'
        BY <2>1, <2>2, <2>3, <2>4 DEF InHand, Salting
    <2>7. ~Renewing(req[r])
        BY <2>1 DEF Renewing
    <2> QED
        BY <2>2, <2>3, <2>4, <2>5, <2>6, <2>7, HashStays
<1>4. Retargeted(req[r].pick) \in Row /\ Retargeted(req[r].pick).hash = RandomHash(served)
    BY <1>1, <1>2, HashesAreTyped DEF Retargeted, Row, Types
<1>5. CASE SetTarget(r)
    <2>1. /\ row' = Retargeted(req[r].pick) /\ Continue(r, "send", Copy(r))
          /\ UNCHANGED <<exists, instanceTarget, settings, commands>>
        BY <1>5 DEF SetTarget, Save
    <2>2. /\ req' \in [Req -> Handler] /\ served' = served /\ dev' = dev
          /\ req'[r].step = "send"
        BY <1>1, <1>2, <2>1, GoesOn
    <2>3. Types'
        BY <1>1, <1>4, <2>1, <2>2 DEF Types
    <2>4. Salting(req[r])
        BY <1>5 DEF SetTarget, Begins, At, Salting
    <2> QED
        BY <1>4, <2>1, <2>2, <2>3, <2>4, Salted
<1>6. CASE SetInstanceTarget(r)
    <2>1. /\ Continue(r, "retargetDevices", Copy(r)) /\ instanceTarget' = req[r].pick
          /\ UNCHANGED <<row, exists, settings, commands>>
          /\ req[r].op = "instanceTarget" /\ req[r].step = "begin"
        BY <1>6 DEF SetInstanceTarget, Begins, At
    <2>2. /\ req' \in [Req -> Handler] /\ served' = served /\ dev' = dev
          /\ req'[r].step = "retargetDevices" /\ req'[r].op = "instanceTarget"
        BY <1>1, <1>2, <2>1, GoesOn
    <2>3. Types'
        BY <1>1, <1>2, <2>1, <2>2 DEF Types
    <2>4. InHand(req[r])'
        BY <1>1, <2>1, <2>2 DEF InHand, Salting
    <2>5. ~Renewing(req[r])
        BY <2>1 DEF Renewing
    <2> QED
        BY <2>1, <2>2, <2>3, <2>4, <2>5, HashStays
<1>7. CASE RetargetDevices(r)
    <2>1. /\ Continue(r, "sendTarget", Copy(r)) /\ req[r].step = "retargetDevices"
          /\ row' = IF row.project = Instance THEN Retargeted(req[r].pick) ELSE row
          /\ UNCHANGED <<exists, instanceTarget, settings, commands>>
        BY <1>7 DEF RetargetDevices, Save, At
    <2>2. /\ req' \in [Req -> Handler] /\ served' = served /\ dev' = dev
          /\ req'[r].step = "sendTarget"
        BY <1>1, <1>2, <2>1, GoesOn
    <2>3. Types'
        BY <1>1, <1>2, <1>4, <2>1, <2>2 DEF Types
    <2>4. Salting(req[r]) /\ ~Renewing(req[r])
        BY <1>1, <2>1 DEF InHand, Salting, Renewing
    <2>5. CASE row.project = Instance
        BY <1>4, <2>1, <2>2, <2>3, <2>4, <2>5, Salted
    <2>6. CASE row.project # Instance
        BY <2>1, <2>2, <2>3, <2>4, <2>6, NothingInHand, HashStays
    <2> QED
        BY <2>5, <2>6
<1>8. CASE SendTarget(r)
    <2>. DEFINE c == [project |-> Keep, application |-> Keep, snapshot |-> req[r].pick,
                      settings |-> NoHash]
    <2>1. c \in Command
        BY <1>2, HashesAreTyped DEF Command
    <2>2. Publish(c) /\ Finish(r) /\ UNCHANGED db /\ req[r].step = "sendTarget"
        BY <1>8 DEF SendTarget, At
    <2>. HIDE DEF c
    <2>3. /\ req' \in [Req -> Handler] /\ served' = served /\ dev' = dev
          /\ req'[r].step = "idle"
        BY <1>1, <2>2, GoesIdle
    <2>4. Types'
        BY <1>1, <2>1, <2>2, <2>3, PublishKeeps DEF Types, db
    <2>5. ~Renewing(req[r])
        BY <2>2 DEF Renewing
    <2> QED
        BY <2>2, <2>3, <2>4, <2>5, NothingInHand, HashStays DEF db
<1> QED
    BY <1>3, <1>5, <1>6, <1>7, <1>8

LEMMA HashSteps ==
    ASSUME OneHandler, Inv, NEW r \in Req,
           WriteSettings(r) \/ ComputeHash(r) \/ SaveHash(r)
    PROVE  Inv'
<1>1. Types /\ HashInv /\ DeviceInv /\ InHand(req[r])
    BY InvOf
<1>2. /\ Copy(r) \in Row /\ row \in Row /\ req[r] \in Handler /\ Copy(r).target \in Target
      /\ settings \in Nat /\ dev.env \in Envs /\ dev.settings \in Hash /\ row.hash \in Hash
      /\ row.hash.env.version \in Nat /\ dev.settings.env.version \in Nat
      /\ dev.env.version \in Nat
    BY <1>1 DEF Types, Handler, Copy, Row, Device, Hash, Envs
<1>3. CASE WriteSettings(r)
    <2>1. /\ Continue(r, "hash", Copy(r)) /\ settings' = settings + 1
          /\ UNCHANGED <<row, exists, instanceTarget, commands>>
          /\ req[r].op = "settings" /\ req[r].step = "begin"
        BY <1>3 DEF WriteSettings, Begins, At
    <2>2. /\ req' \in [Req -> Handler] /\ served' = served /\ dev' = dev
          /\ req'[r].step = "hash" /\ req'[r].op = "settings"
          /\ req'[r].loaded = req[r].loaded
        BY <1>1, <1>2, <2>1, GoesOn
    <2>3. Types'
        BY <1>1, <1>2, <2>1, <2>2 DEF Types
    <2>4. InHand(req[r])'
        BY <1>1, <2>1, <2>2 DEF InHand, Salting
    <2>5. Renewal'
        BY <2>2, Sole DEF Renewing
    <2>6. HashInv'
        BY <1>1, <1>2, <2>1, <2>2, <2>5 DEF HashInv
    <2>7. DeviceInv'
        BY <1>1, <1>2, <2>1, <2>2, <2>5 DEF DeviceInv
    <2> QED
        BY <2>3, <2>4, <2>6, <2>7, Sole DEF Inv
<1>4. CASE ComputeHash(r)
    <2>1. req[r].step = "hash" /\ UNCHANGED <<db, commands>> /\ RenewHash(r, settings)
        BY <1>4 DEF ComputeHash, RenewHash, At
    <2>2. CASE Finish(r) /\ ~exists
        <3>1. /\ req' \in [Req -> Handler] /\ served' = served /\ dev' = dev
              /\ req'[r].step = "idle"
            BY <1>1, <2>2, GoesIdle
        <3>2. Types'
            BY <1>1, <2>1, <3>1 DEF Types, db
        <3>3. InHand(req[r])'
            BY <3>1, NothingInHand
        <3> QED
            BY <2>1, <2>2, <3>1, <3>2, <3>3, HashStays DEF db
    <2>3. CASE ~(Finish(r) /\ ~exists)
        <3>1. PICK q \in {req[r], [req[r] EXCEPT !.loaded = row, !.copy = row,
                                                  !.assoc = row.target]} :
                /\ req' = [req EXCEPT ![r] = [q EXCEPT !.step = "saveHash",
                            !.copy.hash = HashOf(Env(settings, q.copy, q.assoc))]]
                /\ UNCHANGED <<served, intake, dev>>
            BY <2>1, <2>3 DEF RenewHash
        <3>2. q \in Handler /\ q.op = req[r].op /\ q.loaded.hash = row.hash
            BY <1>1, <1>2, <2>1, <3>1 DEF Handler, Row, InHand
        <3>. DEFINE env == Env(settings, q.copy, q.assoc)
                    new == HashOf(env)
                    h == [q EXCEPT !.step = "saveHash", !.copy.hash = new]
        <3>3. q.copy \in Row /\ q.assoc \in Target
            BY <3>2 DEF Handler
        <3>4. new \in Hash /\ new.env.version = settings /\ new.salt = 0
            BY <1>2, <3>3, EnvIsTyped, HashesAreTyped
        <3>. HIDE DEF new
        <3>5. /\ h \in Handler /\ h.step = "saveHash" /\ h.op = req[r].op
              /\ h.loaded = q.loaded /\ h.copy.hash = new
            BY <3>2, <3>3, <3>4 DEF Handler, Row
        <3>6. req' = [req EXCEPT ![r] = h]
            BY <3>1 DEF new
        <3>. HIDE DEF h
        <3>7. req' \in [Req -> Handler] /\ req'[r] = h
            BY <1>1, <3>5, <3>6 DEF Types
        <3>8. Types'
            BY <1>1, <2>1, <3>1, <3>7 DEF Types, db
        <3>9. InHand(req[r])'
            BY <2>1, <3>2, <3>4, <3>5, <3>7 DEF InHand, Salting, db
        <3>10. Renewing(req[r]) => Renewing(req'[r])
            BY <3>5, <3>7 DEF Renewing
        <3> QED
            BY <2>1, <3>1, <3>8, <3>9, <3>10, HashStays DEF db
    <2> QED
        BY <2>2, <2>3
<1>5. CASE SaveHash(r)
    <2>1. /\ Continue(r, "send", Copy(r)) /\ req[r].step = "saveHash"
          /\ row' = IF Copy(r).hash = req[r].loaded.hash THEN row
                    ELSE [row EXCEPT !.hash = Copy(r).hash]
          /\ UNCHANGED <<exists, instanceTarget, settings, commands>>
        BY <1>5 DEF SaveHash, Save, At
    <2>2. /\ req[r].loaded.hash = row.hash /\ Copy(r).hash \in Hash
          /\ Copy(r).hash.env.version = settings /\ Copy(r).hash.salt = 0
        BY <1>1, <1>2, <2>1 DEF InHand, Copy, Row
    <2>3. row' \in Row /\ row'.hash = Copy(r).hash
        BY <1>2, <2>1, <2>2 DEF Row
    <2>4. /\ req' \in [Req -> Handler] /\ served' = served /\ dev' = dev
          /\ req'[r].step = "send"
        BY <1>1, <1>2, <2>1, GoesOn
    <2>5. Types'
        BY <1>1, <2>1, <2>3, <2>4 DEF Types
    <2>6. HashInv'
        BY <1>1, <1>2, <2>1, <2>2, <2>3, <2>4 DEF HashInv, Types
    <2>7. DeviceInv'
        BY <1>1, <2>1, <2>2, <2>3, <2>4 DEF DeviceInv
    <2> QED
        BY <2>4, <2>5, <2>6, <2>7, NothingInHand, Sole DEF Inv
<1> QED
    BY <1>3, <1>4, <1>5

LEMMA LastSteps ==
    ASSUME OneHandler, Inv, NEW r \in Req, SendUpdate(r) \/ Delete(r)
    PROVE  Inv'
<1>1. Types /\ InHand(req[r])
    BY InvOf
<1>2. Copy(r) \in Row /\ row \in Row
    BY <1>1 DEF Types, Handler, Copy
<1>3. Finish(r) /\ ~Renewing(req[r])
    BY DEF SendUpdate, Delete, Begins, At, Renewing
<1>4. /\ req' \in [Req -> Handler] /\ served' = served /\ dev' = dev
      /\ req'[r].step = "idle"
    BY <1>1, <1>3, GoesIdle
<1>5. CASE SendUpdate(r)
    <2>1. UNCHANGED db
          /\ (Publish(UpdateFor(Copy(r))) \/ Publish(UpdateFor(row)) \/ UNCHANGED commands)
        BY <1>5 DEF SendUpdate
    <2>2. commands' \subseteq Command
        BY <1>1, <1>2, <2>1, UpdateIsCommand, PublishKeeps DEF Types
    <2>3. Types'
        BY <1>1, <1>4, <2>1, <2>2 DEF Types, db
    <2> QED
        BY <1>3, <1>4, <2>1, <2>3, NothingInHand, HashStays DEF db
<1>6. CASE Delete(r)
    <2>1. exists' = FALSE /\ UNCHANGED <<row, instanceTarget, settings, commands>>
        BY <1>6 DEF Delete
    <2>2. Types'
        BY <1>1, <1>4, <2>1 DEF Types
    <2> QED
        BY <1>3, <1>4, <2>1, <2>2, NothingInHand, HashStays
<1> QED
    BY <1>5, <1>6

-----------------------------------------------------------------------------
(* The steps of reports, messages and the device *)

\* A step that leaves the rows and the requests alone.
LEMMA Elsewhere ==
    ASSUME Inv, UNCHANGED <<db, handlers>>, Types', DeviceInv',
           dev'.settings = dev.settings \/ dev'.settings = row.hash
    PROVE  Inv'
<1>1. Types /\ HashInv /\ \A r \in Req : InHand(req[r])
    BY DEF Inv
<1>2. /\ row' = row /\ exists' = exists /\ settings' = settings /\ req' = req
      /\ served' = served
    BY DEF db, handlers
<1>3. HashInv'
    BY <1>1, <1>2 DEF HashInv, Renewal
<1>4. row.hash.salt \in Nat /\ served \in Nat
    BY <1>1 DEF Types, Row, Hash
<1>5. ASSUME NEW r \in Req PROVE InHand(req[r])'
    <2>1. Salting(req[r]) => dev'.settings.salt # served
        BY <1>1, <1>4 DEF InHand
    <2> QED
        BY <1>1, <1>2, <2>1 DEF InHand, Salting
<1> QED
    BY <1>3, <1>5 DEF Inv

LEMMA DeviceSteps ==
    ASSUME Inv, Takes \/ Fetches
    PROVE  Inv'
<1>1. Types /\ HashInv /\ DeviceInv
    BY DEF Inv
<1>2. dev \in Device /\ dev.step \in {"idle", "fetchSnapshot", "fetchSettings", "fetchEnv"}
      /\ dev.settings \in Hash /\ dev.env \in Envs /\ settings \in Nat
      /\ row \in Row /\ row.hash \in Hash /\ row.target \in Target
    BY <1>1 DEF Types, Device, Row
<1>3. ASSUME NEW c \in commands, Take(c) PROVE Inv'
    <2>1. c \in Command /\ c.project \in Owner \cup {Keep} /\ c.application \in Owner \cup {Keep}
        BY <1>1 DEF Types, Command
    <2>2. Given(c.project, dev.project) \in Owner
        BY <1>2, <2>1 DEF Given, Device
    <2>3. (IF dev.legacy THEN None ELSE Given(c.application, dev.application)) \in Owner
        BY <1>2, <2>1 DEF Given, Device, Owner
    <2>4. PICK p \in Owner, a \in Owner, s \in Target \cup {Starter},
               step \in {"idle", "fetchSnapshot", "fetchSettings"} :
            dev' = [dev EXCEPT !.project = p, !.application = a, !.snapshot = s, !.step = step]
        <3>1. (IF c.snapshot = None THEN None ELSE dev.snapshot) \in Target \cup {Starter}
            BY <1>2 DEF Device, Target
        <3> QED
            BY <1>3, <2>2, <2>3, <3>1 DEF Take
    <2>5. /\ dev' \in Device /\ dev'.settings = dev.settings /\ dev'.env = dev.env
          /\ dev'.step = step
        BY <1>2, <2>4 DEF Device
    <2>6. dev.step = "idle" /\ commands' \subseteq commands /\ UNCHANGED <<db, handlers>>
        BY <1>3 DEF Take
    <2>7. Types'
        BY <1>1, <2>5, <2>6 DEF Types, db, handlers
    <2>8. DeviceInv'
        BY <1>1, <2>5, <2>6 DEF DeviceInv, Renewal, db, handlers
    <2> QED
        BY <2>5, <2>6, <2>7, <2>8, Elsewhere
<1>4. CASE FetchSnapshot
    <2>1. PICK s \in Target \cup {Starter} :
                dev' = [dev EXCEPT !.snapshot = s, !.step = "fetchSettings"]
        BY <1>2, <1>4 DEF FetchSnapshot, Target
    <2>2. /\ dev' \in Device /\ dev'.settings = dev.settings /\ dev'.env = dev.env
          /\ dev'.step = "fetchSettings"
        BY <1>2, <2>1 DEF Device
    <2>3. dev.step = "fetchSnapshot" /\ UNCHANGED <<db, handlers, commands>>
        BY <1>4 DEF FetchSnapshot
    <2>4. Types'
        BY <1>1, <2>2, <2>3 DEF Types, db, handlers
    <2>5. DeviceInv'
        BY <1>1, <2>2, <2>3 DEF DeviceInv, Renewal, db, handlers
    <2> QED
        BY <2>2, <2>3, <2>4, <2>5, Elsewhere
<1>5. CASE FetchHash
    <2>. DEFINE env == Env(dev.env.version, row, row.target)
    <2>1. /\ dev' = [dev EXCEPT !.settings = row.hash, !.env = env, !.step = "fetchEnv"]
          /\ UNCHANGED <<db, handlers, commands>>
        BY <1>5 DEF FetchHash
    <2>2. env \in Envs /\ env.version = dev.env.version
        BY <1>2, EnvIsTyped DEF Envs
    <2>. HIDE DEF env
    <2>3. /\ dev' \in Device /\ dev'.settings = row.hash
          /\ dev'.env.version = dev.env.version /\ dev'.step = "fetchEnv"
        BY <1>2, <2>1, <2>2 DEF Device
    <2>4. Types'
        BY <1>1, <2>1, <2>3 DEF Types, db, handlers
    <2>5. DeviceInv'
        BY <1>1, <2>1, <2>3 DEF DeviceInv, HashInv, db
    <2>6. HashInv' /\ \A r \in Req : InHand(req[r])'
        <3>1. \A r \in Req : InHand(req[r])
            BY DEF Inv
        <3>2. /\ row' = row /\ exists' = exists /\ settings' = settings /\ req' = req
              /\ served' = served
            BY <2>1 DEF db, handlers
        <3>3. HashInv'
            BY <1>1, <2>3, <3>2 DEF HashInv, Renewal
        <3>4. \A r \in Req : InHand(req[r])'
            BY <1>2, <2>3, <3>1, <3>2 DEF InHand, Salting, Hash, Types
        <3> QED
            BY <3>3, <3>4
    <2> QED
        BY <2>4, <2>5, <2>6 DEF Inv
<1>6. CASE FetchEnv
    <2>1. /\ dev' = [dev EXCEPT !.env.version = settings, !.step = "idle"]
          /\ UNCHANGED <<db, handlers, commands>>
        BY <1>6 DEF FetchEnv
    <2>. DEFINE env == [dev.env EXCEPT !.version = settings]
    <2>2. /\ dev' \in Device /\ dev'.settings = dev.settings /\ dev'.env.version = settings
          /\ dev'.step = "idle"
        <3>1. env \in Envs /\ env.version = settings
            BY <1>2 DEF Envs
        <3>2. dev' = [dev EXCEPT !.env = env, !.step = "idle"]
            BY <1>2, <2>1 DEF Device
        <3>. HIDE DEF env
        <3> QED
            BY <1>2, <3>1, <3>2 DEF Device
    <2>3. Types'
        BY <1>1, <2>1, <2>2 DEF Types, db, handlers
    <2>4. dev.settings.salt = 0 => dev.settings.env.version <= settings
        BY <1>1, <1>2 DEF DeviceInv
    <2>5. DeviceInv'
        BY <1>2, <2>1, <2>2, <2>4 DEF DeviceInv, db
    <2> QED
        BY <2>1, <2>2, <2>3, <2>5, Elsewhere
<1>7. CASE FetchFails
    <2>1. /\ dev' = [dev EXCEPT !.step = "idle"] /\ ~exists
          /\ UNCHANGED <<db, handlers, commands>>
        BY <1>7 DEF FetchFails
    <2>2. dev' \in Device /\ dev'.settings = dev.settings /\ dev'.env = dev.env
        BY <1>2, <2>1 DEF Device
    <2>3. Types'
        BY <1>1, <2>1, <2>2 DEF Types, db, handlers
    <2>4. DeviceInv'
        BY <1>1, <2>1, <2>2 DEF DeviceInv, db
    <2> QED
        BY <2>1, <2>2, <2>3, <2>4, Elsewhere
<1> QED
    BY <1>3, <1>4, <1>5, <1>6, <1>7 DEF Takes, Fetches

LEMMA MessageSteps ==
    ASSUME Inv, \/ Report \/ LoadsReport \/ ComparesReport
                \/ \E m \in reports : LoseReport(m)
                \/ \E c \in commands : LoseCommand(c)
    PROVE  Inv'
<1>1. Types /\ DeviceInv
    BY DEF Inv
<1>2. UNCHANGED <<db, handlers, dev>>
    BY DEF Report, LoadsReport, LoadReported, ComparesReport, CompareReport, LoseReport, LoseCommand
<1>3. commands' \subseteq Command
    <2>1. \/ commands' \subseteq commands
          \/ Publish(UpdateFor(row))
        BY DEF Report, LoadsReport, LoadReported, ComparesReport, CompareReport, LoseReport,
               LoseCommand
    <2> QED
        BY <1>1, <2>1, UpdateIsCommand, PublishKeeps DEF Types
<1>4. Types'
    BY <1>1, <1>2, <1>3 DEF Types, db, handlers
<1>5. DeviceInv'
    BY <1>1, <1>2 DEF DeviceInv, Renewal, db, handlers
<1> QED
    BY <1>2, <1>4, <1>5, Elsewhere

-----------------------------------------------------------------------------
(* The theorem *)

LEMMA Inductive ==
    ASSUME OneHandler
    PROVE  Spec => []Inv
<1>1. Init => Inv
    <2>1. SUFFICES ASSUME Init PROVE Inv
        OBVIOUS
    <2>2. PICK legacy \in BOOLEAN :
            dev = [project |-> None, application |-> None, snapshot |-> None, settings |-> NoHash,
                   env |-> FirstEnv, step |-> "idle", legacy |-> legacy]
        BY <2>1, FlagsAssumption DEF Init
    <2>3. /\ dev \in Device /\ dev.settings = NoHash /\ dev.env = FirstEnv /\ dev.step = "idle"
        BY <2>2, HashesAreTyped DEF Device, Owner, Target
    <2>4. FirstRow \in Row /\ FirstRow.hash.env.version = 0 /\ FirstRow.hash.salt = 0
        BY IdleIsHandler, HashesAreTyped DEF FirstRow
    <2>5. Types
        BY <2>1, <2>3, <2>4, IdleIsHandler DEF Init, Types, Target, Snapshots
    <2>6. HashInv
        BY <2>1, <2>3, <2>4, HashesAreTyped, BoundsAssumption DEF Init, HashInv
    <2>7. FirstRow.hash # NoHash
        BY <2>4, HashesAreTyped, BoundsAssumption
    <2>8. DeviceInv
        BY <2>1, <2>3, <2>7, HashesAreTyped, BoundsAssumption DEF Init, DeviceInv
    <2>9. \A r \in Req : InHand(req[r])
        BY <2>1, IdleIsHandler DEF Init, InHand, Salting
    <2> QED
        BY <2>5, <2>6, <2>8, <2>9 DEF Inv
<1>2. Inv /\ [Next]_vars => Inv'
    <2>1. ASSUME Inv, NEW r \in Req, Request(r) PROVE Inv'
        BY <2>1, Loading, OwnerSteps, TargetSteps, HashSteps, LastSteps DEF Request
    <2>2. ASSUME Inv, Next PROVE Inv'
        BY <2>1, <2>2, DeviceSteps, MessageSteps DEF Next
    <2>3. ASSUME Inv, UNCHANGED vars PROVE Inv'
        <3>1. UNCHANGED <<db, handlers, commands, dev>>
            BY <2>3 DEF vars
        <3>2. Types' /\ DeviceInv'
            BY <2>3, <3>1 DEF Inv, Types, DeviceInv, Renewal, db, handlers
        <3> QED
            BY <2>3, <3>1, <3>2, Elsewhere
    <2> QED
        BY <2>2, <2>3
<1> QED
    BY <1>1, <1>2, PTL DEF Spec

\* With one request at a time (updateSettingsHash, the hooks of db/models/Device.js), a device that
\* has the settings hash of its row has the settings, whatever was changed, lost and delayed.
THEOREM HashMeansSettings ==
    ASSUME OneHandler
    PROVE  Spec => []HashCoversSettings
<1>1. ASSUME Inv PROVE HashCoversSettings
    <2>1. SUFFICES ASSUME exists, \A r \in Req : At(r, "idle"), dev.step = "idle",
                          dev.settings = row.hash
                   PROVE  dev.env.version = settings
        BY DEF HashCoversSettings
    <2>2. ~Renewal
        BY <2>1 DEF Renewal, Renewing, At
    <2>3. settings \in Nat /\ dev.env.version \in Nat /\ row.hash.env.version \in Nat
        BY <1>1 DEF Inv, Types, Device, Row, Hash, Envs
    <2>4. CASE row.hash.salt = 0
        BY <1>1, <2>1, <2>2, <2>3, <2>4 DEF Inv, HashInv, DeviceInv
    <2>5. CASE row.hash.salt # 0
        BY <1>1, <2>1, <2>2, <2>5 DEF Inv, DeviceInv
    <2> QED
        BY <2>4, <2>5
<1> QED
    BY <1>1, Inductive, PTL
=============================================================================
