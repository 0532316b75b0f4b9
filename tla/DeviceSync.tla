----------------------------- MODULE DeviceSync -----------------------------
(***************************************************************************)
(* How a device is brought to what its row says: the report handler of     *)
(* comms/devices.js (handleStatus), sendDeviceUpdateCommand                *)
(* (db/controllers/Device.js), the requests that change the row            *)
(* (routes/api/device.js, routes/api/projectDevices.js) with the settings  *)
(* hash that the hooks of db/models/Device.js maintain, and what the       *)
(* device fetches (routes/api/deviceLive.js).                              *)
(*                                                                         *)
(* There is one device, one instance and one application.  A request       *)
(* handler holds the copy of the row its preHandler loaded; a save writes  *)
(* the attributes that differ from it.  Reports and commands travel over   *)
(* MQTT: they are delayed, reordered and lost.  Name, type and mode of the *)
(* device, its group and its state are left out, and so is the report      *)
(* `null` of a device that is busy, which only sets its state.  Of the     *)
(* env vars the platform adds, those of the application and of the target  *)
(* snapshot are kept: FF_APPLICATION_* and FF_SNAPSHOT_*.                  *)
(***************************************************************************)
EXTENDS Naturals, FiniteSets

CONSTANTS
    Req,                \* slots for request handlers
    Ops,                \* the operations they may run: a subset of AllOps
    MaxOps,             \* requests per behaviour
    MaxMessages,        \* reports under way, reports being handled and commands under way at a time
    InstanceSnapshots,  \* the snapshots of the instance
    OtherSnapshots,     \* other snapshots of the team
    Reassigns,          \* whether a device is assigned before it is unassigned
    Agents              \* whether the device's agent is older than 1.11.0: a subset of BOOLEAN

AllOps == {"assignInstance", "assignApplication", "unassign", "target",
           "instanceTarget", "settings", "delete"}

ASSUME BoundsAssumption == MaxOps \in Nat /\ MaxMessages \in Nat \ {0}
ASSUME OpsAssumption == Ops \subseteq AllOps
ASSUME FlagsAssumption == Reassigns \in BOOLEAN /\ Agents \subseteq BOOLEAN

Snapshots == InstanceSnapshots \cup OtherSnapshots
None == "none"
Starter == "starter"    \* snapshot '0'
Keep == "keep"          \* a property the command does not have
Instance == "instance"
Application == "application"

ASSUME SnapshotsAssumption ==
    /\ InstanceSnapshots \cap OtherSnapshots = {}
    /\ Snapshots \cap {None, Starter, Keep} = {}

VARIABLES
    row,            \* the device: project, application, target, hash
    exists,         \* whether the row is still there
    instanceTarget, \* targetSnapshot of the instance's deviceSettings
    settings,       \* the version of the device's own settings, its env vars included
    req,            \* each handler: next step, operation, the row as loaded and the copy it
                    \* has changed, the target snapshot loaded with it (its association), the
                    \* snapshot the request is about
    reports, handling,      \* reports under way; reports with the copy they are compared with
    commands,       \* update commands under way
    dev,            \* the device: project, application, snapshot, settings (the hash it was
                    \* given) and env; its next step; whether its agent is older than 1.11.0
    served          \* requests so far

db == <<row, exists, instanceTarget, settings>>
handlers == <<req, served>>
intake == <<reports, handling>>
vars == <<db, handlers, intake, commands, dev>>

ApplicationOwned(d) == d.project = None /\ d.application # None

\* A version of the settings, with the platform's env vars for device d and this target snapshot.
Env(version, d, snapshot) ==
    [version |-> version,
     application |-> IF ApplicationOwned(d) THEN d.application ELSE None,
     snapshot |-> IF snapshot = None /\ ApplicationOwned(d) THEN Starter ELSE snapshot]
FirstEnv == [version |-> 0, application |-> None, snapshot |-> None]

\* settingsHash: of an env, or random (of request n).
HashOf(env) == [env |-> env, salt |-> 0]
RandomHash(n) == [env |-> FirstEnv, salt |-> n]
NoHash == RandomHash(MaxOps + 1)

FirstRow == [project |-> None, application |-> None, target |-> None, hash |-> HashOf(FirstEnv)]
Idle == [step |-> "idle", op |-> "settings", loaded |-> FirstRow, copy |-> FirstRow,
         assoc |-> None, pick |-> None]

Init ==
    /\ row = FirstRow
    /\ exists = TRUE
    /\ instanceTarget \in InstanceSnapshots \cup {None}
    /\ settings = 0
    /\ req = [r \in Req |-> Idle]
    /\ reports = {} /\ handling = {} /\ commands = {}
    /\ \E legacy \in Agents :
            dev = [project |-> None, application |-> None, snapshot |-> None, settings |-> NoHash,
                   env |-> FirstEnv, step |-> "idle", legacy |-> legacy]
    /\ served = 0

-----------------------------------------------------------------------------
(* sendDeviceUpdateCommand *)

\* The device's target; for a device that no application owns, if it is of the device's instance.
TargetOf(d) ==
    IF ApplicationOwned(d) \/ (d.project = Instance /\ d.target \in InstanceSnapshots)
    THEN d.target ELSE None

UpdateFor(d) ==
    IF ~ApplicationOwned(d)
    THEN [project |-> d.project, application |-> None, snapshot |-> TargetOf(d),
          settings |-> d.hash]
    ELSE IF dev.legacy
    THEN [project |-> None, application |-> d.application, snapshot |-> None, settings |-> NoHash]
    ELSE [project |-> None, application |-> d.application,
          snapshot |-> IF d.target = None THEN Starter ELSE d.target, settings |-> d.hash]

\* A message more than MaxMessages replaces another, which is lost.
Publish(c) ==
    \/ Cardinality(commands \cup {c}) <= MaxMessages /\ commands' = commands \cup {c}
    \/ \E lost \in commands :
            Cardinality(commands) = MaxMessages /\ commands' = (commands \ {lost}) \cup {c}

-----------------------------------------------------------------------------
(* Requests.  Each ends with the update command for the device. *)

At(r, step) == req[r].step = step
Begins(r, op) == At(r, "begin") /\ req[r].op = op
Copy(r) == req[r].copy

Load(r, op) ==
    /\ At(r, "idle") /\ exists /\ served < MaxOps
    /\ op \in {"assignInstance", "assignApplication"} =>
            Reassigns \/ (row.project = None /\ row.application = None)
    /\ served' = served + 1
    /\ \E s \in CASE op = "target" -> Snapshots
                  [] op = "instanceTarget" -> InstanceSnapshots
                  [] OTHER -> {None} :
            req' = [req EXCEPT ![r] = [step |-> "begin", op |-> op, loaded |-> row, copy |-> row,
                                       assoc |-> row.target, pick |-> s]]
    /\ UNCHANGED <<db, intake, commands, dev>>

Continue(r, step, copy) ==
    /\ req' = [req EXCEPT ![r].step = step, ![r].copy = copy]
    /\ UNCHANGED <<served, intake, dev>>

Finish(r) ==
    /\ req' = [req EXCEPT ![r] = Idle]
    /\ UNCHANGED <<served, intake, dev>>

Save(newRow) == row' = newRow /\ UNCHANGED <<exists, instanceTarget, settings, commands>>

\* device.setProject(project) saves the project alone.
AssignInstance(r) ==
    /\ Begins(r, "assignInstance")
    /\ IF Copy(r).project = Instance
       THEN Finish(r) /\ UNCHANGED <<db, commands>>
       ELSE /\ Save([row EXCEPT !.project = Instance])
            /\ Continue(r, "inheritTarget", [Copy(r) EXCEPT !.project = Instance])

\* The target of the instance is read; it is saved later.
InheritTarget(r) ==
    /\ At(r, "inheritTarget")
    /\ Continue(r, "saveTarget", [Copy(r) EXCEPT !.target = instanceTarget])
    /\ UNCHANGED <<db, commands>>

\* device.setApplication(application); neither the instance nor the target is cleared.
AssignApplication(r) ==
    /\ Begins(r, "assignApplication")
    /\ IF Copy(r).application = Application
       THEN Finish(r) /\ UNCHANGED <<db, commands>>
       ELSE /\ Save([row EXCEPT !.application = Application])
            /\ Continue(r, "send", [Copy(r) EXCEPT !.application = Application])

\* The request names the owner to clear; the owner is cleared, then the target, each in a save of
\* its own.
Unassign(r) ==
    /\ Begins(r, "unassign")
    /\ \E owner \in {"project", "application"} :
            IF Copy(r)[owner] = None
            THEN Finish(r) /\ UNCHANGED <<db, commands>>
            ELSE /\ Save([row EXCEPT ![owner] = None])
                 /\ Continue(r, "saveTarget", [Copy(r) EXCEPT ![owner] = None, !.target = None])

\* device.save(): the afterSave hook renews the hash of a device whose target has changed.
SaveTarget(r) ==
    /\ At(r, "saveTarget")
    /\ IF Copy(r).target = req[r].loaded.target
       THEN Continue(r, "send", Copy(r)) /\ UNCHANGED <<db, commands>>
       ELSE Continue(r, "hash", Copy(r)) /\ Save([row EXCEPT !.target = Copy(r).target])

\* Device.update(): the beforeBulkUpdate hook adds a random hash.
Retargeted(s) == [row EXCEPT !.target = s, !.hash = RandomHash(served)]

\* PUT with a targetSnapshot: any snapshot of the team.
SetTarget(r) ==
    /\ Begins(r, "target")
    /\ Save(Retargeted(req[r].pick))
    /\ Continue(r, "send", Copy(r))

SetInstanceTarget(r) ==
    /\ Begins(r, "instanceTarget")
    /\ instanceTarget' = req[r].pick
    /\ Continue(r, "retargetDevices", Copy(r))
    /\ UNCHANGED <<row, exists, settings, commands>>

RetargetDevices(r) ==
    /\ At(r, "retargetDevices")
    /\ Save(IF row.project = Instance THEN Retargeted(req[r].pick) ELSE row)
    /\ Continue(r, "sendTarget", Copy(r))

\* sendCommandToProjectDevices: the command names the snapshot alone.
SendTarget(r) ==
    /\ At(r, "sendTarget")
    /\ Publish([project |-> Keep, application |-> Keep, snapshot |-> req[r].pick,
                settings |-> NoHash])
    /\ Finish(r)
    /\ UNCHANGED db

WriteSettings(r) ==
    /\ Begins(r, "settings")
    /\ settings' = settings + 1
    /\ Continue(r, "hash", Copy(r))
    /\ UNCHANGED <<row, exists, instanceTarget, commands>>

\* updateSettingsHash: of the copy and of the target loaded with it, which may not be the target
\* of the copy any more.  A copy whose target has not been loaded is loaded again, its owner and
\* its hash with it; that throws when the device is gone.
RenewHash(r, version) ==
    LET reloads == Copy(r).target # None /\ req[r].assoc = None
        q == IF reloads THEN [req[r] EXCEPT !.loaded = row, !.copy = row, !.assoc = row.target]
             ELSE req[r]
        hash == HashOf(Env(version, q.copy, q.assoc))
    IN
    /\ At(r, "hash")
    /\ IF reloads /\ ~exists THEN Finish(r)
       ELSE /\ req' = [req EXCEPT ![r] = [q EXCEPT !.step = "saveHash", !.copy.hash = hash]]
            /\ UNCHANGED <<served, intake, dev>>
    /\ UNCHANGED <<db, commands>>

HashAsLoaded(r) ==      \* mutant: of the settings as they were when the device was loaded
    RenewHash(r, req[r].loaded.hash.env.version)

ComputeHash(r) == RenewHash(r, settings)

SaveHash(r) ==
    /\ At(r, "saveHash")
    /\ Save(IF Copy(r).hash = req[r].loaded.hash THEN row ELSE [row EXCEPT !.hash = Copy(r).hash])
    /\ Continue(r, "send", Copy(r))

\* PUT loads the device again for the command; a settings request sends its copy.
SendUpdate(r) ==
    /\ At(r, "send")
    /\ IF req[r].op = "settings" THEN Publish(UpdateFor(Copy(r)))
       ELSE IF exists THEN Publish(UpdateFor(row)) ELSE UNCHANGED commands
    /\ Finish(r)
    /\ UNCHANGED db

Delete(r) ==
    /\ Begins(r, "delete")
    /\ exists' = FALSE
    /\ Finish(r)
    /\ UNCHANGED <<row, instanceTarget, settings, commands>>

Request(r) ==
    \/ \E op \in Ops : Load(r, op)
    \/ AssignInstance(r) \/ InheritTarget(r) \/ AssignApplication(r) \/ Unassign(r)
    \/ SaveTarget(r) \/ SetTarget(r)
    \/ SetInstanceTarget(r) \/ RetargetDevices(r) \/ SendTarget(r)
    \/ WriteSettings(r) \/ ComputeHash(r) \/ SaveHash(r)
    \/ SendUpdate(r) \/ Delete(r)

-----------------------------------------------------------------------------
(* Reports *)

Own(d) == [project |-> d.project, application |-> d.application,
           snapshot |-> d.snapshot, settings |-> d.settings]

\* The device reports now and then, and reports "unknown" until it has been confirmed.
Report ==
    /\ dev.step = "idle" /\ Cardinality(reports) < MaxMessages
    /\ \E unknown \in BOOLEAN :
            /\ unknown => served = 0 /\ dev.settings = NoHash
            /\ reports' = reports \cup {[has |-> Own(dev), unknown |-> unknown]}
    /\ UNCHANGED <<db, handlers, handling, commands, dev>>

\* The handler loads the device and stores the report's state.
LoadReported(m) ==
    /\ m \in reports /\ Cardinality(handling) < MaxMessages
    /\ reports' = reports \ {m}
    /\ handling' = IF exists THEN handling \cup {[report |-> m, copy |-> row]} ELSE handling
    /\ UNCHANGED <<db, handlers, commands, dev>>

NullIfStarter(snapshot) == IF snapshot = Starter THEN None ELSE snapshot

\* A device reports an instance and an application, one of them or both null.
OwnerDiffers(m, d) == m.project # d.project \/ m.application # d.application

RawSnapshotDiffers(m, d) ==     \* mutant: '0' is compared as it is
    \/ m.snapshot # d.target
    \/ /\ m.snapshot \in Snapshots /\ ~ApplicationOwned(d)
       /\ m.project # (IF m.snapshot \in InstanceSnapshots THEN Instance ELSE None)

SnapshotDiffers(m, d) ==
    \/ NullIfStarter(m.snapshot) # d.target
    \/ /\ m.snapshot \in Snapshots /\ ~ApplicationOwned(d)
       /\ m.project # (IF m.snapshot \in InstanceSnapshots THEN Instance ELSE None)

NeedsUpdate(m, d) ==
    \/ m.unknown
    \/ ApplicationOwned(d) /\ dev.legacy
    \/ OwnerDiffers(m.has, d)
    \/ SnapshotDiffers(m.has, d)
    \/ m.has.settings # d.hash

\* The command is for the device as it is now; one that has gone meanwhile ends the handler with an
\* exception.
CompareReport(h) ==
    /\ h \in handling
    /\ handling' = handling \ {h}
    /\ IF NeedsUpdate(h.report, h.copy) /\ exists
       THEN Publish(UpdateFor(row)) ELSE UNCHANGED commands
    /\ UNCHANGED <<db, handlers, reports, dev>>

-----------------------------------------------------------------------------
(* The device.  Its agent is not part of the platform: it compares a command with what it has *)
(* and fetches the snapshot and the settings that differ.                                     *)

Given(value, current) == IF value = Keep THEN current ELSE value

Take(c) ==
    /\ c \in commands /\ dev.step = "idle"
    /\ commands' = commands \ {c}
    /\ dev' = [dev EXCEPT
                !.project = Given(c.project, @),
                !.application = IF dev.legacy THEN None ELSE Given(c.application, @),
                !.snapshot = IF c.snapshot = None THEN None ELSE @,
                !.step = IF c.snapshot # None /\ c.snapshot # dev.snapshot THEN "fetchSnapshot"
                         ELSE IF c.settings \notin {dev.settings, NoHash}
                         THEN "fetchSettings" ELSE "idle"]
    /\ UNCHANGED <<db, handlers, intake>>

\* GET /live/snapshot: the target of the row.
FetchSnapshot ==
    /\ dev.step = "fetchSnapshot" /\ exists
    /\ dev' = [dev EXCEPT
                !.snapshot = IF row.target # None THEN row.target
                             ELSE IF ApplicationOwned(row) /\ ~dev.legacy THEN Starter ELSE None,
                !.step = "fetchSettings"]
    /\ UNCHANGED <<db, handlers, intake, commands>>

\* GET /live/settings: the hash and the platform's env vars, of the row as its preHandler loads
\* it, then the settings.
FetchHash ==
    /\ dev.step = "fetchSettings" /\ exists
    /\ dev' = [dev EXCEPT !.settings = row.hash, !.env = Env(@.version, row, row.target),
                          !.step = "fetchEnv"]
    /\ UNCHANGED <<db, handlers, intake, commands>>

FetchEnv ==
    /\ dev.step = "fetchEnv" /\ exists
    /\ dev' = [dev EXCEPT !.env.version = settings, !.step = "idle"]
    /\ UNCHANGED <<db, handlers, intake, commands>>

FetchFails ==
    /\ dev.step # "idle" /\ ~exists
    /\ dev' = [dev EXCEPT !.step = "idle"]
    /\ UNCHANGED <<db, handlers, intake, commands>>

LoseReport(m) ==
    /\ m \in reports
    /\ reports' = reports \ {m}
    /\ UNCHANGED <<db, handlers, handling, commands, dev>>

LoseCommand(c) ==
    /\ c \in commands
    /\ commands' = commands \ {c}
    /\ UNCHANGED <<db, handlers, intake, dev>>

LoadsReport == \E m \in reports : LoadReported(m)
ComparesReport == \E h \in handling : CompareReport(h)
Takes == \E c \in commands : Take(c)
Fetches == FetchSnapshot \/ FetchHash \/ FetchEnv \/ FetchFails

Next ==
    \/ \E r \in Req : Request(r)
    \/ Report \/ LoadsReport \/ ComparesReport \/ Takes \/ Fetches
    \/ \E m \in reports : LoseReport(m)
    \/ \E c \in commands : LoseCommand(c)

Spec == Init /\ [][Next]_vars

FairSpec ==
    /\ Spec
    /\ \A r \in Req : WF_vars(Request(r) /\ ~At(r, "idle"))
    /\ WF_vars(Report) /\ SF_vars(LoadsReport) /\ WF_vars(ComparesReport)
    /\ SF_vars(Takes) /\ WF_vars(Fetches)

-----------------------------------------------------------------------------
(* Properties *)

InSync ==
    /\ dev.project = row.project
    /\ dev.application = (IF ApplicationOwned(row) THEN row.application ELSE None)
    /\ NullIfStarter(dev.snapshot) = row.target
    /\ dev.settings = row.hash

\* Once the requests end, the device has the owner, the target and the settings of its row for
\* good, and is sent no more commands, however the messages before were delayed or lost.  A device
\* of an application whose agent is too old runs no snapshot.  (A device with a target that is not
\* of its instance is sent commands without end.)
Converges ==
    <>[](exists =>
            IF ApplicationOwned(row) /\ dev.legacy THEN dev.snapshot = None
            ELSE TargetOf(row) = row.target => InSync /\ commands = {})

\* A device that has the settings hash of its row has the device's own settings as they are: a
\* request that changes them renews the hash after it has stored them, whichever copy it hashes,
\* and the device is given the hash before it is given the settings.  (Two settings requests at
\* work together may leave the hash of the older settings.  The platform's env vars may be old: a
\* change of owner renews no hash, and one of the target may renew it with the old target.)
HashCoversSettings ==
    exists /\ (\A r \in Req : At(r, "idle")) /\ dev.step = "idle" /\ dev.settings = row.hash
        => dev.env.version = settings
=============================================================================
