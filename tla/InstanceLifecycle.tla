-------------------------- MODULE InstanceLifecycle --------------------------
(***************************************************************************)
(* The life of one hosted instance as the forge application manages it.    *)
(*                                                                         *)
(* Every request handler, scheduled task and launcher report that changes  *)
(* an instance works on its own copy of the Project row, loaded when it    *)
(* begins, and interleaves with the others wherever it awaits.  A handler  *)
(* is therefore a program: the sequence of awaited steps its source takes, *)
(* given the state its copy held when it was loaded.  `todo' is what is    *)
(* left of that program; a step that throws replaces it by the handler of  *)
(* the exception.  The shared state is the row, the in-memory caches of    *)
(* forge/db/controllers/Project.js, the container and the Stripe item.     *)
(***************************************************************************)
EXTENDS Naturals, Sequences

CONSTANTS
    Req,        \* slots for handlers that may be active at the same time
    Ops,        \* the operations requested in this instance of the model
    Faults,     \* the things outside the handlers that may go wrong
    InitRow,    \* the state of the row the run starts with
    MaxOps      \* bound: operations requested in a behaviour

RowStates == {"running", "stopped", "suspended", "deleting"}
Transitions == {"starting", "stopping", "restarting", "suspending",
                "rollback", "importing"}
BoxStates == {"none", "suspended", "starting", "running", "stopped", "crashed"}
FaultKinds == {"license",   \* the platform licence has expired
               "billing",   \* checkInstanceStartAllowed refuses
               "stripe",    \* the subscription cannot be read from Stripe
               "stripeUpdate",  \* Stripe refuses the new quantity
               "launch",    \* the driver fails to start the container
              "driver",    \* any other container driver call rejects
               "import"}    \* the database work of an import or update fails
OpNames == {"start", "stop", "restart", "suspend", "rollback", "restartStack",
            "update", "updateStack", "export", "delete", "deploy", "import",
            "customHostname", "ha", "upgradeStack", "scheduledRestart",
            "licenseSuspend", "billingDeleted", "updateState", "liveState"}

ASSUME OpsAssumption == Ops \subseteq OpNames
ASSUME FaultsAssumption == Faults \subseteq FaultKinds
ASSUME InitRowAssumption == InitRow \in {"running", "suspended"}
ASSUME MaxOpsAssumption == MaxOps \in Nat

VARIABLES
    row,        \* Project.state in the database; "gone" once destroyed
    inflight,   \* cache project-inflightProjectState, "none" when unset
    deploying,  \* cache project-inflightDeploys
    latest,     \* cache project-latestProjectState, "none" when unset
    published,  \* cache project-lastPublishedProjectState: what clients saw last
    box,        \* the container, as the driver's own list has it
    billed,     \* the instance is counted on the Stripe subscription
    subscribed, \* the team's subscription is active
    op,         \* the operation each slot serves
    copy,       \* the state held by the slot's copy of the row
    counted,    \* the count of live instances the slot has read for Stripe
    seen,       \* the container state a report or a details call brought
    todo,       \* the steps the slot has left
    served      \* operations requested so far

shared == <<row, inflight, deploying, latest, published, box, billed, subscribed>>
vars == <<row, inflight, deploying, latest, published, box, billed, subscribed,
          op, copy, counted, seen, todo, served>>

-----------------------------------------------------------------------------
(* The steps of a handler *)

PlainSteps == {"clear", "clearIfSuspended", "flagDeploy", "check", "admit",
               "count", "bill", "launch", "settle", "unbill", "unbillTeamless",
               "lateUnbill", "driverStop", "driverRemove", "destroy", "reload",
               "import", "startFlows", "stopFlows", "restartFlows", "bounce",
               "report", "details", "noteLatest"}
Step == [do : {"mark"}, arg : Transitions]
            \cup [do : {"write"}, arg : RowStates]
            \cup [do : PlainSteps, arg : {"none"}]

Do(k) == [do |-> k, arg |-> "none"]
Mark(t) == [do |-> "mark", arg |-> t]       \* setInflightState
Write(s) == [do |-> "write", arg |-> s]     \* project.state = s; project.save()
Clear == Do("clear")                        \* clearInflightState

\* mutant: a failed start is not taken off the subscription again
StartContainerKeepsBilling ==
    <<Do("admit"), Do("count"), Do("bill"), Do("launch"), Do("settle"),
      Write("suspended"), Do("reload"), Do("reload")>>

\* containers.start: the handler replies after "launch"; the steps after "settle"
\* are the wrapper's own catch of a failed driver start.
StartContainer ==
    <<Do("admit"), Do("count"), Do("bill"), Do("launch"), Do("settle"),
      Write("suspended"), Do("count"), Do("lateUnbill")>>

\* mutant: the row is not marked suspended
StopContainerUnsaved == <<Do("driverStop"), Do("count"), Do("unbill")>>

\* containers.stop on a copy that is not suspended (a suspended one returns)
StopContainer ==
    <<Write("suspended"), Do("driverStop"), Do("count"), Do("unbill")>>
StopContainerSkipBilling == <<Write("suspended"), Do("driverStop")>>

\* unSuspendProject, given the state to resume to
Resume(s) == <<Write(s), Do("reload")>> \o StartContainer \o <<Clear>>

\* mutant: nothing clears the transition of a start that failed
StartProgramNoClear(s) ==
    IF s = "suspended"
    THEN <<Do("check"), Write("running"), Mark("starting")>> \o StartContainer
    ELSE <<Mark("starting"), Write("running"), Do("startFlows"), Clear>>

StartProgram(s) ==
    IF s = "suspended"
    THEN <<Do("check"), Write("running"), Mark("starting")>>
            \o StartContainer \o <<Do("clearIfSuspended")>>
    ELSE <<Mark("starting"), Write("running"), Do("startFlows"), Clear>>

StopProgram(s) ==
    IF s = "suspended" THEN <<>>
    ELSE <<Mark("stopping"), Write("stopped"), Do("stopFlows"), Clear>>

RestartProgram(s) ==
    IF s = "suspended" THEN <<>>
    ELSE <<Mark("restarting"), Write("running"), Do("restartFlows"),
           Do("bounce")>>

SuspendProgram(s) ==
    IF s = "suspended" THEN <<>>
    ELSE <<Mark("suspending")>> \o StopContainer \o <<Clear>>

RollbackProgram(s) ==
    <<Mark("rollback"), Do("import")>>
        \o (IF s = "running"
            THEN <<Mark("restarting"), Do("restartFlows"), Do("bounce")>>
            ELSE <<Clear>>)

RestartStackProgram(s) ==
    (IF s = "suspended" THEN <<>>
     ELSE <<Mark("suspending")>> \o StopContainer \o <<Clear>>)
        \o <<Write("running"), Mark("starting")>> \o StartContainer \o <<Clear>>

\* A change of name, type or stack; only a change of stack alone skips billing.
UpdateProgram(s, stop) ==
    IF s = "suspended" THEN <<Mark("starting"), Do("import"), Clear>>
    ELSE <<Mark("starting")>> \o stop \o <<Do("import")>> \o Resume(s)

ExportProgram(s) ==
    <<Mark("importing"), Do("flagDeploy")>>
        \o (IF s = "suspended" THEN <<Do("import"), Clear>>
            ELSE StopContainer \o <<Do("import")>> \o Resume(s))

DeleteProgram(s) ==
    <<Do("driverRemove")>>
        \o (IF s = "suspended" THEN <<>>
            ELSE <<Write("deleting"), Do("count"), Do("unbill")>>)
        \o <<Do("destroy")>>

DeployProgram(s) ==
    <<Mark("importing"), Do("flagDeploy"), Do("import")>>
        \o (IF s = "running"
            THEN <<Do("reload"), Do("restartFlows"), Clear, Do("bounce")>>
            ELSE <<Clear>>)

ImportProgram(s) ==
    <<Do("import")>>
        \o (IF s = "running"
            THEN <<Mark("restarting"), Write("running"), Do("restartFlows"),
                   Clear, Do("bounce")>>
            ELSE <<>>)

CustomHostnameProgram(s) ==
    <<Mark("starting")>>
        \o (IF s = "running" THEN StopContainerSkipBilling \o Resume("running")
            ELSE <<>>)

HAProgram(s) ==
    IF s = "suspended" THEN <<>>
    ELSE <<Mark("starting")>> \o StopContainerSkipBilling \o Resume(s)

UpgradeStackProgram(s) ==
    IF s = "suspended" THEN <<>>
    ELSE <<Mark("starting")>> \o StopContainerSkipBilling
            \o <<Do("import")>> \o Resume(s)

ScheduledRestartProgram(s) ==
    IF s = "suspended" THEN <<>>
    ELSE <<Mark("restarting"), Write("running"), Do("restartFlows"), Clear,
           Do("bounce")>>

\* The sweep selects running instances, without their Team.
LicenseSuspendProgram(s) ==
    IF s # "running" THEN <<>>
    ELSE <<Mark("suspending")>> \o StopContainerSkipBilling
            \o <<Do("unbillTeamless"), Clear>>

BillingDeletedProgram(s) ==
    IF s = "suspended" THEN <<>> ELSE StopContainer

Program(o, s) ==
    CASE o = "start"            -> StartProgram(s)
      [] o = "stop"             -> StopProgram(s)
      [] o = "restart"          -> RestartProgram(s)
      [] o = "suspend"          -> SuspendProgram(s)
      [] o = "rollback"         -> RollbackProgram(s)
      [] o = "restartStack"     -> RestartStackProgram(s)
      [] o = "update"           -> UpdateProgram(s, StopContainer)
      [] o = "updateStack"      -> UpdateProgram(s, StopContainerSkipBilling)
      [] o = "export"           -> ExportProgram(s)
      [] o = "delete"           -> DeleteProgram(s)
      [] o = "deploy"           -> DeployProgram(s)
      [] o = "import"           -> ImportProgram(s)
      [] o = "customHostname"   -> CustomHostnameProgram(s)
      [] o = "ha"               -> HAProgram(s)
      [] o = "upgradeStack"     -> UpgradeStackProgram(s)
      [] o = "scheduledRestart" -> ScheduledRestartProgram(s)
      [] o = "licenseSuspend"   -> LicenseSuspendProgram(s)
      [] o = "billingDeleted"   -> BillingDeletedProgram(s)
      [] o = "updateState"      -> <<Do("report")>>
      [] OTHER                  -> <<Do("details"), Do("noteLatest")>>

\* mutant: /suspend forgets to clear the transition when the driver throws
ClearsOnErrorButSuspend == {"start", "stop", "restart", "rollback",
                            "restartStack", "deploy"}

\* What the handler does with an exception: these clear the transition, the
\* others only log or reply.
ClearsOnError == {"start", "stop", "restart", "suspend", "rollback",
                  "restartStack", "deploy"}
Handler(o) == IF o \in ClearsOnError THEN <<Clear>> ELSE <<>>

\* After the reply only the HA route still watches the promise.
LateHandler(o) == IF o = "ha" THEN <<Clear>> ELSE <<>>

-----------------------------------------------------------------------------
(* What the steps do to the shared state *)

Live == {"running", "stopped"}      \* getBillableInstanceCountByType counts these

\* The state a client is shown: liveState and _publishLiveStateUnlocked
Effective(t, l, s) ==
    IF t # "none" THEN t
    ELSE IF s = "suspended" THEN "suspended"
    ELSE IF l # "none" THEN l ELSE s

AtStep(r, k) == todo[r] # <<>> /\ todo[r][1].do = k

\* what is left of a program after its first n steps
Rest(p, n) == SubSeq(p, n + 1, Len(p))

Proceed(r) == todo' = [todo EXCEPT ![r] = Rest(@, 1)]
Throw(r) == todo' = [todo EXCEPT ![r] = Handler(op[r])]

\* mutant: the transition is written to the row
SaveTransition(r, s) ==
    /\ copy' = [copy EXCEPT ![r] = s]
    /\ row' = IF s = "running" THEN "starting" ELSE s
    /\ published' = published

\* mutant: the hook does not broadcast the state
SaveSilently(r, s) ==
    /\ copy' = [copy EXCEPT ![r] = s]
    /\ row' = IF copy[r] = s \/ row = "gone" THEN row ELSE s
    /\ published' = published

\* Sequelize writes the attribute, and runs the hook afterSave, only if the copy
\* holds another value, and an UPDATE of a destroyed row touches nothing.  The
\* hook, which save() awaits, publishes what the copy now shows.
Save(r, s) ==
    /\ copy' = [copy EXCEPT ![r] = s]
    /\ row' = IF copy[r] = s \/ row = "gone" THEN row ELSE s
    /\ published' = IF copy[r] = s THEN published
                    ELSE Effective(inflight, latest, s)

SetInflight(r, t) ==
    /\ inflight' = t
    /\ published' = Effective(t, latest, copy[r])

ClearInflight(r) ==
    /\ inflight' = "none"
    /\ deploying' = FALSE
    /\ published' = Effective("none", latest, copy[r])

\* updateTeamBillingCounts: Stripe is set to the count read from the database
\* some awaits ago; that Stripe refuses it is only logged, and there is nothing
\* to set once the subscription is cancelled.
Recount(r) ==
    \/ subscribed /\ billed' = counted[r]
    \/ (~subscribed \/ "stripeUpdate" \in Faults) /\ billed' = billed

\* retrieving the subscription throws
StripeFails == subscribed /\ "stripe" \in Faults

\* checkInstanceStartAllowed throws
StartRefused == ~subscribed \/ "billing" \in Faults

\* mutant: a report never ends a restart
UpdateLatestStartOnly(r, v) ==
    /\ latest' = IF v = "running" THEN "none" ELSE v
    /\ inflight' = IF inflight = "starting" THEN "none" ELSE inflight
    /\ deploying' = deploying
    /\ published' = Effective(inflight', latest', copy[r])

\* updateLatestProjectState
UpdateLatest(r, v) ==
    LET l == IF v = "running" THEN "none" ELSE v
        confirms == /\ inflight \in {"starting", "restarting"}
                    /\ v \in {"running", "crashed"}
        t == IF confirms THEN "none" ELSE inflight
    IN  /\ latest' = l
        /\ inflight' = t
        /\ deploying' = (deploying /\ ~confirms)
        /\ published' = Effective(t, l, copy[r])

Idle(r) == todo[r] = <<>>
Quiescent == \A r \in Req : Idle(r)

-----------------------------------------------------------------------------
Init ==
    /\ row = InitRow
    /\ inflight = "none"
    /\ deploying = FALSE
    /\ latest = "none"
    /\ published = InitRow
    /\ box = InitRow
    /\ billed = (InitRow \in Live)
    /\ subscribed = TRUE
    /\ op = [r \in Req |-> "none"]
    /\ copy = [r \in Req |-> "none"]
    /\ counted = [r \in Req |-> FALSE]
    /\ seen = [r \in Req |-> "none"]
    /\ todo = [r \in Req |-> <<>>]
    /\ served = 0

\* The preHandler (or the task's query) loads the row; a destroyed one is a 404.
\* The launcher can only report while its container exists.
Receive(r, o) ==
    /\ Idle(r)
    /\ served < MaxOps
    /\ row # "gone"
    /\ o = "updateState" => box \notin {"none", "suspended"}
    /\ o = "billingDeleted" => ~subscribed
    /\ Program(o, row) # <<>>
    /\ served' = served + 1
    /\ op' = [op EXCEPT ![r] = o]
    /\ copy' = [copy EXCEPT ![r] = row]
    /\ seen' = [seen EXCEPT ![r] = IF o = "updateState" THEN box ELSE "none"]
    /\ todo' = [todo EXCEPT ![r] = Program(o, row)]
    /\ UNCHANGED <<shared, counted>>

SetInflightState(r) ==
    /\ AtStep(r, "mark")
    /\ SetInflight(r, todo[r][1].arg)
    /\ Proceed(r)
    /\ UNCHANGED <<row, deploying, latest, box, billed, subscribed, op, copy,
                   counted, seen, served>>

ClearInflightState(r) ==
    /\ AtStep(r, "clear")
    /\ ClearInflight(r)
    /\ Proceed(r)
    /\ UNCHANGED <<row, latest, box, billed, subscribed, op, copy, counted,
                   seen, served>>

\* The continuation of /start: a launcher report clears a start that succeeded.
ClearIfSuspended(r) ==
    /\ AtStep(r, "clearIfSuspended")
    /\ IF copy[r] = "suspended"
       THEN ClearInflight(r)
       ELSE UNCHANGED <<inflight, deploying, published>>
    /\ Proceed(r)
    /\ UNCHANGED <<row, latest, box, billed, subscribed, op, copy, counted,
                   seen, served>>

SetInDeploy(r) ==
    /\ AtStep(r, "flagDeploy")
    /\ deploying' = TRUE
    /\ Proceed(r)
    /\ UNCHANGED <<row, inflight, latest, published, box, billed, subscribed,
                   op, copy, counted, seen, served>>

SaveState(r) ==
    /\ AtStep(r, "write")
    /\ Save(r, todo[r][1].arg)
    /\ Proceed(r)
    /\ UNCHANGED <<inflight, deploying, latest, box, billed, subscribed, op,
                   counted, seen, served>>

\* /start refuses a suspended instance with a 4xx before changing anything.
CheckStart(r) ==
    /\ AtStep(r, "check")
    /\ \/ subscribed /\ Proceed(r)
       \/ StartRefused /\ todo' = [todo EXCEPT ![r] = <<>>]
    /\ UNCHANGED shared
    /\ UNCHANGED <<op, copy, counted, seen, served>>

\* wrapper.start: an expired licence suspends the row and throws; then addProject
\* repeats checkInstanceStartAllowed.
AdmitStart(r) ==
    /\ AtStep(r, "admit")
    /\ \/ /\ (subscribed /\ Proceed(r)) \/ (StartRefused /\ Throw(r))
          /\ UNCHANGED <<row, copy, published>>
       \/ /\ "license" \in Faults
          /\ Save(r, "suspended")
          /\ Throw(r)
    /\ UNCHANGED <<inflight, deploying, latest, box, billed, subscribed, op,
                   counted, seen, served>>

\* getTeamBillableCounts, the first half of a recount
CountInstances(r) ==
    /\ AtStep(r, "count")
    /\ counted' = [counted EXCEPT ![r] = row \in Live]
    /\ Proceed(r)
    /\ UNCHANGED shared
    /\ UNCHANGED <<op, copy, seen, served>>

\* mutant: a failure to read the subscription is only logged
AddProjectLenient(r) ==
    /\ AtStep(r, "bill")
    /\ \/ Recount(r)
       \/ StripeFails /\ UNCHANGED billed
    /\ Proceed(r)
    /\ UNCHANGED <<row, inflight, deploying, latest, published, box,
                   subscribed, op, copy, counted, seen, served>>

\* SubscriptionHandler.addProject
AddProject(r) ==
    /\ AtStep(r, "bill")
    /\ \/ Recount(r) /\ Proceed(r)
       \/ StripeFails /\ Throw(r) /\ UNCHANGED billed
    /\ UNCHANGED <<row, inflight, deploying, latest, published, box,
                   subscribed, op, copy, counted, seen, served>>

\* driver.start is called; if it rejects at once the wrapper's catch is next.
LaunchContainer(r) ==
    /\ AtStep(r, "launch")
    /\ IF box \in {"none", "suspended"}
       THEN box' = "starting" /\ Proceed(r)
       ELSE box' = box /\ todo' = [todo EXCEPT ![r] = Rest(@, 2)]
    /\ UNCHANGED <<row, inflight, deploying, latest, published, billed,
                   subscribed, op, copy, counted, seen, served>>

\* The driver's promise resolves, with the launcher's report, ...
ContainerStarted(r) ==
    /\ AtStep(r, "settle")
    /\ box # "none"
    /\ box' = "running"
    /\ UpdateLatest(r, "running")
    /\ todo' = [todo EXCEPT ![r] = Rest(@, 4)]
    /\ UNCHANGED <<row, billed, subscribed, op, copy, counted, seen, served>>

\* ... or rejects: the wrapper's catch suspends the row and recounts, ...
ContainerStartFails(r) ==
    /\ AtStep(r, "settle")
    /\ "launch" \in Faults
    /\ box' = "none"
    /\ Proceed(r)
    /\ UNCHANGED <<row, inflight, deploying, latest, published, billed,
                   subscribed, op, copy, counted, seen, served>>

\* ... or never settles, because the container was removed under it.
ContainerStartLost(r) ==
    /\ AtStep(r, "settle")
    /\ box = "none"
    /\ todo' = [todo EXCEPT ![r] = <<>>]
    /\ UNCHANGED shared
    /\ UNCHANGED <<op, copy, counted, seen, served>>

\* SubscriptionHandler.removeProject, in a handler ...
RemoveProject(r) ==
    /\ AtStep(r, "unbill")
    /\ \/ Recount(r) /\ Proceed(r)
       \/ StripeFails /\ Throw(r) /\ UNCHANGED billed
    /\ UNCHANGED <<row, inflight, deploying, latest, published, box,
                   subscribed, op, copy, counted, seen, served>>

\* ... in the wrapper's catch, after the reply ...
RemoveProjectLate(r) ==
    /\ AtStep(r, "lateUnbill")
    /\ \/ Recount(r) /\ Proceed(r)
       \/ /\ StripeFails
          /\ todo' = [todo EXCEPT ![r] = LateHandler(op[r])]
          /\ UNCHANGED billed
    /\ UNCHANGED <<row, inflight, deploying, latest, published, box,
                   subscribed, op, copy, counted, seen, served>>

\* ... and for a copy loaded without its Team, whose hashid it reads first.
RemoveProjectTeamless(r) ==
    /\ AtStep(r, "unbillTeamless")
    /\ Throw(r)
    /\ UNCHANGED shared
    /\ UNCHANGED <<op, copy, counted, seen, served>>

DriverStop(r) ==
    /\ AtStep(r, "driverStop")
    /\ \/ box # "none" /\ box' = "suspended" /\ Proceed(r)
       \/ (box = "none" \/ "driver" \in Faults) /\ box' = box /\ Throw(r)
    /\ UNCHANGED <<row, inflight, deploying, latest, published, billed,
                   subscribed, op, copy, counted, seen, served>>

\* A driver that finds no container (404) is taken to have removed it, and the
\* handler goes on to destroy the row.
DriverRemove(r) ==
    /\ AtStep(r, "driverRemove")
    /\ \/ box' = "none" /\ Proceed(r)
       \/ /\ "driver" \in Faults
          /\ box' = box
          /\ \/ Throw(r)
             \/ box = "none" /\ todo' = [todo EXCEPT ![r] = <<Do("destroy")>>]
    /\ UNCHANGED <<row, inflight, deploying, latest, published, billed,
                   subscribed, op, copy, counted, seen, served>>

DestroyRow(r) ==
    /\ AtStep(r, "destroy")
    /\ row' = "gone"
    /\ Proceed(r)
    /\ UNCHANGED <<inflight, deploying, latest, published, box, billed,
                   subscribed, op, copy, counted, seen, served>>

ReloadCopy(r) ==
    /\ AtStep(r, "reload")
    /\ IF row = "gone"
       THEN Throw(r) /\ copy' = copy
       ELSE Proceed(r) /\ copy' = [copy EXCEPT ![r] = row]
    /\ UNCHANGED shared
    /\ UNCHANGED <<op, counted, seen, served>>

\* The snapshot import, or the changes of an update, in their transaction
ImportData(r) ==
    /\ AtStep(r, "import")
    /\ \/ Proceed(r)
       \/ "import" \in Faults /\ Throw(r)
    /\ UNCHANGED shared
    /\ UNCHANGED <<op, copy, counted, seen, served>>

\* startFlows and restartFlows repeat checkInstanceStartAllowed first.
FlowsRefused(r) ==
    /\ AtStep(r, "startFlows") \/ AtStep(r, "restartFlows")
    /\ StartRefused \/ "driver" \in Faults
    /\ Throw(r)
    /\ UNCHANGED shared
    /\ UNCHANGED <<op, copy, counted, seen, served>>

StartFlows(r) ==
    /\ AtStep(r, "startFlows")
    /\ subscribed
    /\ box' = IF box = "none" THEN box ELSE "running"
    /\ Proceed(r)
    /\ UNCHANGED <<row, inflight, deploying, latest, published, billed,
                   subscribed, op, copy, counted, seen, served>>

StopFlows(r) ==
    /\ AtStep(r, "stopFlows")
    /\ \/ /\ box' = IF box = "none" THEN box ELSE "stopped"
          /\ Proceed(r)
       \/ "driver" \in Faults /\ box' = box /\ Throw(r)
    /\ UNCHANGED <<row, inflight, deploying, latest, published, billed,
                   subscribed, op, copy, counted, seen, served>>

RestartFlows(r) ==
    /\ AtStep(r, "restartFlows")
    /\ subscribed
    /\ Proceed(r)
    /\ UNCHANGED shared
    /\ UNCHANGED <<op, copy, counted, seen, served>>

\* The launcher reports once it is back up, with the handler's copy.
FlowsRestarted(r) ==
    /\ AtStep(r, "bounce")
    /\ box' = IF box = "none" THEN box ELSE "running"
    /\ UpdateLatest(r, "running")
    /\ Proceed(r)
    /\ UNCHANGED <<row, billed, subscribed, op, copy, counted, seen, served>>

\* POST update-state
LauncherReport(r) ==
    /\ AtStep(r, "report")
    /\ UpdateLatest(r, seen[r])
    /\ Proceed(r)
    /\ UNCHANGED <<row, box, billed, subscribed, op, copy, counted, seen,
                   served>>

\* liveState asks the driver only when neither cache nor row settles it, ...
ReadDetails(r) ==
    /\ AtStep(r, "details")
    /\ IF inflight # "none" \/ copy[r] = "suspended"
       THEN todo' = [todo EXCEPT ![r] = <<>>] /\ seen' = seen
       ELSE Proceed(r) /\ seen' = [seen EXCEPT ![r] = box]
    /\ UNCHANGED shared
    /\ UNCHANGED <<op, copy, counted, served>>

\* ... and remembers an answer that differs from the row.
NoteLatest(r) ==
    /\ AtStep(r, "noteLatest")
    /\ latest' = IF seen[r] = copy[r] THEN latest
                 ELSE IF seen[r] = "none" THEN "unknown" ELSE seen[r]
    /\ Proceed(r)
    /\ UNCHANGED <<row, inflight, deploying, published, box, billed,
                   subscribed, op, copy, counted, seen, served>>

\* Node-RED crashes too often and the launcher gives up on it.
BoxCrashes ==
    /\ "updateState" \in Ops
    /\ box = "running"
    /\ box' = "crashed"
    /\ UNCHANGED <<row, inflight, deploying, latest, published, billed,
                   subscribed, op, copy, counted, seen, todo, served>>

\* Stripe ends the subscription, with everything counted on it; the webhook
\* handler marks it cancelled before it loads the instances to stop.
SubscriptionDeleted ==
    /\ "billingDeleted" \in Ops
    /\ subscribed
    /\ subscribed' = FALSE
    /\ billed' = FALSE
    /\ UNCHANGED <<row, inflight, deploying, latest, published, box, op, copy,
                   counted, seen, todo, served>>

Advance(r) ==
    \/ SetInflightState(r) \/ ClearInflightState(r) \/ ClearIfSuspended(r)
    \/ SetInDeploy(r) \/ SaveState(r) \/ CheckStart(r) \/ AdmitStart(r)
    \/ CountInstances(r) \/ AddProject(r) \/ LaunchContainer(r)
    \/ ContainerStarted(r)
    \/ ContainerStartFails(r) \/ ContainerStartLost(r) \/ RemoveProject(r)
    \/ RemoveProjectLate(r) \/ RemoveProjectTeamless(r) \/ DriverStop(r)
    \/ DriverRemove(r) \/ DestroyRow(r) \/ ReloadCopy(r) \/ ImportData(r)
    \/ FlowsRefused(r) \/ StartFlows(r) \/ StopFlows(r) \/ RestartFlows(r)
    \/ FlowsRestarted(r) \/ LauncherReport(r) \/ ReadDetails(r) \/ NoteLatest(r)

Next ==
    \/ \E r \in Req, o \in Ops : Receive(r, o)
    \/ \E r \in Req : Advance(r)
    \/ BoxCrashes
    \/ SubscriptionDeleted

Spec == Init /\ [][Next]_vars

\* Every promise a handler awaits settles, and its continuation runs.
FairSpec == Spec /\ \A r \in Req : WF_vars(Advance(r))

-----------------------------------------------------------------------------
(* Properties *)

\* The values of the row, the caches and the handlers' copies
TypeOK ==
    /\ row \in RowStates \cup {"gone"}
    /\ inflight \in Transitions \cup {"none"}
    /\ deploying \in BOOLEAN
    /\ latest \in BoxStates \cup {"unknown"}
    /\ published \in RowStates \cup Transitions \cup BoxStates \cup {"unknown"}
    /\ box \in BoxStates
    /\ billed \in BOOLEAN
    /\ subscribed \in BOOLEAN
    /\ op \in [Req -> Ops \cup {"none"}]
    /\ copy \in [Req -> RowStates \cup {"none"}]
    /\ counted \in [Req -> BOOLEAN]
    /\ seen \in [Req -> BoxStates]
    /\ todo \in [Req -> Seq(Step)]
    /\ served \in 0..MaxOps

\* When no handler is at work no transition is left on show, except one that a
\* launcher report ends: whatever throws, and in whatever order handlers finish,
\* the one that set "stopping", "suspending", "rollback" or "importing" clears it,
\* and no deploy flag is left behind (clearInflightState in every catch).
NoStrandedTransition ==
    Quiescent => /\ inflight \in {"none", "starting", "restarting"}
                 /\ ~deploying

\* An instance is shown in transition only while something is being done to it
\* ("when projects are transitioning between states").
TransitionsEnd == Quiescent /\ row # "gone" => inflight = "none"

\* Once the handlers are done the row says suspended exactly when the container
\* is freed, and a deleted instance has no container.
ContainerMatchesRow ==
    Quiescent => /\ row \in {"suspended", "gone"} <=> box \in {"none", "suspended"}
                 /\ row = "gone" => box = "none"

\* Once the handlers are done the subscription counts the instance exactly when
\* the row says it runs: every path through the wrapper ends in a recount that
\* sees the state it wrote.
BillingMatchesRow == Quiescent => (billed <=> row \in Live)

\* What was last broadcast is what a fresh read of the instance would show: every
\* change of the row, the transition and the latest state, on whatever path of
\* success or failure, was broadcast after it was made (the hook afterSave and
\* the calls of publishLiveState in forge/db/controllers/Project.js).
ClientsSeeTheInstance ==
    Quiescent /\ row # "gone" => published = Effective(inflight, latest, row)

\* No container is created for an instance the team's subscription, unless it is
\* cancelled during the start, does not count.
NoFreeLaunch ==
    [][box # "starting" /\ box' = "starting" /\ subscribed => billed]_vars

\* A transition on show ends, unless the instance is deleted.
TransitionsClear == (inflight # "none") ~> (inflight = "none" \/ row = "gone")
=============================================================================
