-------------------------- MODULE LiveStatePublish --------------------------
(***************************************************************************)
(* How the state of one instance is broadcast to its team.                 *)
(*                                                                         *)
(* Whoever changes one of the state caches of db/controllers/Project.js    *)
(* then calls publishLiveState, which works out the state a client should  *)
(* see and sends it if it is not the one sent last.  Every access to a     *)
(* cache is awaited (it is a Redis call when forge runs as several         *)
(* processes), so the publications of one forge process are chained on its *)
(* `publishLocks'.  The row is fixed here: InstanceLifecycle has the       *)
(* handlers that change it, and takes a publication to be one step.        *)
(***************************************************************************)
EXTENDS Naturals, Sequences

CONSTANTS
    Proc,           \* the forge processes that share the caches
    Caller,         \* handlers that may publish at the same time
    Home,           \* the process each handler runs in
    Row,            \* the state in the database, which the handlers have loaded
    Transitions,    \* the transitions that are set
    Reports,        \* the states a launcher reports
    MaxRequests     \* bound: cache changes requested in a behaviour

Confirmable == {"starting", "restarting"}       \* transitions a report may end
Settled == {"running", "safe", "crashed"}       \* reports that end them
States == {"running", "stopped", "suspended", "safe", "crashed", "starting",
           "stopping", "restarting", "suspending", "rollback", "importing"}

ASSUME HomeAssumption == Home \in [Caller -> Proc]
ASSUME RowAssumption == Row \in {"running", "stopped", "suspended"}
ASSUME StatesAssumption == Transitions \subseteq States /\ Reports \subseteq States
ASSUME MaxRequestsAssumption == MaxRequests \in Nat

VARIABLES
    inflight,   \* cache project-inflightProjectState, "none" when unset
    latest,     \* cache project-latestProjectState, "none" when unset
    remembered, \* cache project-lastPublishedProjectState
    shown,      \* the state in the last message the clients received
    locks,      \* publishLocks: in each process, the publications chained
    pc,         \* what each handler does next
    req,        \* the change it was asked for
    held,       \* the transition, then the state, its publication has worked out
    requested   \* cache changes requested so far

vars == <<inflight, latest, remembered, shown, locks, pc, req, held, requested>>
caches == <<inflight, latest, remembered>>

Request == [do : {"set"}, arg : Transitions]
            \cup [do : {"clear"}, arg : {"none"}]
            \cup [do : {"report"}, arg : Reports]
Idle == [do |-> "idle", arg |-> "none"]

\* What a client should be shown
Effective(t, l) ==
    IF t # "none" THEN t
    ELSE IF Row = "suspended" THEN "suspended"
    ELSE IF l # "none" THEN l ELSE Row

Goto(c, step) == pc' = [pc EXCEPT ![c] = step]

-----------------------------------------------------------------------------
Init ==
    /\ inflight = "none"
    /\ latest = "none"
    /\ remembered = Row
    /\ shown = Row
    /\ locks = [p \in Proc |-> <<>>]
    /\ pc = [c \in Caller |-> "idle"]
    /\ req = [c \in Caller |-> Idle]
    /\ held = [c \in Caller |-> "none"]
    /\ requested = 0

Begin(c, q) ==
    /\ pc[c] = "idle"
    /\ requested < MaxRequests
    /\ requested' = requested + 1
    /\ req' = [req EXCEPT ![c] = q]
    /\ Goto(c, "change")
    /\ UNCHANGED <<caches, shown, locks, held>>

SetInflightState(c) ==
    /\ pc[c] = "change" /\ req[c].do = "set"
    /\ inflight' = req[c].arg
    /\ Goto(c, "publish")
    /\ UNCHANGED <<latest, remembered, shown, locks, req, held, requested>>

\* Called by itself, or by updateLatestProjectState
ClearInflightState(c) ==
    /\ (pc[c] = "change" /\ req[c].do = "clear") \/ pc[c] = "clear"
    /\ inflight' = "none"
    /\ Goto(c, "publish")
    /\ UNCHANGED <<latest, remembered, shown, locks, req, held, requested>>

\* updateLatestProjectState stores the report, then ...
SetLatestState(c) ==
    /\ pc[c] = "change" /\ req[c].do = "report"
    /\ latest' = IF req[c].arg = "running" THEN "none" ELSE req[c].arg
    /\ Goto(c, "confirm")
    /\ UNCHANGED <<inflight, remembered, shown, locks, req, held, requested>>

\* ... clears the transition on show, if the report is the end of it.
ConfirmTransition(c) ==
    /\ pc[c] = "confirm"
    /\ Goto(c, IF inflight \in Confirmable /\ req[c].arg \in Settled
               THEN "clear" ELSE "publish")
    /\ UNCHANGED <<caches, shown, locks, req, held, requested>>

-----------------------------------------------------------------------------
(* publishLiveState *)

Turn(c) == pc[c] = "wait" /\ Head(locks[Home[c]]) = c

\* The publication is chained behind those its process already has.
JoinQueue(c) ==
    /\ pc[c] = "publish"
    /\ locks' = [locks EXCEPT ![Home[c]] = Append(@, c)]
    /\ Goto(c, "wait")
    /\ UNCHANGED <<caches, shown, req, held, requested>>

\* mutant: the publication does not wait for its turn
ReadInflightUnlocked(c) ==
    /\ pc[c] = "wait"
    /\ held' = [held EXCEPT ![c] = inflight]
    /\ Goto(c, "readLatest")
    /\ UNCHANGED <<caches, shown, locks, req, requested>>

ReadInflight(c) ==
    /\ Turn(c)
    /\ held' = [held EXCEPT ![c] = inflight]
    /\ Goto(c, "readLatest")
    /\ UNCHANGED <<caches, shown, locks, req, requested>>

\* mutant: no fallback to the state in the row
ReadLatestOnly(c) ==
    /\ pc[c] = "readLatest"
    /\ held' = [held EXCEPT ![c] = IF @ # "none" THEN @ ELSE latest]
    /\ Goto(c, "compare")
    /\ UNCHANGED <<caches, shown, locks, req, requested>>

ReadLatest(c) ==
    /\ pc[c] = "readLatest"
    /\ held' = [held EXCEPT ![c] = Effective(@, latest)]
    /\ Goto(c, "compare")
    /\ UNCHANGED <<caches, shown, locks, req, requested>>

Release(c) == locks' = [locks EXCEPT ![Home[c]] = Tail(@)]

\* mutant: the state is sent whether or not it is new
CompareNothing(c) ==
    /\ pc[c] = "compare"
    /\ Goto(c, "remember")
    /\ UNCHANGED <<caches, shown, locks, req, held, requested>>

\* mutant: a publication with nothing to send keeps its place in the queue
CompareKeepsLock(c) ==
    /\ pc[c] = "compare"
    /\ Goto(c, IF remembered = held[c] THEN "idle" ELSE "remember")
    /\ UNCHANGED <<caches, shown, locks, req, held, requested>>

CompareWithLast(c) ==
    /\ pc[c] = "compare"
    /\ IF remembered = held[c]
       THEN Goto(c, "idle") /\ Release(c)
       ELSE Goto(c, "remember") /\ locks' = locks
    /\ UNCHANGED <<caches, shown, req, held, requested>>

Remember(c) ==
    /\ pc[c] = "remember"
    /\ remembered' = held[c]
    /\ Goto(c, "notify")
    /\ UNCHANGED <<inflight, latest, shown, locks, req, held, requested>>

NotifyInstanceState(c) ==
    /\ pc[c] = "notify"
    /\ shown' = held[c]
    /\ Release(c)
    /\ Goto(c, "idle")
    /\ UNCHANGED <<caches, req, held, requested>>

Advance(c) ==
    \/ SetInflightState(c) \/ ClearInflightState(c) \/ SetLatestState(c)
    \/ ConfirmTransition(c) \/ JoinQueue(c) \/ ReadInflight(c) \/ ReadLatest(c)
    \/ CompareWithLast(c) \/ Remember(c) \/ NotifyInstanceState(c)

Next ==
    \/ \E c \in Caller, q \in Request : Begin(c, q)
    \/ \E c \in Caller : Advance(c)

Spec == Init /\ [][Next]_vars

\* Every cache access a handler awaits settles.
FairSpec == Spec /\ \A c \in Caller : WF_vars(Advance(c))

-----------------------------------------------------------------------------
(* Properties *)

Steps == {"idle", "change", "confirm", "clear", "publish", "wait", "readLatest",
          "compare", "remember", "notify"}

\* The values of the caches and of what the handlers hold
TypeOK ==
    /\ inflight \in Transitions \cup {"none"}
    /\ latest \in Reports \cup {"none"}
    /\ remembered \in States
    /\ shown \in States
    /\ locks \in [Proc -> Seq(Caller)]
    /\ pc \in [Caller -> Steps]
    /\ req \in [Caller -> Request \cup {Idle}]
    /\ held \in [Caller -> States \cup {"none"}]
    /\ requested \in 0..MaxRequests

\* Once no handler is publishing, clients see what a fresh read would show: the
\* chain of publishLocks leaves no stale state stranded.
NoStaleState ==
    (\A c \in Caller : pc[c] = "idle") => shown = Effective(inflight, latest)

\* No state is broadcast twice in a row: comparing with the state published last
\* is sound, although that is a cache read three awaits before the message.
NoRepeats == [][\A c \in Caller : NotifyInstanceState(c) => shown' # shown]_vars

\* What clients see keeps up: whenever it is stale it is corrected.
ClientsCatchUp ==
    (shown # Effective(inflight, latest)) ~> (shown = Effective(inflight, latest))
=============================================================================
