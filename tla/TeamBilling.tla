---------------------------- MODULE TeamBilling ----------------------------
(***************************************************************************)
(* The subscription of one team: its row (ee/db/models/Subscription.js),   *)
(* the subscriptions that Stripe keeps, the events Stripe reports          *)
(* (ee/routes/billing/index.js), trials (ee/lib/billing/trialTask.js),     *)
(* manual billing, and the suspension of the team                          *)
(* (ee/lib/billing/Team.js, db/models/Team.js).                            *)
(*                                                                         *)
(* One handler works at a time; Stripe and the clock go on while it does,  *)
(* so a handler is cut into steps where it calls Stripe or looks at the    *)
(* clock.  Handlers that overlap are the subject of InstanceLifecycle.     *)
(***************************************************************************)
EXTENDS Naturals, Sequences, FiniteSets

CONSTANTS
    Instance,       \* the team's instances
    MaxSessions,    \* checkout sessions opened
    MaxOps          \* requests, and changes Stripe makes of its own accord

ASSUME BoundsAssumption == MaxSessions \in Nat /\ MaxOps \in Nat
ASSUME FiniteAssumption == IsFiniteSet(Instance)

NoSubscription == 0     \* an empty subscription id
StripeId == 1..MaxSessions
Live == {"active", "past_due"}

\* A subscription that has not ended at Stripe.  Of the statuses that the row does not track
\* (Subscription.STATUS) "unpaid" stands for all.
Ongoing == Live \cup {"unpaid"}
Tracked == Live \cup {"canceled"}

VARIABLES
    suspended,      \* Team.suspended
    state,          \* Project.state of each instance
    row,            \* the Subscription of the team: status, subscription id, trialEndsAt
    stripe,         \* the sessions, and the subscriptions they become: status and quantity
    events,         \* what Stripe has still to report, in order
    handler,        \* the handler at work: its step, a subscription at Stripe, the quantity it has
                    \* worked out, the instances it is to stop
    served

vars == <<suspended, state, row, stripe, events, handler, served>>

Idle == [op |-> "none", step |-> "idle", id |-> NoSubscription, quantity |-> 0, todo |-> {}]

NoRow == [status |-> "none", id |-> NoSubscription, trialEndsAt |-> "none"]

TypeOK ==
    /\ suspended \in BOOLEAN
    /\ state \in [Instance -> {"running", "stopped", "suspended"}]
    /\ row \in [status: Live \cup {"none", "trial", "canceled", "unmanaged"},
                id: StripeId \cup {NoSubscription}, trialEndsAt: {"none", "future", "past"}]
    /\ row.status \in Live => row.id # NoSubscription
    /\ stripe \in [StripeId -> [status: Ongoing \cup {"none", "open", "canceled"},
                                quantity: 0..Cardinality(Instance)]]
    /\ served \in 0..MaxOps

Init ==
    /\ suspended = FALSE
    /\ state = [i \in Instance |-> "suspended"]
    /\ row \in {NoRow, [NoRow EXCEPT !.status = "trial", !.trialEndsAt = "future"]}
    /\ stripe = [s \in StripeId |-> [status |-> "none", quantity |-> 0]]
    /\ events = <<>>
    /\ handler = Idle
    /\ served = 0

-----------------------------------------------------------------------------
(* Reading the row and the counts.                                                               *)

IsActive(r) == r.status \in Live

\* checkInstanceStartAllowed: a trial counts while it lasts, whatever the status of the row.
StartAllowed == IsActive(row) \/ row.status = "unmanaged" \/ row.trialEndsAt = "future"

\* getTeamBillableCounts, of one instance type and without its free allowance
Billable(states) == Cardinality({i \in Instance : states[i] # "suspended"})

Step(op, step) == [Idle EXCEPT !.op = op, !.step = step]

\* Mutant: a subscription that is past due is not taken to be active.
RecountPaidUp(h, r, states) ==
    IF r.status = "active" THEN [h EXCEPT !.step = "charge", !.id = r.id, !.quantity = Billable(states)]
                           ELSE [h EXCEPT !.step = "sweep"]

\* updateTeamBillingCounts up to its update of Stripe; without an active subscription it does nothing.
Recount(h, r, states) ==
    IF IsActive(r) THEN [h EXCEPT !.step = "charge", !.id = r.id, !.quantity = Billable(states)]
                   ELSE [h EXCEPT !.step = "sweep"]

Serve(op) == handler.step = "idle" /\ served < MaxOps /\ served' = served + 1

-----------------------------------------------------------------------------
(* Requests about an instance.                                                                   *)

\* /start of a suspended instance: the row says running before the wrapper asks once more.
StartInstance(i) ==
    /\ Serve("start") /\ state[i] = "suspended"
    /\ ~suspended /\ StartAllowed
    /\ state' = [state EXCEPT ![i] = "running"]
    /\ handler' = Step("start", "admit")
    /\ UNCHANGED <<suspended, row, stripe, events>>

\* containers.start: SubscriptionHandler.addProject
Admit ==
    /\ handler.step = "admit"
    /\ handler' = IF ~suspended /\ StartAllowed THEN Recount(handler, row, state)
                                                ELSE [handler EXCEPT !.step = "sweep"]
    /\ UNCHANGED <<suspended, state, row, stripe, events, served>>

\* /start of a stopped instance asks nothing of the team.
StartFlows(i) ==
    /\ Serve("start") /\ state[i] = "stopped"
    /\ state' = [state EXCEPT ![i] = "running"]
    /\ UNCHANGED <<suspended, row, stripe, events, handler>>

StopFlows(i) ==
    /\ Serve("stop") /\ state[i] = "running"
    /\ state' = [state EXCEPT ![i] = "stopped"]
    /\ UNCHANGED <<suspended, row, stripe, events, handler>>

SuspendInstance(i) ==
    /\ Serve("suspend") /\ state[i] # "suspended"
    /\ state' = [state EXCEPT ![i] = "suspended"]
    /\ handler' = Recount(Step("suspend", "recount"), row, state')
    /\ UNCHANGED <<suspended, row, stripe, events>>

\* The update of a subscription that Stripe has cancelled is refused, which is only logged.
Charge ==
    /\ handler.step = "charge"
    /\ stripe' = IF stripe[handler.id].status \in Ongoing
                 THEN [stripe EXCEPT ![handler.id].quantity = handler.quantity] ELSE stripe
    /\ handler' = [handler EXCEPT !.step = "sweep"]
    /\ UNCHANGED <<suspended, state, row, events, served>>

-----------------------------------------------------------------------------
(* Checkout.  The quantity is worked out when the session is created, not when it is completed.  *)

BeginSession ==
    /\ Serve("session") /\ \E s \in StripeId : stripe[s].status = "none"
    /\ handler' = [Step("session", "session") EXCEPT !.quantity = Billable(state)]
    /\ UNCHANGED <<suspended, state, row, stripe, events>>

CreateSession ==
    /\ handler.step = "session"
    /\ \E s \in StripeId :
        /\ stripe[s].status = "none" /\ \A t \in 1..(s - 1) : stripe[t].status # "none"
        /\ stripe' = [stripe EXCEPT ![s] = [status |-> "open", quantity |-> handler.quantity]]
    /\ handler' = Idle
    /\ UNCHANGED <<suspended, state, row, events, served>>

\* The user pays: any session, whatever has become of the team since it was opened.
CompleteSession(s) ==
    /\ stripe[s].status = "open"
    /\ stripe' = [stripe EXCEPT ![s].status = "active"]
    /\ events' = Append(events, [kind |-> "completed", id |-> s, status |-> "active"])
    /\ UNCHANGED <<suspended, state, row, handler, served>>

\* Mutants: the id, or the status, of the new subscription is not stored.
KeepId(s) == [row EXCEPT !.status = "active"]
KeepStatus(s) == [row EXCEPT !.id = s]

\* createSubscription: the row takes the new subscription over; the trial of a trial row ends.
Subscribed(s) ==
    [status |-> "active", id |-> s,
     trialEndsAt |-> IF row.status = "trial" THEN "none" ELSE row.trialEndsAt]

-----------------------------------------------------------------------------
(* Stripe: payments fail, are given up or are made good, a subscription is cancelled.            *)

StripeMoves(s, status) ==
    /\ served < MaxOps /\ served' = served + 1
    /\ stripe[s].status \in Ongoing /\ status # stripe[s].status
    /\ stripe' = [stripe EXCEPT ![s].status = status]
    /\ events' = Append(events, [kind |-> IF status = "canceled" THEN "deleted" ELSE "updated",
                                 id |-> s, status |-> status])
    /\ UNCHANGED <<suspended, state, row, handler>>

\* stripe.subscriptions.del: a subscription that is gone already is no error.
Del(s) ==
    IF stripe[s].status \in Ongoing
    THEN /\ stripe' = [stripe EXCEPT ![s].status = "canceled"]
         /\ events' = Append(events, [kind |-> "deleted", id |-> s, status |-> "canceled"])
    ELSE UNCHANGED <<stripe, events>>

-----------------------------------------------------------------------------
(* The callback for Stripe's events.                                                             *)

\* Mutant: an event counts for the team of its customer, whatever subscription it is about.
KnownCustomer(event) == row.id # NoSubscription

\* parseSubscriptionEvent: a team answers to the subscription its row names and to no other.
Known(event) == event.id = row.id

\* Mutant: the sweep loads the running instances only.
DoomedRunning == {i \in Instance : state[i] = "running"}

\* The instances that a cancellation, or the end of a trial, stops.
Doomed == {i \in Instance : state[i] # "suspended"}

Completed(event) ==
    /\ event.kind = "completed"
    /\ suspended' = FALSE
    /\ row' = Subscribed(event.id)
    /\ handler' = IF row = NoRow THEN Idle ELSE Recount(Step("event", "recount"), row', state)

\* A status that the row does not track is only logged.
Updated(event) ==
    /\ event.kind = "updated"
    /\ row' = IF Known(event) /\ event.status \in Tracked
              THEN [row EXCEPT !.status = event.status] ELSE row
    /\ UNCHANGED <<suspended, handler>>

\* Mutant: the cancellation is stored and nothing else.
DeletedRow(event) ==
    /\ event.kind = "deleted"
    /\ row' = IF Known(event) THEN [row EXCEPT !.status = event.status] ELSE row
    /\ UNCHANGED <<suspended, handler>>

Deleted(event) ==
    /\ event.kind = "deleted"
    /\ IF Known(event) THEN /\ row' = [row EXCEPT !.status = event.status]
                            /\ handler' = [Step("event", "sweep") EXCEPT !.todo = Doomed]
                       ELSE UNCHANGED <<row, handler>>
    /\ UNCHANGED suspended

TakeEvent ==
    /\ handler.step = "idle" /\ events # <<>>
    /\ LET event == Head(events) IN Completed(event) \/ Updated(event) \/ Deleted(event)
    /\ events' = Tail(events)
    /\ UNCHANGED <<state, stripe, served>>

-----------------------------------------------------------------------------
(* Trials.                                                                                       *)

TrialEnds ==
    /\ row.trialEndsAt = "future"
    /\ row' = [row EXCEPT !.trialEndsAt = "past"]
    /\ UNCHANGED <<suspended, state, stripe, events, handler, served>>

\* trialTask: a team that pays is recounted, another is stopped.
TrialTask ==
    /\ handler.step = "idle" /\ row.trialEndsAt = "past"
    /\ handler' = IF IsActive(row) THEN Recount(Step("trialTask", "recount"), row, state)
                                   ELSE [Step("trialTask", "sweep") EXCEPT !.todo = Doomed]
    /\ UNCHANGED <<suspended, state, row, stripe, events, served>>

\* updateTrialSettings: refused to a team with a subscription, or with manual billing.
ExtendTrial ==
    /\ Serve("trial")
    /\ row # NoRow /\ row.id = NoSubscription /\ row.status # "unmanaged"
    /\ row' = [row EXCEPT !.trialEndsAt = "future"]
    /\ UNCHANGED <<suspended, state, stripe, events, handler>>

-----------------------------------------------------------------------------
(* Manual billing, and suspension of the team.                                                   *)

\* enableManualBilling: the row forgets its subscription before Stripe is told to cancel it.
EnableManual ==
    /\ Serve("manual")
    /\ row' = [NoRow EXCEPT !.status = "unmanaged"]
    /\ handler' = IF row.id = NoSubscription THEN Idle
                  ELSE [Step("manual", "cancel") EXCEPT !.id = row.id]
    /\ UNCHANGED <<suspended, state, stripe, events>>

CancelExisting ==
    /\ handler.step = "cancel"
    /\ Del(handler.id)
    /\ handler' = Idle
    /\ UNCHANGED <<suspended, state, row, served>>

DisableManual ==
    /\ Serve("manual") /\ row.status = "unmanaged"
    /\ row' = [row EXCEPT !.status = "canceled"]
    /\ UNCHANGED <<suspended, state, stripe, events, handler>>

\* Team.suspend: closeSubscription, then the base function, which stops the running instances.
SuspendTeam ==
    /\ Serve("suspendTeam") /\ ~suspended
    /\ handler' = Step("suspendTeam", "close")
    /\ UNCHANGED <<suspended, state, row, stripe, events>>

CloseSubscription ==
    /\ handler.step = "close"
    /\ IF row.id = NoSubscription THEN UNCHANGED <<stripe, events>> ELSE Del(row.id)
    /\ row' = IF row = NoRow THEN row ELSE [row EXCEPT !.status = "canceled"]
    /\ suspended' = TRUE
    /\ handler' = [handler EXCEPT !.step = "sweep",
                                  !.todo = {i \in Instance : state[i] = "running"}]
    /\ UNCHANGED <<state, served>>

UnsuspendTeam ==
    /\ Serve("unsuspendTeam") /\ suspended
    /\ suspended' = FALSE
    /\ UNCHANGED <<state, row, stripe, events, handler>>

\* containers.stop of one instance after the other; Team.suspend loads them without their team, so
\* there the recount throws, which is caught.
Sweep(i) ==
    /\ handler.step = "sweep" /\ i \in handler.todo
    /\ state' = [state EXCEPT ![i] = "suspended"]
    /\ LET rest == [handler EXCEPT !.todo = @ \ {i}]
       IN handler' = IF handler.op = "suspendTeam" THEN rest ELSE Recount(rest, row, state')
    /\ UNCHANGED <<suspended, row, stripe, events, served>>

\* The handler ends; the trial task has dealt with the trial.
Finish ==
    /\ handler.step = "sweep" /\ handler.todo = {}
    /\ row' = IF handler.op = "trialTask" THEN [row EXCEPT !.trialEndsAt = "none"] ELSE row
    /\ handler' = Idle
    /\ UNCHANGED <<suspended, state, stripe, events, served>>

-----------------------------------------------------------------------------
Requests ==
    \/ \E i \in Instance : StartInstance(i) \/ StartFlows(i) \/ StopFlows(i) \/ SuspendInstance(i)
    \/ BeginSession \/ ExtendTrial \/ EnableManual \/ DisableManual \/ SuspendTeam \/ UnsuspendTeam

HandlerStep ==
    \/ Admit \/ Charge \/ CreateSession \/ CancelExisting \/ CloseSubscription \/ Finish
    \/ \E i \in Instance : Sweep(i)

Environment ==
    \/ \E s \in StripeId : CompleteSession(s) \/ \E status \in Ongoing \cup {"canceled"} : StripeMoves(s, status)
    \/ TrialEnds

Next == Requests \/ HandlerStep \/ Environment \/ TakeEvent \/ TrialTask

Spec == Init /\ [][Next]_vars

\* A handler goes on, Stripe repeats an event until it is answered, and the housekeeper runs the
\* trial task twice an hour; nobody has to pay or to cancel.
Fairness == WF_vars(HandlerStep) /\ WF_vars(TakeEvent) /\ WF_vars(TrialTask)

FairSpec == Spec /\ Fairness

-----------------------------------------------------------------------------
(* Properties.                                                                                   *)

Settled == handler = Idle /\ events = <<>>

\* Once Stripe's events are handled, the row of a team with a subscription has the status that
\* subscription has at Stripe, whoever cancelled it and whatever was still under way then; under a
\* status that the row does not track it is still alive ('unpaid' in the test of the callback).
RowFollowsStripe ==
    Settled /\ row.id # NoSubscription =>
        \/ row.status = stripe[row.id].status
        \/ stripe[row.id].status \notin Tracked /\ row.status \in Live

\* Stripe charges for the instances that are not suspended: also for those
\* started and stopped between the creation of the checkout session and its completion.
QuantityMatches == Settled /\ IsActive(row) => stripe[row.id].quantity = Billable(state)

\* The row has been cancelled without a subscription at Stripe: manual billing was disabled, which
\* leaves the instances running, or the team was suspended before it had a subscription.
LeftRunning == row.status = "canceled" /\ row.id = NoSubscription

\* Nothing runs on a team whose subscription has ended, unless its trial lasts or the task that ends
\* it is due: what a suspension of the team leaves behind is stopped when Stripe reports the
\* cancellation.
NoFreeRide ==
    Settled /\ (\E i \in Instance : state[i] # "suspended")
        => StartAllowed \/ row.trialEndsAt = "past" \/ LeftRunning

\* No sweep stops the instances of a team whose subscription is alive at Stripe, or that pays by
\* other means: a late event about a subscription it had before must not.
PaidKeepsRunning ==
    [][(\E i \in Instance : Sweep(i))
        => row.status # "unmanaged" /\ (row.id # NoSubscription => stripe[row.id].status \notin Ongoing)]_vars

\* A subscription that ends at Stripe, and a trial that ends without one, sooner or later stops the
\* instances of the team, unless it takes a new subscription or its trial is extended first.
Unpaid ==
    \/ row.id # NoSubscription /\ stripe[row.id].status = "canceled"
    \/ row.trialEndsAt = "past" /\ ~IsActive(row)
Paid == row.id # NoSubscription /\ stripe[row.id].status \in Ongoing
UnpaidIsStopped ==
    Unpaid ~> Paid \/ row.status = "unmanaged" \/ row.trialEndsAt = "future"
              \/ \A i \in Instance : state[i] = "suspended"

=============================================================================
