------------------------- MODULE TeamBillingProofs -------------------------
(***************************************************************************)
(* What holds of a team's subscription for any number of instances,        *)
(* checkout sessions and requests, whatever Stripe and the clock do        *)
(* between the steps of the handlers.                                      *)
(*                                                                         *)
(* The properties are about a team whose events are all handled; the       *)
(* invariants below say what holds while some are still to come: the last  *)
(* event about a subscription tells its status at Stripe, the row agrees   *)
(* (or keeps its status, where Stripe's is one that it does not track)     *)
(* once no event is about its subscription, and an instance that runs      *)
(* without being paid for is about to be stopped.                          *)
(***************************************************************************)
EXTENDS TeamBilling, FiniteSetTheorems, SequenceTheorems, TLAPS

Event == [kind : {"completed", "updated", "deleted"}, id : StripeId, status : Ongoing \cup {"canceled"}]

Handler == [op : {"none", "start", "suspend", "session", "event", "trialTask", "manual", "suspendTeam"},
            step : {"idle", "admit", "recount", "charge", "sweep", "session", "cancel", "close"},
            id : StripeId \cup {NoSubscription}, quantity : 0..Cardinality(Instance),
            todo : SUBSET Instance]

HandlerTypes ==
    /\ handler \in Handler
    /\ handler.step # "recount"
    /\ handler.step = "idle" => handler = Idle
    /\ handler.step = "cancel" => handler.id # NoSubscription
    /\ handler.step \notin {"charge", "sweep"} => handler.todo = {} /\ handler.op # "trialTask"

EventTypes ==
    /\ events \in Seq(Event)
    /\ \A n \in 1..Len(events) : events[n].kind = "completed" => events[n].status = "active"
    /\ \A n \in 1..Len(events) : events[n].kind = "deleted" <=> events[n].status = "canceled"

Types == TypeOK /\ HandlerTypes /\ EventTypes

\* A subscription that Stripe has told us of exists, the last event about it tells its status, and
\* one that has come to its end has not reported it before the others.
Reported(es, subscriptions) ==
    \A n \in 1..Len(es) :
        /\ subscriptions[es[n].id].status \in Ongoing \cup {"canceled"}
        /\ es[n].status = "canceled" => subscriptions[es[n].id].status = "canceled"
        /\ (\A m \in (n + 1)..Len(es) : es[m].id # es[n].id)
               => subscriptions[es[n].id].status = es[n].status
        /\ subscriptions[es[n].id].status = "canceled"
               => \E m \in n..Len(es) : es[m].id = es[n].id /\ es[m].kind = "deleted"

Mentions(es, s) == \E n \in 1..Len(es) : es[n].id = s
Cancels(es, s) == \E n \in 1..Len(es) : es[n].id = s /\ es[n].kind = "deleted"

\* The row agrees with Stripe, but for the events that are still to come.
RowInv ==
    /\ Reported(events, stripe)
    /\ row.id # NoSubscription =>
           /\ stripe[row.id].status \in Ongoing \cup {"canceled"}
           /\ row.status \in Live \cup {"canceled"}
           /\ row.status = "canceled" => stripe[row.id].status = "canceled"
           /\ ~Mentions(events, row.id) =>
                  \/ row.status = stripe[row.id].status
                  \/ stripe[row.id].status \notin Tracked /\ row.status \in Live
    /\ row.status = "unmanaged" => row.trialEndsAt = "none"

\* A team that never had a subscription or a trial has never started an instance.
NoRowInv ==
    /\ row.status = "none" => row = NoRow
    /\ row = NoRow => /\ \A i \in Instance : state[i] = "suspended"
                      /\ \A s \in StripeId : stripe[s].quantity = 0
                      /\ handler.quantity = 0

\* Stripe charges for what runs, except while a handler is about to tell it.
ChargeInv ==
    /\ handler.step = "admit" => ~suspended
    /\ handler.step = "charge" => /\ handler.id = row.id /\ IsActive(row)
                                  /\ handler.quantity = Billable(state)
    /\ row.id # NoSubscription /\ handler.step \notin {"admit", "charge"} =>
           stripe[row.id].status \notin Ongoing \/ stripe[row.id].quantity = Billable(state)

\* A handler that stops instances does so because nobody pays for them.
SweepInv ==
    handler.todo # {} => /\ row.status # "unmanaged"
                         /\ row.id # NoSubscription => stripe[row.id].status \notin Ongoing

\* The instances that run without being paid for are stopped by the handler at work, or by the
\* one that takes the event of the cancellation.
Sweeps == handler.step \in {"sweep", "charge"} /\ \A i \in Instance : state[i] # "suspended" => i \in handler.todo

RideInv ==
    /\ (\E i \in Instance : state[i] # "suspended") =>
           \/ StartAllowed \/ row.trialEndsAt = "past" \/ LeftRunning
           \/ Cancels(events, row.id) \/ Sweeps
    /\ handler.op = "trialTask" => IsActive(row) \/ Sweeps

Inv == Types /\ RowInv /\ NoRowInv /\ ChargeInv /\ SweepInv /\ RideInv

-----------------------------------------------------------------------------
(* Sequences of events, and counting *)

LEMMA Appended ==
    ASSUME events \in Seq(Event), NEW e \in Event
    PROVE  /\ Append(events, e) \in Seq(Event) /\ Len(Append(events, e)) = Len(events) + 1
           /\ \A n \in 1..Len(events) : Append(events, e)[n] = events[n]
           /\ Append(events, e)[Len(events) + 1] = e
BY AppendProperties

LEMMA Taken ==
    ASSUME events \in Seq(Event), events # <<>>
    PROVE  /\ Len(events) \in Nat \ {0} /\ Head(events) = events[1] /\ Head(events) \in Event
           /\ Tail(events) \in Seq(Event) /\ Len(Tail(events)) = Len(events) - 1
           /\ \A n \in 1..Len(Tail(events)) : Tail(events)[n] = events[n + 1]
BY HeadTailProperties, EmptySeq, LenProperties

LEMMA Counted ==
    ASSUME NEW states
    PROVE  /\ Billable(states) \in 0..Cardinality(Instance)
           /\ (\A i \in Instance : states[i] = "suspended") => Billable(states) = 0
<1> DEFINE S == {i \in Instance : states[i] # "suspended"}
<1>1. /\ S \subseteq Instance /\ IsFiniteSet(S) /\ Cardinality(S) <= Cardinality(Instance)
      /\ Cardinality(S) \in Nat /\ Cardinality(Instance) \in Nat
    BY FiniteAssumption, FS_Subset, FS_CardinalityType
<1>2. (\A i \in Instance : states[i] = "suspended") => S = {}
    OBVIOUS
<1>3. Cardinality({}) = 0
    BY FS_EmptySet
<1> HIDE DEF S
<1>4. Billable(states) = Cardinality(S)
    BY DEF Billable, S
<1> QED BY <1>1, <1>2, <1>3, <1>4

LEMMA SameCount ==
    ASSUME NEW f, NEW g, \A i \in Instance : f[i] = "suspended" <=> g[i] = "suspended"
    PROVE  Billable(f) = Billable(g)
<1>1. {i \in Instance : f[i] # "suspended"} = {i \in Instance : g[i] # "suspended"}
    OBVIOUS
<1> QED BY <1>1 DEF Billable

LEMMA StepIs ==
    ASSUME NEW op, NEW step
    PROVE  /\ Step(op, step).op = op /\ Step(op, step).step = step
           /\ Step(op, step).id = NoSubscription /\ Step(op, step).quantity = 0
           /\ Step(op, step).todo = {}
BY DEF Step, Idle

\* A recount charges an active subscription and does nothing to another.
LEMMA RecountIs ==
    ASSUME NEW h \in Handler, NEW r, NEW states, r.id \in StripeId \cup {NoSubscription}
    PROVE  /\ Recount(h, r, states) \in Handler
           /\ Recount(h, r, states).op = h.op /\ Recount(h, r, states).todo = h.todo
           /\ Recount(h, r, states).step = IF IsActive(r) THEN "charge" ELSE "sweep"
           /\ IsActive(r) => /\ Recount(h, r, states).id = r.id
                             /\ Recount(h, r, states).quantity = Billable(states)
           /\ ~IsActive(r) => Recount(h, r, states).quantity = h.quantity
BY Counted DEF Recount, Handler

-----------------------------------------------------------------------------
(* What Stripe has reported *)

LEMMA ReportsMore ==
    ASSUME TypeOK, EventTypes, Reported(events, stripe),
           NEW e \in Event, stripe[e.id].status \in Ongoing \cup {"open"},
           stripe' = [stripe EXCEPT ![e.id].status = e.status], events' = Append(events, e),
           e.kind = "completed" => e.status = "active",
           e.kind = "deleted" <=> e.status = "canceled"
    PROVE  /\ EventTypes' /\ Reported(events', stripe')
           /\ \A s \in StripeId : Mentions(events', s) <=> Mentions(events, s) \/ s = e.id
           /\ \A s : Cancels(events, s) => Cancels(events', s)
           /\ e.kind = "deleted" => Cancels(events', e.id)
<1>1. /\ events \in Seq(Event) /\ e.id \in StripeId /\ Len(events) \in Nat
      /\ \A n \in 1..Len(events) : events[n] \in Event /\ events[n].id \in StripeId
    <2>1. events \in Seq(Event) /\ Len(events) \in Nat /\ \A n \in 1..Len(events) : events[n] \in Event
        BY LenProperties, ElementOfSeq DEF EventTypes
    <2> QED BY <2>1 DEF Event
<1>2. /\ events' \in Seq(Event) /\ Len(events') = Len(events) + 1
      /\ \A n \in 1..Len(events) : events'[n] = events[n]
      /\ events'[Len(events) + 1] = e
    BY <1>1, Appended
<1>3. \A n \in 1..Len(events') : n \in 1..Len(events) \/ n = Len(events) + 1
    BY <1>1, <1>2
<1>4. EventTypes'
    BY <1>1, <1>2, <1>3 DEF EventTypes
<1>5. /\ stripe'[e.id].status = e.status
      /\ \A s \in StripeId \ {e.id} : stripe'[s].status = stripe[s].status
    BY <1>1 DEF TypeOK
<1>10. e.kind = "deleted" <=> e.status = "canceled"
    OBVIOUS
<1>6. Reported(events', stripe')
    <2> SUFFICES ASSUME NEW n \in 1..Len(events')
                 PROVE  /\ stripe'[events'[n].id].status \in Ongoing \cup {"canceled"}
                        /\ events'[n].status = "canceled" => stripe'[events'[n].id].status = "canceled"
                        /\ (\A m \in (n + 1)..Len(events') : events'[m].id # events'[n].id)
                               => stripe'[events'[n].id].status = events'[n].status
                        /\ stripe'[events'[n].id].status = "canceled"
                               => \E m \in n..Len(events') : /\ events'[m].id = events'[n].id
                                                              /\ events'[m].kind = "deleted"
        BY DEF Reported
    <2>1. CASE n = Len(events) + 1
        BY <1>1, <1>2, <1>5, <1>10, <2>1 DEF Event
    <2>2. CASE n \in 1..Len(events) /\ events[n].id = e.id
        <3>3. Len(events') \in n..Len(events') /\ events'[Len(events')] = e
            BY <1>1, <1>2, <2>2
        <3>1. Len(events') \in (n + 1)..Len(events') /\ events'[Len(events')].id = events'[n].id
            BY <1>1, <1>2, <2>2
        <3>2. events[n].status # "canceled"
            BY <2>2 DEF Reported, Live, Ongoing
        <3> QED BY <1>2, <1>5, <1>10, <2>2, <3>1, <3>2, <3>3 DEF Event
    <2>3. CASE n \in 1..Len(events) /\ events[n].id # e.id
        <3>1. \A m \in (n + 1)..Len(events) : m \in (n + 1)..Len(events') /\ events'[m] = events[m]
            BY <1>1, <1>2, <2>3
        <3>2. \A m \in n..Len(events) : m \in n..Len(events') /\ events'[m] = events[m]
            BY <1>1, <1>2, <2>3
        <3> QED BY <1>1, <1>2, <1>5, <2>3, <3>1, <3>2 DEF Reported
    <2> QED BY <1>3, <2>1, <2>2, <2>3
<1>7. \A s \in StripeId : Mentions(events', s) <=> Mentions(events, s) \/ s = e.id
    BY <1>1, <1>2, <1>3 DEF Mentions
<1>8. \A s : Cancels(events, s) => Cancels(events', s)
    BY <1>1, <1>2 DEF Cancels
<1>9. e.kind = "deleted" => Cancels(events', e.id)
    BY <1>1, <1>2 DEF Cancels
<1> QED BY <1>4, <1>6, <1>7, <1>8, <1>9

LEMMA ReportsLess ==
    ASSUME TypeOK, EventTypes, Reported(events, stripe), events # <<>>, UNCHANGED stripe,
           events' = Tail(events)
    PROVE  /\ Head(events) \in Event /\ EventTypes' /\ Reported(events', stripe')
           /\ Head(events).kind = "completed" => Head(events).status = "active"
           /\ Head(events).kind = "deleted" <=> Head(events).status = "canceled"
           /\ stripe[Head(events).id].status \in Ongoing \cup {"canceled"}
           /\ Head(events).status = "canceled" => stripe[Head(events).id].status = "canceled"
           /\ ~Mentions(events', Head(events).id)
                  => stripe[Head(events).id].status = Head(events).status
           /\ \A s : Mentions(events, s) => Mentions(events', s) \/ s = Head(events).id
           /\ \A s : Cancels(events, s)
                  => Cancels(events', s) \/ (s = Head(events).id /\ Head(events).kind = "deleted")
<1>1. /\ Len(events) \in Nat \ {0} /\ Head(events) = events[1] /\ Head(events) \in Event
      /\ Tail(events) \in Seq(Event) /\ Len(events') = Len(events) - 1
      /\ \A n \in 1..Len(events') : events'[n] = events[n + 1]
    BY Taken DEF EventTypes
<1>2. \A n \in 1..Len(events) : n = 1 \/ n \in 2..Len(events)
    BY <1>1
<1>3. \A n \in 2..Len(events) : n - 1 \in 1..Len(events') /\ events'[n - 1] = events[n]
    BY <1>1
<1>4. \A n \in 1..Len(events') : n + 1 \in 1..Len(events)
    BY <1>1
<1>5. EventTypes'
    BY <1>1, <1>4 DEF EventTypes
<1>6. Reported(events', stripe')
    <2> SUFFICES ASSUME NEW n \in 1..Len(events')
                 PROVE  /\ stripe[events'[n].id].status \in Ongoing \cup {"canceled"}
                        /\ events'[n].status = "canceled" => stripe[events'[n].id].status = "canceled"
                        /\ (\A m \in (n + 1)..Len(events') : events'[m].id # events'[n].id)
                               => stripe[events'[n].id].status = events'[n].status
                        /\ stripe[events'[n].id].status = "canceled"
                               => \E m \in n..Len(events') : /\ events'[m].id = events'[n].id
                                                              /\ events'[m].kind = "deleted"
        BY DEF Reported
    <2>1. events'[n] = events[n + 1] /\ n + 1 \in 1..Len(events)
        BY <1>1, <1>4
    <2>2. \A m \in ((n + 1) + 1)..Len(events) :
              m - 1 \in (n + 1)..Len(events') /\ events'[m - 1] = events[m]
        BY <1>1, <2>1
    <2>3. (\A m \in (n + 1)..Len(events') : events'[m].id # events'[n].id)
              => \A m \in ((n + 1) + 1)..Len(events) : events[m].id # events[n + 1].id
        BY <2>1, <2>2
    <2>4. \A m \in (n + 1)..Len(events) : m - 1 \in n..Len(events') /\ events'[m - 1] = events[m]
        BY <1>1, <2>1
    <2>5. (\E m \in (n + 1)..Len(events) : events[m].id = events[n + 1].id /\ events[m].kind = "deleted")
              => \E m \in n..Len(events') : /\ events'[m].id = events'[n].id
                                             /\ events'[m].kind = "deleted"
        BY <2>1, <2>4
    <2> QED BY <2>1, <2>3, <2>5 DEF Reported
<1>7. 1 \in 1..Len(events)
    BY <1>1
<1>8. ~Mentions(events', events[1].id) => stripe[events[1].id].status = events[1].status
    <2>1. \A m \in (1 + 1)..Len(events) : m - 1 \in 1..Len(events') /\ events'[m - 1] = events[m]
        BY <1>1
    <2>2. ~Mentions(events', events[1].id) => \A m \in (1 + 1)..Len(events) : events[m].id # events[1].id
        BY <2>1 DEF Mentions
    <2> QED BY <1>7, <2>2 DEF Reported
<1>9. ASSUME NEW s, Mentions(events, s)
      PROVE  Mentions(events', s) \/ s = Head(events).id
    <2>1. PICK n \in 1..Len(events) : events[n].id = s
        BY <1>9 DEF Mentions
    <2>2. CASE n = 1
        BY <2>1, <2>2, <1>1
    <2>3. CASE n \in 2..Len(events)
        <3>1. n - 1 \in 1..Len(events') /\ events'[n - 1].id = s
            BY <2>1, <2>3, <1>3
        <3> QED BY <3>1 DEF Mentions
    <2> QED BY <2>2, <2>3, <1>2
<1>10. ASSUME NEW s, Cancels(events, s)
       PROVE  Cancels(events', s) \/ (s = Head(events).id /\ Head(events).kind = "deleted")
    <2>1. PICK n \in 1..Len(events) : events[n].id = s /\ events[n].kind = "deleted"
        BY <1>10 DEF Cancels
    <2>2. CASE n = 1
        BY <2>1, <2>2, <1>1
    <2>3. CASE n \in 2..Len(events)
        <3>1. n - 1 \in 1..Len(events') /\ events'[n - 1].id = s /\ events'[n - 1].kind = "deleted"
            BY <2>1, <2>3, <1>3
        <3> QED BY <3>1 DEF Cancels
    <2> QED BY <2>2, <2>3, <1>2
<1> QED BY <1>1, <1>5, <1>6, <1>7, <1>8, <1>9, <1>10 DEF EventTypes, Reported

\* What Stripe has cancelled, and has told us of, it will tell us that it has cancelled.
LEMMA CancelComes ==
    ASSUME EventTypes, Reported(events, stripe), NEW s \in StripeId, Mentions(events, s),
           stripe[s].status = "canceled"
    PROVE  Cancels(events, s)
<1>1. Len(events) \in Nat
    BY LenProperties DEF EventTypes
<1>2. PICK n \in 1..Len(events) : events[n].id = s
    BY DEF Mentions
<1>3. PICK m \in n..Len(events) : events[m].id = s /\ events[m].kind = "deleted"
    BY <1>2 DEF Reported
<1>4. m \in 1..Len(events)
    BY <1>1
<1> QED BY <1>3, <1>4 DEF Cancels

-----------------------------------------------------------------------------
(* Steps that leave the subscription alone *)

LEMMA RowApart == RowInv /\ UNCHANGED <<row, stripe, events>> => RowInv'
BY DEF RowInv, Mentions, Reported

LEMMA TypesFrom ==
    ASSUME Types,
           suspended' \in BOOLEAN, state' \in [Instance -> {"running", "stopped", "suspended"}],
           UNCHANGED <<row, stripe, events>>, served' \in 0..MaxOps,
           handler' \in Handler, handler'.step # "recount", handler'.step = "idle" => handler' = Idle,
           handler'.step = "cancel" => handler'.id # NoSubscription,
           handler'.step \notin {"charge", "sweep"} => handler'.todo = {} /\ handler'.op # "trialTask"
    PROVE  Types'
BY DEF Types, TypeOK, EventTypes, HandlerTypes

LEMMA ServedType == Types /\ served < MaxOps => served + 1 \in 0..MaxOps /\ served \in 0..MaxOps
BY BoundsAssumption DEF Types, TypeOK

LEMMA IdleFields ==
    /\ Idle \in Handler /\ Idle.step = "idle" /\ Idle.op = "none" /\ Idle.todo = {}
    /\ Idle.quantity = 0
<1>1. Cardinality(Instance) \in Nat
    BY FiniteAssumption, FS_CardinalityType
<1> QED BY <1>1 DEF Idle, Handler, NoSubscription

\* The first step of a request.
LEMMA StepFields ==
    ASSUME NEW op \in {"start", "suspend", "session", "event", "trialTask", "manual", "suspendTeam"},
           NEW step \in {"admit", "recount", "sweep", "session", "cancel", "close"}
    PROVE  /\ Step(op, step) \in Handler
           /\ Step(op, step).op = op /\ Step(op, step).step = step
           /\ Step(op, step).quantity = 0 /\ Step(op, step).todo = {}
BY IdleFields DEF Step, Idle, Handler

LEMMA StartsRequest ==
    ASSUME Inv, handler = Idle, UNCHANGED <<suspended, state, row, stripe, events>>,
           served' \in 0..MaxOps, handler' \in Handler, handler'.step \in {"session", "close"},
           handler'.op # "trialTask", handler'.todo = {}, row = NoRow => handler'.quantity = 0
    PROVE  Inv'
<1>1. Types'
    BY TypesFrom DEF Inv, Types, TypeOK
<1>2. RowInv'
    BY RowApart DEF Inv
<1>3. NoRowInv' /\ SweepInv'
    BY DEF Inv, NoRowInv, SweepInv
<1>4. ChargeInv'
    BY IdleFields DEF Inv, ChargeInv
<1>5. RideInv'
    BY IdleFields DEF Inv, RideInv, Sweeps, StartAllowed, IsActive, LeftRunning
<1> QED BY <1>1, <1>2, <1>3, <1>4, <1>5 DEF Inv

LEMMA AtRest == Inv /\ handler.step = "idle" => handler = Idle
BY DEF Inv, Types, HandlerTypes

LEMMA BeginSessionKeeps == Inv /\ BeginSession => Inv'
<1> SUFFICES ASSUME Inv, BeginSession PROVE Inv'
    OBVIOUS
<1>1. handler = Idle /\ served' \in 0..MaxOps /\ UNCHANGED <<suspended, state, row, stripe, events>>
    BY AtRest, ServedType DEF BeginSession, Serve, Inv
<1>2. row = NoRow => Billable(state) = 0
    BY Counted DEF Inv, NoRowInv
<1> DEFINE h == Step("session", "session")
<1>3. h \in Handler /\ h.op = "session" /\ h.step = "session" /\ h.todo = {}
    BY StepFields
<1>4. handler' = [h EXCEPT !.quantity = Billable(state)]
    BY DEF BeginSession
<1> HIDE DEF h
<1>5. /\ handler' \in Handler /\ handler'.op = "session" /\ handler'.step = "session"
      /\ handler'.todo = {} /\ handler'.quantity = Billable(state)
    BY <1>3, <1>4, Counted DEF Handler
<1> QED BY <1>1, <1>2, <1>5, StartsRequest

LEMMA SuspendTeamKeeps == Inv /\ SuspendTeam => Inv'
<1> SUFFICES ASSUME Inv, SuspendTeam PROVE Inv'
    OBVIOUS
<1>1. handler = Idle /\ served' \in 0..MaxOps /\ UNCHANGED <<suspended, state, row, stripe, events>>
    BY AtRest, ServedType DEF SuspendTeam, Serve, Inv
<1>2. /\ handler' \in Handler /\ handler'.op = "suspendTeam" /\ handler'.step = "close"
      /\ handler'.todo = {} /\ handler'.quantity = 0
    BY StepFields DEF SuspendTeam
<1> QED BY <1>1, <1>2, StartsRequest

LEMMA UnsuspendTeamKeeps == Inv /\ UnsuspendTeam => Inv'
<1> SUFFICES ASSUME Inv, UnsuspendTeam PROVE Inv'
    OBVIOUS
<1>1. handler = Idle /\ served' \in 0..MaxOps /\ UNCHANGED <<state, row, stripe, events, handler>>
      /\ suspended' = FALSE
    BY AtRest, ServedType DEF UnsuspendTeam, Serve, Inv
<1>2. Types'
    BY <1>1 DEF Inv, Types, TypeOK, EventTypes, HandlerTypes
<1>3. RowInv'
    BY <1>1, RowApart DEF Inv
<1> QED BY <1>1, <1>2, <1>3
        DEF Inv, NoRowInv, SweepInv, ChargeInv, RideInv, Sweeps, StartAllowed, IsActive, LeftRunning

\* Instances that are not suspended start and stop their flows.
LEMMA FlowsKeep ==
    ASSUME Inv, NEW i \in Instance, StartFlows(i) \/ StopFlows(i)
    PROVE  Inv'
<1>1. handler = Idle /\ served' \in 0..MaxOps /\ UNCHANGED <<suspended, row, stripe, events, handler>>
    BY AtRest, ServedType DEF StartFlows, StopFlows, Serve, Inv
<1>2. /\ state' \in [Instance -> {"running", "stopped", "suspended"}]
      /\ \A j \in Instance : state'[j] = "suspended" <=> state[j] = "suspended"
    BY DEF StartFlows, StopFlows, Inv, Types, TypeOK
<1>3. Types'
    BY <1>1, <1>2 DEF Inv, Types, TypeOK, EventTypes, HandlerTypes
<1>4. RowInv'
    BY <1>1, RowApart DEF Inv
<1>5. Billable(state') = Billable(state)
    BY <1>2, SameCount
<1>6. ChargeInv'
    BY <1>1, <1>5 DEF Inv, ChargeInv
<1>7. NoRowInv' /\ SweepInv'
    BY <1>1, <1>2 DEF Inv, NoRowInv, SweepInv
<1>8. RideInv'
    BY <1>1, <1>2 DEF Inv, RideInv, Sweeps, StartAllowed, IsActive, LeftRunning
<1> QED BY <1>3, <1>4, <1>6, <1>7, <1>8 DEF Inv

LEMMA StartInstanceKeeps ==
    ASSUME Inv, NEW i \in Instance, StartInstance(i)
    PROVE  Inv'
<1>1. handler = Idle /\ served' \in 0..MaxOps /\ UNCHANGED <<suspended, row, stripe, events>>
      /\ ~suspended /\ StartAllowed /\ row # NoRow
    BY AtRest, ServedType DEF StartInstance, Serve, Inv, StartAllowed, IsActive, NoRow, Live, Ongoing
<1>2. state' \in [Instance -> {"running", "stopped", "suspended"}]
    BY DEF StartInstance, Inv, Types, TypeOK
<1>3. /\ handler' \in Handler /\ handler'.op = "start" /\ handler'.step = "admit"
      /\ handler'.todo = {}
    BY StepFields DEF StartInstance
<1>4. Types'
    BY <1>1, <1>2, <1>3, TypesFrom DEF Inv, Types, TypeOK
<1>5. RowInv'
    BY <1>1, RowApart DEF Inv
<1>6. ChargeInv' /\ NoRowInv' /\ SweepInv'
    BY <1>1, <1>3 DEF Inv, NoRowInv, SweepInv, ChargeInv
<1>7. RideInv'
    BY <1>1, <1>3 DEF RideInv, StartAllowed, IsActive
<1> QED BY <1>4, <1>5, <1>6, <1>7 DEF Inv

-----------------------------------------------------------------------------
(* Recounts and sweeps *)

\* A subscription that is not active in the row is not alive at Stripe.
LEMMA NotAlive ==
    ASSUME RowInv, row.id # NoSubscription, ~IsActive(row)
    PROVE  stripe[row.id].status \notin Ongoing
BY DEF RowInv, IsActive, Live, Ongoing

LEMMA Recounts ==
    ASSUME TypeOK', EventTypes', RowInv', NEW h \in Handler, handler' = Recount(h, row', state'),
           (row.status = "none" => row = NoRow)',
           (row = NoRow => /\ \A i \in Instance : state[i] = "suspended"
                           /\ \A s \in StripeId : stripe[s].quantity = 0)',
           row' = NoRow => h.quantity = 0,
           h.todo # {} => /\ row'.status # "unmanaged"
                          /\ row'.id # NoSubscription => stripe'[row'.id].status \notin Ongoing,
           (\E i \in Instance : state'[i] # "suspended") =>
               \/ (StartAllowed \/ row.trialEndsAt = "past" \/ LeftRunning \/ Cancels(events, row.id))'
               \/ \A i \in Instance : state'[i] # "suspended" => i \in h.todo,
           h.op = "trialTask" =>
               \/ IsActive(row')
               \/ \A i \in Instance : state'[i] # "suspended" => i \in h.todo
    PROVE  Inv'
<1>1. row'.id \in StripeId \cup {NoSubscription}
    BY DEF TypeOK
<1>2. /\ handler' \in Handler /\ handler'.op = h.op /\ handler'.todo = h.todo
      /\ handler'.step = IF IsActive(row') THEN "charge" ELSE "sweep"
      /\ IsActive(row') => handler'.id = row'.id /\ handler'.quantity = Billable(state')
      /\ ~IsActive(row') => handler'.quantity = h.quantity
    BY <1>1, RecountIs
<1>3. handler'.step \in {"charge", "sweep"}
    BY <1>2
<1>4. Types'
    BY <1>2, <1>3 DEF Types, HandlerTypes
<1>5. row' = NoRow => ~IsActive(row')
    BY DEF NoRow, IsActive, Live, Ongoing
<1>6. NoRowInv' /\ SweepInv'
    BY <1>2, <1>5 DEF NoRowInv, SweepInv
<1>7. row'.id # NoSubscription /\ ~IsActive(row') => stripe'[row'.id].status \notin Ongoing
    BY DEF RowInv, IsActive, Live, Ongoing
<1>8. ChargeInv'
    BY <1>2, <1>7 DEF ChargeInv
<1>9. RideInv'
    BY <1>2, <1>3 DEF RideInv, Sweeps
<1> QED BY <1>4, <1>6, <1>8, <1>9 DEF Inv

LEMMA AdmitKeeps == Inv /\ Admit => Inv'
<1> SUFFICES ASSUME Inv, Admit PROVE Inv'
    OBVIOUS
<1>1. /\ handler.step = "admit" /\ handler.todo = {} /\ handler \in Handler /\ ~suspended
      /\ ~Sweeps /\ UNCHANGED <<suspended, state, row, stripe, events, served>>
    BY DEF Admit, Inv, Types, HandlerTypes, ChargeInv, Sweeps
<1>2. handler' = Recount(handler, row, state)
    <2>1. CASE StartAllowed
        BY <1>1, <2>1 DEF Admit
    <2>2. CASE ~StartAllowed
        BY <1>1, <2>2 DEF Admit, StartAllowed, Recount
    <2> QED BY <2>1, <2>2
<1>3. TypeOK' /\ EventTypes' /\ RowInv'
    BY <1>1, RowApart DEF Inv, Types, TypeOK, EventTypes
<1>4. /\ (StartAllowed \/ row.trialEndsAt = "past" \/ LeftRunning \/ Cancels(events, row.id))'
          = (StartAllowed \/ row.trialEndsAt = "past" \/ LeftRunning \/ Cancels(events, row.id))
    BY <1>1 DEF StartAllowed, IsActive, LeftRunning, Cancels
<1> QED BY <1>1, <1>2, <1>3, <1>4, Recounts DEF Inv, NoRowInv, RideInv

LEMMA SuspendInstanceKeeps ==
    ASSUME Inv, NEW i \in Instance, SuspendInstance(i)
    PROVE  Inv'
<1>1. /\ handler = Idle /\ served' \in 0..MaxOps /\ UNCHANGED <<suspended, row, stripe, events>>
      /\ state' = [state EXCEPT ![i] = "suspended"]
    BY AtRest, ServedType DEF SuspendInstance, Serve, Inv
<1> DEFINE h == Step("suspend", "recount")
<1>2. /\ h \in Handler /\ h.op = "suspend" /\ h.quantity = 0 /\ h.todo = {}
      /\ handler' = Recount(h, row', state')
    BY <1>1, StepFields DEF SuspendInstance
<1> HIDE DEF h
<1>3. TypeOK' /\ EventTypes' /\ RowInv'
    BY <1>1, RowApart DEF Inv, Types, TypeOK, EventTypes
<1>4. \A j \in Instance : state'[j] # "suspended" => state[j] # "suspended"
    BY <1>1 DEF Inv, Types, TypeOK
<1>5. ~Sweeps
    BY <1>1, IdleFields DEF Sweeps
<1>6. /\ (StartAllowed \/ row.trialEndsAt = "past" \/ LeftRunning \/ Cancels(events, row.id))'
          = (StartAllowed \/ row.trialEndsAt = "past" \/ LeftRunning \/ Cancels(events, row.id))
    BY <1>1 DEF StartAllowed, IsActive, LeftRunning, Cancels
<1> QED BY <1>1, <1>2, <1>3, <1>4, <1>5, <1>6, Recounts DEF Inv, NoRowInv, RideInv

LEMMA SweepKeeps ==
    ASSUME Inv, NEW i \in Instance, Sweep(i)
    PROVE  Inv'
<1>1. /\ handler.step = "sweep" /\ i \in handler.todo /\ handler \in Handler
      /\ UNCHANGED <<suspended, row, stripe, events, served>>
      /\ state' = [state EXCEPT ![i] = "suspended"]
    BY DEF Sweep, Inv, Types, HandlerTypes
<1> DEFINE rest == [handler EXCEPT !.todo = @ \ {i}]
<1>2. /\ rest \in Handler /\ rest.op = handler.op /\ rest.quantity = handler.quantity
      /\ rest.todo = handler.todo \ {i} /\ rest.step = "sweep" /\ rest.id = handler.id
    BY <1>1 DEF Handler
<1>3. handler' = IF handler.op = "suspendTeam" THEN rest ELSE Recount(rest, row', state')
    BY <1>1 DEF Sweep
<1> HIDE DEF rest
<1>4. TypeOK' /\ EventTypes' /\ RowInv'
    BY <1>1, RowApart DEF Inv, Types, TypeOK, EventTypes
<1>5. /\ \A j \in Instance : state'[j] # "suspended" => state[j] # "suspended" /\ j # i
      /\ \A j \in Instance : state[j] = "suspended" => state'[j] = "suspended"
    BY <1>1 DEF Inv, Types, TypeOK
<1>6. /\ (StartAllowed \/ row.trialEndsAt = "past" \/ LeftRunning \/ Cancels(events, row.id))'
          = (StartAllowed \/ row.trialEndsAt = "past" \/ LeftRunning \/ Cancels(events, row.id))
      /\ IsActive(row') = IsActive(row)
    BY <1>1 DEF StartAllowed, IsActive, LeftRunning, Cancels
<1>7. /\ row.status # "unmanaged"
      /\ row.id # NoSubscription => stripe[row.id].status \notin Ongoing
    BY <1>1 DEF Inv, SweepInv
<1>8. Sweeps => \A j \in Instance : state'[j] # "suspended" => j \in rest.todo
    BY <1>2, <1>5 DEF Sweeps
<1>9. CASE handler.op = "suspendTeam"
    <2>1. handler' = rest
        BY <1>3, <1>9
    <2>2. Types'
        BY <1>1, <1>2, <1>4, <2>1 DEF Types, HandlerTypes
    <2>3. NoRowInv' /\ SweepInv' /\ ChargeInv'
        BY <1>1, <1>2, <1>5, <1>7, <2>1 DEF Inv, NoRowInv, SweepInv, ChargeInv
    <2>4. RideInv'
        BY <1>2, <1>5, <1>6, <1>8, <1>9, <2>1 DEF Inv, RideInv, Sweeps
    <2> QED BY <1>4, <2>2, <2>3, <2>4 DEF Inv
<1>10. CASE handler.op # "suspendTeam"
    <2>1. handler' = Recount(rest, row', state')
        BY <1>3, <1>10
    <2>2. row' = NoRow => rest.quantity = 0
        BY <1>1, <1>2 DEF Inv, NoRowInv
    <2>3. /\ (row.status = "none" => row = NoRow)'
          /\ (row = NoRow => /\ \A j \in Instance : state[j] = "suspended"
                             /\ \A s \in StripeId : stripe[s].quantity = 0)'
        BY <1>1, <1>5 DEF Inv, NoRowInv
    <2>4. (\E j \in Instance : state'[j] # "suspended") =>
              \/ (StartAllowed \/ row.trialEndsAt = "past" \/ LeftRunning \/ Cancels(events, row.id))'
              \/ \A j \in Instance : state'[j] # "suspended" => j \in rest.todo
        BY <1>5, <1>6, <1>8 DEF Inv, RideInv
    <2>5. rest.op = "trialTask" =>
              IsActive(row') \/ \A j \in Instance : state'[j] # "suspended" => j \in rest.todo
        BY <1>2, <1>6, <1>8 DEF Inv, RideInv
    <2>6. rest.todo # {} => /\ row'.status # "unmanaged"
                            /\ row'.id # NoSubscription => stripe'[row'.id].status \notin Ongoing
        BY <1>1, <1>7
    <2> QED BY <1>2, <1>4, <2>1, <2>2, <2>3, <2>4, <2>5, <2>6, Recounts
<1> QED BY <1>9, <1>10

LEMMA TrialTaskKeeps == Inv /\ TrialTask => Inv'
<1> SUFFICES ASSUME Inv, TrialTask PROVE Inv'
    OBVIOUS
<1>1. /\ handler = Idle /\ row.trialEndsAt = "past"
      /\ UNCHANGED <<suspended, state, row, stripe, events, served>>
    BY AtRest DEF TrialTask
<1>2. TypeOK' /\ EventTypes' /\ RowInv'
    BY <1>1, RowApart DEF Inv, Types, TypeOK, EventTypes
<1>3. row # NoRow /\ row.status # "unmanaged"
    BY <1>1 DEF NoRow, Inv, RowInv
<1> DEFINE h == [Step("trialTask", "sweep") EXCEPT !.todo = Doomed]
           k == Step("trialTask", "recount")
<1>4. /\ h \in Handler /\ h.op = "trialTask" /\ h.todo = Doomed /\ h.step = "sweep"
      /\ k \in Handler /\ k.op = "trialTask" /\ k.todo = {} /\ k.quantity = 0
    <2> DEFINE m == Step("trialTask", "sweep")
    <2>1. m \in Handler /\ m.op = "trialTask" /\ m.step = "sweep"
        BY StepFields
    <2> HIDE DEF m
    <2>2. [m EXCEPT !.todo = Doomed] \in Handler /\ [m EXCEPT !.todo = Doomed].op = "trialTask"
          /\ [m EXCEPT !.todo = Doomed].step = "sweep" /\ [m EXCEPT !.todo = Doomed].todo = Doomed
        BY <2>1 DEF Handler, Doomed
    <2>3. k \in Handler /\ k.op = "trialTask" /\ k.todo = {} /\ k.quantity = 0
        BY StepFields
    <2> QED BY <2>2, <2>3 DEF m
<1>5. handler' = IF IsActive(row) THEN Recount(k, row', state') ELSE h
    BY <1>1 DEF TrialTask
<1> HIDE DEF h, k
<1>6. CASE IsActive(row)
    <2>1. StartAllowed'
        BY <1>1, <1>6 DEF StartAllowed, IsActive
    <2> QED BY <1>1, <1>2, <1>3, <1>4, <1>5, <1>6, <2>1, Recounts DEF Inv, NoRowInv
<1>7. CASE ~IsActive(row)
    <2>1. Types'
        BY <1>2, <1>4, <1>5, <1>7 DEF Types, HandlerTypes
    <2>2. Sweeps'
        BY <1>1, <1>4, <1>5, <1>7 DEF Sweeps, Doomed
    <2>3. NoRowInv' /\ SweepInv' /\ ChargeInv' /\ RideInv'
        BY <1>1, <1>3, <1>4, <1>5, <1>7, <2>2, NotAlive
        DEF Inv, NoRowInv, SweepInv, ChargeInv, RideInv
    <2> QED BY <1>2, <2>1, <2>3 DEF Inv
<1> QED BY <1>6, <1>7

-----------------------------------------------------------------------------
(* Steps that change what Stripe keeps, and not what it has reported *)

LEMMA QuantityTypes ==
    ASSUME Inv, NEW s \in StripeId, NEW subscription, UNCHANGED <<row, events, state>>,
           stripe' = [stripe EXCEPT ![s] = subscription],
           subscription \in [status : Ongoing \cup {"none", "open", "canceled"},
                             quantity : 0..Cardinality(Instance)],
           \/ subscription.status = stripe[s].status
           \/ stripe[s].status \notin Ongoing \cup {"canceled"} /\ row.id # s
    PROVE  /\ stripe' \in [StripeId -> [status : Ongoing \cup {"none", "open", "canceled"},
                                        quantity : 0..Cardinality(Instance)]]
           /\ EventTypes' /\ RowInv' /\ stripe'[s] = subscription
           /\ \A t \in StripeId \ {s} : stripe'[t] = stripe[t]
<1>1. /\ stripe' \in [StripeId -> [status : Ongoing \cup {"none", "open", "canceled"},
                                   quantity : 0..Cardinality(Instance)]]
      /\ stripe'[s] = subscription /\ \A t \in StripeId \ {s} : stripe'[t] = stripe[t]
    BY DEF Inv, Types, TypeOK
<1>2. EventTypes'
    BY DEF Inv, Types, EventTypes
<1>3. Len(events) \in Nat /\ \A n \in 1..Len(events) : events[n].id \in StripeId
    <2>1. Len(events) \in Nat /\ \A n \in 1..Len(events) : events[n] \in Event
        BY LenProperties, ElementOfSeq DEF Inv, Types, EventTypes
    <2> QED BY <2>1 DEF Event
<1>4. Reported(events, stripe)
    BY DEF Inv, RowInv
<1>5. \A n \in 1..Len(events) : stripe'[events[n].id].status = stripe[events[n].id].status
    BY <1>1, <1>3, <1>4 DEF Reported
<1>6. Reported(events, stripe')
    BY <1>4, <1>5 DEF Reported
<1>7. row.id # NoSubscription => stripe'[row.id].status = stripe[row.id].status
    BY <1>1 DEF Inv, Types, TypeOK
<1>8. RowInv'
    BY <1>6, <1>7 DEF Inv, RowInv, Mentions
<1> QED BY <1>1, <1>2, <1>8

LEMMA ChargeKeeps == Inv /\ Charge => Inv'
<1> SUFFICES ASSUME Inv, Charge PROVE Inv'
    OBVIOUS
<1>1. /\ handler.step = "charge" /\ handler.id = row.id /\ IsActive(row)
      /\ handler.quantity = Billable(state) /\ handler \in Handler
      /\ handler' = [handler EXCEPT !.step = "sweep"]
      /\ UNCHANGED <<suspended, state, row, events, served>>
    BY DEF Charge, Inv, ChargeInv, Types, HandlerTypes
<1>2. row.id \in StripeId /\ row # NoRow
    BY <1>1 DEF Inv, Types, TypeOK, IsActive, NoRow, Live, Ongoing
<1>3. /\ handler' \in Handler /\ handler'.step = "sweep" /\ handler'.op = handler.op
      /\ handler'.todo = handler.todo
    BY <1>1 DEF Handler
<1> DEFINE charged == [stripe[row.id] EXCEPT !.quantity = handler.quantity]
<1>4. /\ charged.status = stripe[row.id].status /\ charged.quantity = Billable(state)
      /\ charged \in [status : Ongoing \cup {"none", "open", "canceled"},
                      quantity : 0..Cardinality(Instance)]
    BY <1>1, <1>2, Counted DEF Inv, Types, TypeOK
<1>5. \/ stripe[row.id].status \in Ongoing /\ stripe' = [stripe EXCEPT ![row.id] = charged]
      \/ stripe[row.id].status \notin Ongoing /\ UNCHANGED stripe
    <2>1. CASE stripe[row.id].status \in Ongoing
        BY <1>1, <2>1 DEF Charge
    <2>2. CASE stripe[row.id].status \notin Ongoing
        BY <1>1, <2>2 DEF Charge
    <2> QED BY <2>1, <2>2
<1> HIDE DEF charged
<1>6. CASE stripe[row.id].status \in Ongoing /\ stripe' = [stripe EXCEPT ![row.id] = charged]
    <2>1. /\ TypeOK' /\ EventTypes' /\ RowInv' /\ stripe'[row.id] = charged
        BY <1>1, <1>2, <1>4, <1>6, QuantityTypes DEF Inv, Types, TypeOK
    <2>2. Types'
        BY <1>3, <2>1 DEF Types, HandlerTypes
    <2>3. ChargeInv' /\ NoRowInv' /\ SweepInv'
        BY <1>1, <1>2, <1>3, <1>4, <2>1 DEF Inv, ChargeInv, NoRowInv, SweepInv, NoRow, IsActive, Live, Ongoing
    <2>4. RideInv'
        BY <1>1, <1>3 DEF Inv, RideInv, Sweeps, StartAllowed, IsActive, LeftRunning, Cancels
    <2> QED BY <2>1, <2>2, <2>3, <2>4 DEF Inv
<1>7. CASE stripe[row.id].status \notin Ongoing /\ UNCHANGED stripe
    <2>1. TypeOK' /\ EventTypes' /\ RowInv'
        BY <1>1, <1>7, RowApart DEF Inv, Types, TypeOK, EventTypes
    <2>2. Types'
        BY <1>3, <2>1 DEF Types, HandlerTypes
    <2>3. ChargeInv' /\ NoRowInv' /\ SweepInv'
        BY <1>1, <1>2, <1>3, <1>7 DEF Inv, ChargeInv, NoRowInv, SweepInv, NoRow, IsActive, Live, Ongoing
    <2>4. RideInv'
        BY <1>1, <1>3 DEF Inv, RideInv, Sweeps, StartAllowed, IsActive, LeftRunning, Cancels
    <2> QED BY <2>1, <2>2, <2>3, <2>4 DEF Inv
<1> QED BY <1>5, <1>6, <1>7

LEMMA CreateSessionKeeps == Inv /\ CreateSession => Inv'
<1> SUFFICES ASSUME Inv, CreateSession PROVE Inv'
    OBVIOUS
<1>1. /\ handler.step = "session" /\ handler \in Handler /\ handler' = Idle
      /\ UNCHANGED <<suspended, state, row, events, served>>
    BY DEF CreateSession, Inv, Types, HandlerTypes
<1> DEFINE opened == [status |-> "open", quantity |-> handler.quantity]
<1>2. PICK s \in StripeId : stripe[s].status = "none" /\ stripe' = [stripe EXCEPT ![s] = opened]
    BY DEF CreateSession
<1>3. opened \in [status : Ongoing \cup {"none", "open", "canceled"},
                  quantity : 0..Cardinality(Instance)] /\ opened.quantity = handler.quantity
    BY <1>1 DEF Handler
<1> HIDE DEF opened
<1>4. row.id # s
    BY <1>2 DEF Inv, RowInv, NoSubscription, StripeId, Live, Ongoing
<1>5. /\ TypeOK' /\ EventTypes' /\ RowInv' /\ stripe'[s] = opened
      /\ \A t \in StripeId \ {s} : stripe'[t] = stripe[t]
    BY <1>1, <1>2, <1>3, <1>4, QuantityTypes DEF Inv, Types, TypeOK, Live, Ongoing
<1>6. Types'
    BY <1>1, <1>5, IdleFields DEF Types, HandlerTypes
<1>7. NoRowInv' /\ SweepInv'
    BY <1>1, <1>3, <1>5, IdleFields DEF Inv, NoRowInv, SweepInv
<1>8. ChargeInv'
    BY <1>1, <1>4, <1>5, IdleFields DEF Inv, ChargeInv, Types, TypeOK
<1>9. RideInv'
    BY <1>1, IdleFields DEF Inv, RideInv, Sweeps, StartAllowed, IsActive, LeftRunning, Cancels
<1> QED BY <1>5, <1>6, <1>7, <1>8, <1>9 DEF Inv

-----------------------------------------------------------------------------
(* Steps that change the status of a subscription, and report it *)

LEMMA StatusChanges ==
    ASSUME Inv, NEW e \in Event, stripe[e.id].status \in Ongoing \cup {"open"},
           stripe' = [stripe EXCEPT ![e.id].status = e.status], events' = Append(events, e),
           e.kind = "completed" => e.status = "active",
           e.kind = "deleted" <=> e.status = "canceled"
    PROVE  /\ stripe' \in [StripeId -> [status : Ongoing \cup {"none", "open", "canceled"},
                                        quantity : 0..Cardinality(Instance)]]
           /\ EventTypes' /\ Reported(events', stripe')
           /\ \A s \in StripeId : stripe'[s].quantity = stripe[s].quantity
           /\ \A s \in StripeId : s # e.id => stripe'[s] = stripe[s]
           /\ \A s : Cancels(events, s) => Cancels(events', s)
           /\ stripe'[e.id].status = e.status
           /\ e.kind = "deleted" => Cancels(events', e.id)
           /\ \A s \in StripeId : Mentions(events', s) <=> Mentions(events, s) \/ s = e.id
<1> DEFINE S == [status : Ongoing \cup {"none", "open", "canceled"}, quantity : 0..Cardinality(Instance)]
           moved == [stripe[e.id] EXCEPT !.status = e.status]
<1>1. e.id \in StripeId /\ e.status \in Ongoing \cup {"canceled"}
    BY DEF Event
<1>2. /\ EventTypes' /\ Reported(events', stripe')
      /\ \A s \in StripeId : Mentions(events', s) <=> Mentions(events, s) \/ s = e.id
      /\ \A s : Cancels(events, s) => Cancels(events', s)
      /\ e.kind = "deleted" => Cancels(events', e.id)
    BY ReportsMore DEF Inv, Types, RowInv
<1>3. stripe \in [StripeId -> S]
    BY DEF Inv, Types, TypeOK
<1>4. moved \in S /\ moved.status = e.status /\ moved.quantity = stripe[e.id].quantity
    BY <1>1, <1>3
<1>5. stripe' = [stripe EXCEPT ![e.id] = moved]
    OBVIOUS
<1> HIDE DEF moved
<1>6. /\ stripe' \in [StripeId -> S] /\ stripe'[e.id] = moved
      /\ \A s \in StripeId : s # e.id => stripe'[s] = stripe[s]
    BY <1>1, <1>3, <1>4, <1>5
<1> QED BY <1>1, <1>2, <1>4, <1>6

\* Stripe changes a subscription while a handler may be at work.
LEMMA StripeKeeps ==
    ASSUME Inv, NEW e \in Event, stripe[e.id].status \in Ongoing \cup {"open"},
           stripe' = [stripe EXCEPT ![e.id].status = e.status], events' = Append(events, e),
           e.kind = "completed" => e.status = "active",
           e.kind = "deleted" <=> e.status = "canceled",
           UNCHANGED <<suspended, state, row, handler>>, served' \in 0..MaxOps,
           stripe[e.id].status = "open" => e.id # row.id
    PROVE  Inv'
<1>1. e.id \in StripeId /\ e.status \in Ongoing \cup {"canceled"}
    BY DEF Event
<1>2. /\ stripe' \in [StripeId -> [status : Ongoing \cup {"none", "open", "canceled"},
                                   quantity : 0..Cardinality(Instance)]]
      /\ EventTypes' /\ Reported(events', stripe')
      /\ \A s \in StripeId : stripe'[s].quantity = stripe[s].quantity
      /\ \A s \in StripeId : s # e.id => stripe'[s] = stripe[s]
      /\ \A s : Cancels(events, s) => Cancels(events', s)
      /\ stripe'[e.id].status = e.status
      /\ \A s \in StripeId : Mentions(events', s) <=> Mentions(events, s) \/ s = e.id
    BY StatusChanges
<1>3. Types'
    BY <1>2 DEF Inv, Types, TypeOK, HandlerTypes
<1>4. row.id # NoSubscription =>
          /\ row.id \in StripeId
          /\ stripe'[row.id].status \in Ongoing => stripe[row.id].status \in Ongoing
    BY <1>2 DEF Inv, Types, TypeOK
<1>5. RowInv'
    <2>1. CASE row.id = e.id
        BY <1>1, <1>2, <2>1 DEF Inv, RowInv, Live, Ongoing
    <2>2. CASE row.id # e.id
        BY <1>2, <1>4, <2>2 DEF Inv, RowInv
    <2> QED BY <2>1, <2>2
<1>6. NoRowInv' /\ SweepInv' /\ ChargeInv'
    BY <1>2, <1>4 DEF Inv, NoRowInv, SweepInv, ChargeInv
<1>7. RideInv'
    BY <1>2 DEF Inv, RideInv, Sweeps, StartAllowed, IsActive, LeftRunning
<1> QED BY <1>3, <1>5, <1>6, <1>7 DEF Inv

LEMMA CompleteSessionKeeps ==
    ASSUME Inv, NEW s \in StripeId, CompleteSession(s)
    PROVE  Inv'
<1> DEFINE e == [kind |-> "completed", id |-> s, status |-> "active"]
<1>1. e \in Event /\ e.id = s /\ e.status = "active" /\ e.kind = "completed"
    BY DEF Event, Live, Ongoing
<1>2. s # row.id
    BY DEF CompleteSession, Inv, RowInv, NoSubscription, StripeId, Live, Ongoing
<1>3. /\ stripe[s].status = "open" /\ stripe' = [stripe EXCEPT ![s].status = e.status]
      /\ events' = Append(events, e)
      /\ UNCHANGED <<suspended, state, row, handler>> /\ served' \in 0..MaxOps
    BY DEF CompleteSession, Inv, Types, TypeOK
<1> HIDE DEF e
<1> QED BY <1>1, <1>2, <1>3, StripeKeeps

LEMMA StripeMovesKeeps ==
    ASSUME Inv, NEW s \in StripeId, NEW status \in Ongoing \cup {"canceled"}, StripeMoves(s, status)
    PROVE  Inv'
<1> DEFINE e == [kind |-> IF status = "canceled" THEN "deleted" ELSE "updated",
                 id |-> s, status |-> status]
<1>1. /\ e \in Event /\ e.id = s /\ e.status = status
      /\ e.kind = IF status = "canceled" THEN "deleted" ELSE "updated"
    BY DEF Event
<1>2. /\ stripe[s].status \in Ongoing /\ stripe' = [stripe EXCEPT ![s].status = e.status]
      /\ events' = Append(events, e)
      /\ UNCHANGED <<suspended, state, row, handler>> /\ served' \in 0..MaxOps
    BY ServedType DEF StripeMoves, Inv
<1>3. stripe[s].status # "open"
    BY <1>2 DEF Live, Ongoing
<1> HIDE DEF e
<1> QED BY <1>1, <1>2, <1>3, StripeKeeps

-----------------------------------------------------------------------------
(* Cancellations that the handlers ask for *)

LEMMA DelMoves ==
    ASSUME Inv, NEW s \in StripeId, Del(s)
    PROVE  /\ stripe' \in [StripeId -> [status : Ongoing \cup {"none", "open", "canceled"},
                                        quantity : 0..Cardinality(Instance)]]
           /\ EventTypes' /\ Reported(events', stripe')
           /\ \A t \in StripeId : stripe'[t].quantity = stripe[t].quantity
           /\ \A t \in StripeId : t # s => stripe'[t] = stripe[t]
           /\ \A t : Cancels(events, t) => Cancels(events', t)
           /\ \A t \in StripeId : t # s => (Mentions(events', t) <=> Mentions(events, t))
           /\ stripe[s].status \in Ongoing => /\ stripe'[s].status = "canceled" /\ Cancels(events', s)
                                           /\ Mentions(events', s)
           /\ stripe[s].status \notin Ongoing => UNCHANGED <<stripe, events>>
<1>1. CASE stripe[s].status \in Ongoing
    <2> DEFINE e == [kind |-> "deleted", id |-> s, status |-> "canceled"]
    <2>1. e \in Event /\ e.id = s /\ e.status = "canceled" /\ e.kind = "deleted"
        BY DEF Event
    <2>2. stripe' = [stripe EXCEPT ![s].status = e.status] /\ events' = Append(events, e)
        BY <1>1 DEF Del
    <2> HIDE DEF e
    <2> QED BY <1>1, <2>1, <2>2, StatusChanges DEF Live, Ongoing
<1>2. CASE stripe[s].status \notin Ongoing
    <2>1. UNCHANGED <<stripe, events>>
        BY <1>2 DEF Del
    <2> QED BY <1>2, <2>1 DEF Inv, Types, TypeOK, EventTypes, RowInv, Reported, Cancels, Mentions
<1> QED BY <1>1, <1>2

LEMMA CancelExistingKeeps == Inv /\ CancelExisting => Inv'
<1> SUFFICES ASSUME Inv, CancelExisting PROVE Inv'
    OBVIOUS
<1>1. /\ handler.step = "cancel" /\ handler.id \in StripeId /\ handler' = Idle
      /\ Del(handler.id) /\ UNCHANGED <<suspended, state, row, served>>
    BY DEF CancelExisting, Inv, Types, HandlerTypes, Handler
<1>2. row.id # NoSubscription => row.id \in StripeId
    BY DEF Inv, Types, TypeOK
<1>3. /\ stripe' \in [StripeId -> [status : Ongoing \cup {"none", "open", "canceled"},
                                   quantity : 0..Cardinality(Instance)]]
      /\ EventTypes' /\ Reported(events', stripe')
      /\ \A t \in StripeId : stripe'[t].quantity = stripe[t].quantity
      /\ \A t \in StripeId : t # handler.id => stripe'[t] = stripe[t]
      /\ \A t : Cancels(events, t) => Cancels(events', t)
      /\ \A t \in StripeId : t # handler.id => (Mentions(events', t) <=> Mentions(events, t))
      /\ stripe[handler.id].status \in Ongoing =>
             stripe'[handler.id].status = "canceled" /\ Mentions(events', handler.id)
      /\ stripe[handler.id].status \notin Ongoing => UNCHANGED <<stripe, events>>
    BY <1>1, DelMoves
<1>4. Types'
    BY <1>1, <1>3, IdleFields DEF Inv, Types, TypeOK, HandlerTypes
<1>5. RowInv'
    <2>1. CASE row.id = handler.id /\ stripe[handler.id].status \in Ongoing
        BY <1>1, <1>3, <2>1 DEF Inv, RowInv
    <2>2. CASE row.id # handler.id
        BY <1>1, <1>2, <1>3, <2>2 DEF Inv, RowInv
    <2>3. CASE stripe[handler.id].status \notin Ongoing
        BY <1>1, <1>3, <2>3, RowApart DEF Inv
    <2> QED BY <2>1, <2>2, <2>3
<1>6. NoRowInv' /\ SweepInv'
    BY <1>1, <1>3, IdleFields DEF Inv, NoRowInv, SweepInv
<1>7. ChargeInv'
    BY <1>1, <1>2, <1>3, IdleFields DEF Inv, ChargeInv, Live, Ongoing
<1>8. RideInv'
    BY <1>1, <1>3, IdleFields DEF Inv, RideInv, Sweeps, StartAllowed, IsActive, LeftRunning
<1> QED BY <1>4, <1>5, <1>6, <1>7, <1>8 DEF Inv

\* After it the team's subscription is cancelled at Stripe and in the row.
LEMMA CloseSubscriptionKeeps == Inv /\ CloseSubscription => Inv'
<1> SUFFICES ASSUME Inv, CloseSubscription PROVE Inv'
    OBVIOUS
<1> DEFINE running == {i \in Instance : state[i] = "running"}
           closed == [row EXCEPT !.status = "canceled"]
<1>1. /\ handler.step = "close" /\ handler \in Handler /\ UNCHANGED <<state, served>>
      /\ suspended' = TRUE /\ handler' = [handler EXCEPT !.step = "sweep", !.todo = running]
      /\ row' = IF row = NoRow THEN row ELSE closed
      /\ row.id # NoSubscription => Del(row.id)
      /\ row.id = NoSubscription => UNCHANGED <<stripe, events>>
    BY DEF CloseSubscription, Inv, Types, HandlerTypes
<1>2. /\ handler' \in Handler /\ handler'.step = "sweep" /\ handler'.op = handler.op
      /\ handler'.todo = running /\ handler'.quantity = handler.quantity
    BY <1>1 DEF Handler
<1>3. row.id # NoSubscription => row.id \in StripeId /\ stripe[row.id].status \in Ongoing \cup {"canceled"}
    BY DEF Inv, Types, TypeOK, RowInv
<1>4. /\ closed.status = "canceled" /\ closed.id = row.id /\ closed.trialEndsAt = row.trialEndsAt
      /\ closed \in [status: Live \cup {"none", "trial", "canceled", "unmanaged"},
                     id: StripeId \cup {NoSubscription}, trialEndsAt: {"none", "future", "past"}]
    BY DEF Inv, Types, TypeOK
<1> HIDE DEF closed
<1>5. /\ stripe' \in [StripeId -> [status : Ongoing \cup {"none", "open", "canceled"},
                                   quantity : 0..Cardinality(Instance)]]
      /\ EventTypes' /\ Reported(events', stripe')
      /\ \A t \in StripeId : stripe'[t].quantity = stripe[t].quantity
      /\ Cancels(events, row.id) => Cancels(events', row.id)
    BY <1>1, <1>3, DelMoves DEF Inv, Types, TypeOK, EventTypes, RowInv
<1>6. row.id # NoSubscription => stripe'[row.id].status = "canceled"
    BY <1>1, <1>3, DelMoves
<1>7. /\ row' \in [status: Live \cup {"none", "trial", "canceled", "unmanaged"},
                   id: StripeId \cup {NoSubscription}, trialEndsAt: {"none", "future", "past"}]
      /\ row'.id = row.id /\ row'.trialEndsAt = row.trialEndsAt
      /\ row' = NoRow <=> row = NoRow
      /\ row # NoRow => row'.status = "canceled"
    BY <1>1, <1>4 DEF Inv, Types, TypeOK, NoRow
<1>8. NoRow.status = "none" /\ NoRow.id = NoSubscription
    BY DEF NoRow
<1>9. Types'
    BY <1>1, <1>2, <1>5, <1>7, <1>8 DEF Inv, Types, TypeOK, HandlerTypes, Live, Ongoing
<1>10. RowInv'
    BY <1>5, <1>6, <1>7, <1>8 DEF RowInv, Live, Ongoing
<1>11. NoRowInv' /\ SweepInv' /\ ChargeInv'
    BY <1>1, <1>2, <1>5, <1>6, <1>7, <1>8 DEF Inv, NoRowInv, SweepInv, ChargeInv, Live, Ongoing
<1>12. RideInv'
    <2>1. ~Sweeps /\ handler'.op # "trialTask"
        BY <1>1, <1>2 DEF Sweeps, Inv, Types, HandlerTypes
    <2> SUFFICES ASSUME \E i \in Instance : state[i] # "suspended"
                 PROVE  (\/ StartAllowed \/ row.trialEndsAt = "past" \/ LeftRunning
                         \/ Cancels(events, row.id))'
        BY <1>1, <2>1 DEF RideInv
    <2>2. row # NoRow /\ row'.status = "canceled"
        BY <1>7 DEF Inv, NoRowInv
    <2>3. StartAllowed \/ row.trialEndsAt = "past" \/ LeftRunning \/ Cancels(events, row.id)
        BY <2>1 DEF Inv, RideInv
    <2>4. CASE row.id = NoSubscription
        BY <1>7, <2>2, <2>4 DEF LeftRunning
    <2>5. CASE row.id # NoSubscription /\ stripe[row.id].status \in Ongoing
        BY <1>1, <1>3, <1>7, <2>5, DelMoves
    <2>6. CASE row.id # NoSubscription /\ stripe[row.id].status = "canceled"
        <3>1. row.trialEndsAt \in {"future", "past"} => StartAllowed' \/ row'.trialEndsAt = "past"
            BY <1>7 DEF StartAllowed
        <3>2. Cancels(events, row.id) => Cancels(events', row'.id)
            BY <1>5, <1>7
        <3>3. CASE row.status \in Live
            <4>1. Mentions(events, row.id)
                BY <2>6, <3>3 DEF Inv, RowInv, Live, Tracked
            <4> QED BY <1>3, <2>6, <3>2, <4>1, CancelComes DEF Inv, Types, RowInv
        <3>4. CASE row.status = "canceled"
            BY <2>3, <2>6, <3>1, <3>2, <3>4 DEF StartAllowed, IsActive, LeftRunning, Live, Ongoing
        <3> QED BY <2>6, <3>3, <3>4 DEF Inv, RowInv
    <2> QED BY <1>3, <2>4, <2>5, <2>6
<1> QED BY <1>9, <1>10, <1>11, <1>12 DEF Inv

-----------------------------------------------------------------------------
(* Trials and manual billing: steps that change the row only *)

\* Another trial, or the end of one, says nothing of the subscription.
LEMMA TrialChanges ==
    ASSUME Inv, NEW ends \in {"none", "future", "past"}, row' = [row EXCEPT !.trialEndsAt = ends],
           UNCHANGED <<suspended, state, stripe, events>>, served' \in 0..MaxOps,
           row.status = "unmanaged" => ends = "none", row.status # "none"
    PROVE  /\ TypeOK' /\ EventTypes' /\ RowInv'
           /\ row'.status = row.status /\ row'.id = row.id /\ row'.trialEndsAt = ends
           /\ row # NoRow /\ row' # NoRow
<1>1. row'.status = row.status /\ row'.id = row.id /\ row'.trialEndsAt = ends
    BY DEF Inv, Types, TypeOK
<1>2. TypeOK' /\ EventTypes'
    BY DEF Inv, Types, TypeOK, EventTypes
<1>3. RowInv'
    BY <1>1 DEF Inv, RowInv, Reported, Mentions
<1>4. row # NoRow /\ row' # NoRow
    BY <1>1 DEF NoRow
<1> QED BY <1>1, <1>2, <1>3, <1>4

LEMMA TrialEndsKeeps == Inv /\ TrialEnds => Inv'
<1> SUFFICES ASSUME Inv, TrialEnds PROVE Inv'
    OBVIOUS
<1>1. /\ row' = [row EXCEPT !.trialEndsAt = "past"] /\ row.trialEndsAt = "future"
      /\ UNCHANGED <<suspended, state, stripe, events, handler, served>>
      /\ served' \in 0..MaxOps
    BY DEF TrialEnds, Inv, Types, TypeOK
<1>2. row.status # "unmanaged" /\ row.status # "none"
    BY <1>1 DEF Inv, RowInv, NoRowInv, NoRow
<1>3. /\ TypeOK' /\ EventTypes' /\ RowInv'
      /\ row'.status = row.status /\ row'.id = row.id /\ row'.trialEndsAt = "past"
      /\ row # NoRow /\ row' # NoRow
    BY <1>1, <1>2, TrialChanges
<1>4. Types'
    BY <1>1, <1>3 DEF Inv, Types, HandlerTypes
<1>5. NoRowInv' /\ SweepInv' /\ ChargeInv' /\ RideInv'
    BY <1>1, <1>2, <1>3 DEF Inv, NoRowInv, SweepInv, ChargeInv, RideInv, Sweeps, IsActive
<1> QED BY <1>3, <1>4, <1>5 DEF Inv

LEMMA ExtendTrialKeeps == Inv /\ ExtendTrial => Inv'
<1> SUFFICES ASSUME Inv, ExtendTrial PROVE Inv'
    OBVIOUS
<1>1. /\ row' = [row EXCEPT !.trialEndsAt = "future"] /\ handler = Idle
      /\ row # NoRow /\ row.status # "unmanaged"
      /\ UNCHANGED <<suspended, state, stripe, events, handler>> /\ served' \in 0..MaxOps
    BY AtRest, ServedType DEF ExtendTrial, Serve, Inv
<1>2. row.status # "none"
    BY <1>1 DEF Inv, NoRowInv
<1>3. /\ TypeOK' /\ EventTypes' /\ RowInv'
      /\ row'.status = row.status /\ row'.id = row.id /\ row'.trialEndsAt = "future"
      /\ row # NoRow /\ row' # NoRow
    BY <1>1, <1>2, TrialChanges
<1>4. Types'
    BY <1>1, <1>3 DEF Inv, Types, HandlerTypes
<1>5. NoRowInv' /\ SweepInv' /\ ChargeInv' /\ RideInv'
    BY <1>1, <1>2, <1>3, IdleFields
    DEF Inv, NoRowInv, SweepInv, ChargeInv, RideInv, StartAllowed
<1> QED BY <1>3, <1>4, <1>5 DEF Inv

\* The trial task leaves nothing running on a trial that has come to its end.
LEMMA FinishKeeps == Inv /\ Finish => Inv'
<1> SUFFICES ASSUME Inv, Finish PROVE Inv'
    OBVIOUS
<1>1. /\ handler.step = "sweep" /\ handler.todo = {} /\ handler' = Idle
      /\ row' = IF handler.op = "trialTask" THEN [row EXCEPT !.trialEndsAt = "none"] ELSE row
      /\ UNCHANGED <<suspended, state, stripe, events, served>> /\ served' \in 0..MaxOps
    BY DEF Finish, Inv, Types, TypeOK
<1>2. CASE handler.op # "trialTask" \/ row.status = "none"
    <2>1. UNCHANGED row
        BY <1>1, <1>2 DEF Inv, NoRowInv, NoRow
    <2>2. TypeOK' /\ EventTypes' /\ RowInv'
        BY <1>1, <2>1, RowApart DEF Inv, Types, TypeOK, EventTypes
    <2>3. Types'
        BY <1>1, <2>2, IdleFields DEF Types, HandlerTypes
    <2>4. NoRowInv' /\ SweepInv' /\ ChargeInv'
        BY <1>1, <2>1, IdleFields DEF Inv, NoRowInv, SweepInv, ChargeInv
    <2>5. RideInv'
        BY <1>1, <2>1, IdleFields
        DEF Inv, RideInv, Sweeps, StartAllowed, IsActive, LeftRunning, Cancels
    <2> QED BY <2>2, <2>3, <2>4, <2>5 DEF Inv
<1>3. CASE handler.op = "trialTask" /\ row.status # "none"
    <2>1. row' = [row EXCEPT !.trialEndsAt = "none"]
        BY <1>1, <1>3
    <2>2. /\ TypeOK' /\ EventTypes' /\ RowInv'
          /\ row'.status = row.status /\ row'.id = row.id /\ row'.trialEndsAt = "none"
          /\ row # NoRow /\ row' # NoRow
        BY <1>1, <1>3, <2>1, TrialChanges
    <2>3. Types'
        BY <1>1, <2>2, IdleFields DEF Types, HandlerTypes
    <2>4. NoRowInv' /\ SweepInv' /\ ChargeInv'
        BY <1>1, <1>3, <2>2, IdleFields DEF Inv, NoRowInv, SweepInv, ChargeInv
    <2>5. IsActive(row) \/ \A i \in Instance : state[i] = "suspended"
        BY <1>1, <1>3 DEF Inv, RideInv, Sweeps
    <2>6. RideInv'
        BY <1>1, <2>2, <2>5, IdleFields DEF RideInv, StartAllowed, IsActive
    <2> QED BY <2>2, <2>3, <2>4, <2>6 DEF Inv
<1> QED BY <1>2, <1>3

LEMMA EnableManualKeeps == Inv /\ EnableManual => Inv'
<1> SUFFICES ASSUME Inv, EnableManual PROVE Inv'
    OBVIOUS
<1>1. /\ handler = Idle /\ served' \in 0..MaxOps /\ UNCHANGED <<suspended, state, stripe, events>>
      /\ row' = [NoRow EXCEPT !.status = "unmanaged"]
    BY AtRest, ServedType DEF EnableManual, Serve, Inv
<1>2. row'.status = "unmanaged" /\ row'.id = NoSubscription /\ row'.trialEndsAt = "none"
    BY <1>1 DEF NoRow
<1>3. TypeOK' /\ EventTypes'
    BY <1>1 DEF Inv, Types, TypeOK, EventTypes, NoRow, Live, Ongoing
<1>4. RowInv'
    BY <1>1, <1>2 DEF Inv, RowInv, Reported
<1>5. \/ handler' = Idle
      \/ /\ handler' \in Handler /\ handler'.step = "cancel" /\ handler'.id # NoSubscription
         /\ handler'.op = "manual" /\ handler'.todo = {}
    <2>1. CASE row.id = NoSubscription
        BY <2>1 DEF EnableManual
    <2>2. CASE row.id # NoSubscription
        <3> DEFINE h == Step("manual", "cancel")
        <3>1. h \in Handler /\ h.op = "manual" /\ h.step = "cancel" /\ h.todo = {}
            BY StepFields
        <3>2. handler' = [h EXCEPT !.id = row.id] /\ row.id \in StripeId \cup {NoSubscription}
            BY <2>2 DEF EnableManual, Inv, Types, TypeOK
        <3> HIDE DEF h
        <3> QED BY <2>2, <3>1, <3>2 DEF Handler
    <2> QED BY <2>1, <2>2
<1>6. Types'
    BY <1>3, <1>5, IdleFields DEF Types, HandlerTypes
<1>7. row' # NoRow
    BY <1>2 DEF NoRow
<1>8. NoRowInv' /\ SweepInv' /\ ChargeInv'
    BY <1>2, <1>5, <1>7, IdleFields DEF NoRowInv, SweepInv, ChargeInv
<1>9. RideInv'
    BY <1>2, <1>5, IdleFields DEF RideInv, StartAllowed
<1> QED BY <1>4, <1>6, <1>8, <1>9 DEF Inv

LEMMA DisableManualKeeps == Inv /\ DisableManual => Inv'
<1> SUFFICES ASSUME Inv, DisableManual PROVE Inv'
    OBVIOUS
<1>1. /\ handler = Idle /\ served' \in 0..MaxOps /\ row.status = "unmanaged"
      /\ UNCHANGED <<suspended, state, stripe, events, handler>>
      /\ row' = [row EXCEPT !.status = "canceled"]
    BY AtRest, ServedType DEF DisableManual, Serve, Inv
<1>2. row.id = NoSubscription
    BY <1>1 DEF Inv, RowInv, Live, Ongoing
<1>3. row'.status = "canceled" /\ row'.id = NoSubscription /\ row'.trialEndsAt = row.trialEndsAt
    BY <1>1, <1>2 DEF Inv, Types, TypeOK
<1>4. Types'
    BY <1>1, <1>3 DEF Inv, Types, TypeOK, EventTypes, HandlerTypes, Live, Ongoing
<1>5. RowInv'
    BY <1>1, <1>3 DEF Inv, RowInv, Reported
<1>6. row' # NoRow
    BY <1>3 DEF NoRow
<1>7. NoRowInv' /\ SweepInv' /\ ChargeInv' /\ RideInv'
    BY <1>1, <1>3, <1>6, IdleFields DEF NoRowInv, SweepInv, ChargeInv, RideInv, LeftRunning
<1> QED BY <1>4, <1>5, <1>7 DEF Inv

-----------------------------------------------------------------------------
(* The events of Stripe *)

LEMMA TakeEventKeeps == Inv /\ TakeEvent => Inv'
<1> SUFFICES ASSUME Inv, TakeEvent PROVE Inv'
    OBVIOUS
<1> DEFINE event == Head(events)
<1>1. /\ handler = Idle /\ events # <<>> /\ events' = Tail(events)
      /\ UNCHANGED <<state, stripe, served>>
      /\ Completed(event) \/ Updated(event) \/ Deleted(event)
    BY AtRest DEF TakeEvent
<1>2. /\ event \in Event /\ EventTypes' /\ Reported(events', stripe')
      /\ event.kind = "completed" => event.status = "active"
      /\ event.kind = "deleted" <=> event.status = "canceled"
      /\ stripe[event.id].status \in Ongoing \cup {"canceled"}
      /\ event.status = "canceled" => stripe[event.id].status = "canceled"
      /\ ~Mentions(events', event.id) => stripe[event.id].status = event.status
      /\ \A s : Mentions(events, s) => Mentions(events', s) \/ s = event.id
      /\ \A s : Cancels(events, s)
                  => Cancels(events', s) \/ (s = event.id /\ event.kind = "deleted")
    BY <1>1, ReportsLess DEF Inv, Types, RowInv
<1>3. event.id \in StripeId /\ event.status \in Ongoing \cup {"canceled"} /\ event.id # NoSubscription
    BY <1>2 DEF Event, StripeId, NoSubscription
<1> HIDE DEF event
<1>4. row.id = event.id => row.status \in Live \cup {"canceled"}
    BY <1>3 DEF Inv, RowInv
<1> DEFINE told == [row EXCEPT !.status = event.status]
<1>5. /\ told.status = event.status /\ told.id = row.id /\ told.trialEndsAt = row.trialEndsAt
      /\ event.status \in Tracked => told \in [status: Live \cup {"none", "trial", "canceled", "unmanaged"},
                   id: StripeId \cup {NoSubscription}, trialEndsAt: {"none", "future", "past"}]
    BY <1>3 DEF Inv, Types, TypeOK, Tracked
<1> HIDE DEF told
<1> DEFINE stored == Known(event) /\ event.status \in Tracked
\* The row and Stripe, whether the event is known and its status tracked or not.
<1>6. ASSUME suspended' \in BOOLEAN,
             row' = IF stored THEN told ELSE row
      PROVE  /\ TypeOK' /\ EventTypes' /\ RowInv'
             /\ row'.id = row.id /\ row'.trialEndsAt = row.trialEndsAt
             /\ (row.status = "none" => row = NoRow)'
             /\ (row = NoRow => /\ \A i \in Instance : state[i] = "suspended"
                                /\ \A s \in StripeId : stripe[s].quantity = 0)'
             /\ row' = NoRow => row = NoRow
    <2>1. TypeOK'
        BY <1>1, <1>3, <1>5, <1>6 DEF Inv, Types, TypeOK, Known, Tracked
    <2>2. RowInv'
        <3>1. CASE stored
            BY <1>1, <1>2, <1>3, <1>5, <1>6, <3>1 DEF Inv, RowInv, Known, Live, Ongoing, Tracked
        <3>2. CASE ~Known(event)
            BY <1>1, <1>2, <1>6, <3>2 DEF Inv, RowInv, Known
        <3>3. CASE Known(event) /\ event.status \notin Tracked
            <4>1. /\ row' = row /\ row.id = event.id /\ row.id # NoSubscription
                  /\ event.status = "unpaid"
                BY <1>3, <1>6, <3>3 DEF Known, Ongoing, Live, Tracked
            <4>2. ~Mentions(events', row.id) => stripe[row.id].status = "unpaid"
                BY <1>2, <4>1
            <4>3. row.status \in Live \/ stripe[row.id].status = "canceled"
                BY <4>1 DEF Inv, RowInv
            <4> QED BY <1>1, <1>2, <4>1, <4>2, <4>3 DEF Inv, RowInv, Live, Tracked
        <3> QED BY <3>1, <3>2, <3>3
    <2>3. stored => row' # NoRow /\ row'.status # "none"
        BY <1>3, <1>5, <1>6 DEF Known, NoRow, Live, Tracked
    <2> QED BY <1>1, <1>2, <1>5, <1>6, <2>1, <2>2, <2>3 DEF Inv, NoRowInv
<1>7. CASE Completed(event)
    <2>1. /\ suspended' = FALSE /\ row' = Subscribed(event.id) /\ event.status = "active"
          /\ handler' = IF row = NoRow THEN Idle
                        ELSE Recount(Step("event", "recount"), row', state)
        BY <1>2, <1>7 DEF Completed
    <2>2. /\ row'.status = "active" /\ row'.id = event.id
          /\ row' \in [status: Live \cup {"none", "trial", "canceled", "unmanaged"},
                       id: StripeId \cup {NoSubscription}, trialEndsAt: {"none", "future", "past"}]
        BY <1>3, <2>1 DEF Subscribed, Inv, Types, TypeOK, Live, Ongoing
    <2>3. row' # NoRow /\ IsActive(row') /\ StartAllowed'
        BY <2>2 DEF NoRow, IsActive, Live, Ongoing, StartAllowed
    <2>7. TypeOK'
        BY <1>1, <1>3, <2>1, <2>2 DEF Inv, Types, TypeOK
    <2>4. RowInv'
        BY <1>1, <1>2, <2>1, <2>2 DEF RowInv, Live, Ongoing
    <2>5. CASE row = NoRow
        <3>1. handler' = Idle
            BY <2>1, <2>5
        <3>2. Types'
            BY <1>2, <2>7, <3>1, IdleFields DEF Types, HandlerTypes
        <3>3. stripe'[row'.id].quantity = Billable(state')
            BY <1>1, <1>3, <2>2, <2>5, Counted DEF Inv, NoRowInv
        <3>4. NoRowInv' /\ SweepInv' /\ ChargeInv' /\ RideInv'
            BY <2>2, <2>3, <3>1, <3>3, IdleFields DEF NoRowInv, SweepInv, ChargeInv, RideInv
        <3> QED BY <2>4, <3>2, <3>4 DEF Inv
    <2>6. CASE row # NoRow
        <3> DEFINE h == Step("event", "recount")
        <3>1. /\ h \in Handler /\ h.op = "event" /\ h.todo = {} /\ h.quantity = 0
              /\ handler' = Recount(h, row', state')
            BY <1>1, <2>1, <2>6, StepFields
        <3> HIDE DEF h
        <3> QED BY <1>2, <2>2, <2>3, <2>4, <2>7, <3>1, Recounts
    <2> QED BY <2>5, <2>6
<1>8. CASE Updated(event)
    <2>1. /\ UNCHANGED <<suspended, handler>> /\ event.kind = "updated"
          /\ row' = IF stored THEN told ELSE row
        BY <1>8 DEF Updated, told
    <2>2. suspended' \in BOOLEAN /\ event.status \in Ongoing
        BY <1>2, <1>3, <2>1 DEF Inv, Types, TypeOK
    <2>3. /\ TypeOK' /\ EventTypes' /\ RowInv'
          /\ row'.id = row.id /\ row'.trialEndsAt = row.trialEndsAt
          /\ (row.status = "none" => row = NoRow)'
          /\ (row = NoRow => /\ \A i \in Instance : state[i] = "suspended"
                             /\ \A s \in StripeId : stripe[s].quantity = 0)'
        BY <1>6, <2>1, <2>2
    <2>4. Types'
        BY <1>1, <2>1, <2>3 DEF Inv, Types, HandlerTypes
    <2>5. NoRowInv' /\ SweepInv' /\ ChargeInv'
        BY <1>1, <2>1, <2>3, IdleFields DEF Inv, NoRowInv, SweepInv, ChargeInv
    <2>6. RideInv'
        <3>1. CASE stored
            BY <1>1, <1>5, <2>1, <2>2, <3>1, IdleFields
            DEF RideInv, StartAllowed, IsActive, Ongoing, Tracked
        <3>2. CASE ~stored
            BY <1>1, <1>2, <2>1, <3>2, IdleFields
            DEF Inv, RideInv, StartAllowed, IsActive, LeftRunning, Known, Sweeps
        <3> QED BY <3>1, <3>2
    <2> QED BY <2>3, <2>4, <2>5, <2>6 DEF Inv
<1>9. CASE Deleted(event)
    <2>1. /\ UNCHANGED suspended /\ event.kind = "deleted"
          /\ row' = (IF Known(event) THEN told ELSE row)
          /\ handler' = IF Known(event) THEN [Step("event", "sweep") EXCEPT !.todo = Doomed]
                                        ELSE handler
        BY <1>9 DEF Deleted, told
    <2>2. suspended' \in BOOLEAN /\ event.status = "canceled" /\ event.status \in Tracked
        BY <1>2, <2>1 DEF Inv, Types, TypeOK, Tracked
    <2>3. /\ TypeOK' /\ EventTypes' /\ RowInv'
          /\ row'.id = row.id /\ row'.trialEndsAt = row.trialEndsAt
          /\ (row.status = "none" => row = NoRow)'
          /\ (row = NoRow => /\ \A i \in Instance : state[i] = "suspended"
                             /\ \A s \in StripeId : stripe[s].quantity = 0)'
        BY <1>6, <2>1, <2>2
    <2>4. CASE Known(event)
        <3> DEFINE h == Step("event", "sweep")
        <3>1. h \in Handler /\ h.op = "event" /\ h.step = "sweep"
            BY StepFields
        <3>2. handler' = [h EXCEPT !.todo = Doomed] /\ Doomed \in SUBSET Instance
            BY <2>1, <2>4 DEF Doomed
        <3> HIDE DEF h
        <3>3. /\ handler' \in Handler /\ handler'.op = "event" /\ handler'.step = "sweep"
              /\ handler'.todo = Doomed
            BY <3>1, <3>2 DEF Handler
        <3>4. /\ row'.status = "canceled" /\ row'.id = event.id
              /\ stripe'[row'.id].status = "canceled"
            BY <1>1, <1>2, <1>5, <2>1, <2>2, <2>3, <2>4 DEF Known
        <3>5. Types'
            BY <2>3, <3>3 DEF Types, HandlerTypes
        <3>6. row' # NoRow /\ Sweeps'
            BY <1>1, <3>3, <3>4 DEF NoRow, Sweeps, Doomed
        <3>7. NoRowInv' /\ SweepInv' /\ ChargeInv' /\ RideInv'
            BY <3>3, <3>4, <3>6 DEF NoRowInv, SweepInv, ChargeInv, RideInv, Live, Ongoing
        <3> QED BY <2>3, <3>5, <3>7 DEF Inv
    <2>5. CASE ~Known(event)
        <3>1. UNCHANGED <<row, handler>>
            BY <2>1, <2>5
        <3>2. Types'
            BY <1>1, <2>3, <3>1 DEF Inv, Types, HandlerTypes
        <3>3. NoRowInv' /\ SweepInv' /\ ChargeInv'
            BY <1>1, <2>3, <3>1, IdleFields DEF Inv, NoRowInv, SweepInv, ChargeInv
        <3>4. RideInv'
            BY <1>1, <1>2, <2>5, <3>1, IdleFields
            DEF Inv, RideInv, StartAllowed, IsActive, LeftRunning, Known, Sweeps
        <3> QED BY <2>3, <3>2, <3>3, <3>4 DEF Inv
    <2> QED BY <2>4, <2>5
<1> QED BY <1>1, <1>7, <1>8, <1>9

-----------------------------------------------------------------------------
(* The theorems *)

LEMMA InitHolds == Init => Inv
<1> SUFFICES ASSUME Init PROVE Inv
    OBVIOUS
<1>1. \/ row = NoRow
      \/ row = [status |-> "trial", id |-> NoSubscription, trialEndsAt |-> "future"]
    BY DEF Init, NoRow
<1>2. /\ row.id = NoSubscription /\ row.status \in {"none", "trial"}
      /\ row.trialEndsAt \in {"none", "future"}
      /\ row.status = "none" => row = NoRow
      /\ row.status = "trial" => row # NoRow /\ row.trialEndsAt = "future"
    BY <1>1 DEF NoRow
<1>3. Cardinality(Instance) \in Nat /\ events = <<>> /\ handler = Idle
    BY FiniteAssumption, FS_CardinalityType DEF Init
<1>4. Len(events) = 0 /\ events \in Seq(Event)
    BY <1>3, EmptySeq
<1>5. row \in [status: Live \cup {"none", "trial", "canceled", "unmanaged"},
               id: StripeId \cup {NoSubscription}, trialEndsAt: {"none", "future", "past"}]
    BY <1>1 DEF NoRow
<1>6. TypeOK
    <2>1. [status |-> "none", quantity |-> 0] \in [status: Ongoing \cup {"none", "open", "canceled"},
                                                  quantity: 0..Cardinality(Instance)]
        BY <1>3
    <2>2. row.status \notin Live
        BY <1>2 DEF Live, Ongoing
    <2>3. served \in 0..MaxOps
        BY BoundsAssumption DEF Init
    <2>4. state \in [Instance -> {"running", "stopped", "suspended"}] /\ suspended \in BOOLEAN
        BY DEF Init
    <2> QED BY <1>5, <2>1, <2>2, <2>3, <2>4 DEF Init, TypeOK
<1>7. Types
    BY <1>3, <1>4, <1>6, IdleFields DEF Types, HandlerTypes, EventTypes
<1>8. RowInv
    BY <1>2, <1>4 DEF RowInv, Reported
<1>9. NoRowInv /\ ChargeInv /\ SweepInv /\ RideInv
    BY <1>2, <1>3, IdleFields DEF Init, NoRowInv, ChargeInv, SweepInv, RideInv
<1> QED BY <1>7, <1>8, <1>9 DEF Inv

LEMMA StutterKeeps == Inv /\ UNCHANGED vars => Inv'
<1> SUFFICES ASSUME Inv, UNCHANGED vars PROVE Inv'
    OBVIOUS
<1>1. Types'
    BY DEF Inv, Types, TypeOK, HandlerTypes, EventTypes, vars
<1>2. RowInv'
    BY RowApart DEF Inv, vars
<1> QED BY <1>1, <1>2
        DEF Inv, NoRowInv, ChargeInv, SweepInv, RideInv, Sweeps, StartAllowed, IsActive, LeftRunning,
            Cancels, vars

LEMMA NextKeeps == Inv /\ [Next]_vars => Inv'
<1> SUFFICES ASSUME Inv, [Next]_vars PROVE Inv'
    OBVIOUS
<1>1. CASE Requests
    BY <1>1, StartInstanceKeeps, FlowsKeep, SuspendInstanceKeeps, BeginSessionKeeps, ExtendTrialKeeps,
       EnableManualKeeps, DisableManualKeeps, SuspendTeamKeeps, UnsuspendTeamKeeps DEF Requests
<1>2. CASE HandlerStep
    BY <1>2, AdmitKeeps, ChargeKeeps, CreateSessionKeeps, CancelExistingKeeps,
       CloseSubscriptionKeeps, FinishKeeps, SweepKeeps DEF HandlerStep
<1>3. CASE Environment
    BY <1>3, CompleteSessionKeeps, StripeMovesKeeps, TrialEndsKeeps DEF Environment
<1> QED BY <1>1, <1>2, <1>3, TakeEventKeeps, TrialTaskKeeps, StutterKeeps DEF Next

\* The row, Stripe's subscriptions and the handler keep their types, and a row with a live status
\* names a subscription (Subscription.js, Team.js).
THEOREM TypeCorrect == Spec => []TypeOK
<1>1. Inv => TypeOK
    BY DEF Inv, Types
<1> QED BY <1>1, InitHolds, NextKeeps, PTL DEF Spec

\* Once Stripe's events are handled, the row has the status of its subscription at Stripe, or is
\* alive under a status of Stripe's that it does not track: however many sessions were completed,
\* whichever events came late, and whoever cancelled it (the callback for Stripe's events).
THEOREM RowAgrees == Spec => []RowFollowsStripe
<1>1. Inv => RowFollowsStripe
    <2> SUFFICES ASSUME Inv, Settled, row.id # NoSubscription
                 PROVE  \/ row.status = stripe[row.id].status
                        \/ stripe[row.id].status \notin Tracked /\ row.status \in Live
        BY DEF RowFollowsStripe
    <2>1. ~Mentions(events, row.id)
        BY EmptySeq DEF Settled, Mentions
    <2> QED BY <2>1 DEF Inv, RowInv
<1> QED BY <1>1, InitHolds, NextKeeps, PTL DEF Spec

\* Stripe charges for the instances that are not suspended, whatever was started, stopped and swept
\* between the handlers' reading of the counts and their update of Stripe (updateTeamBillingCounts).
THEOREM ChargedForWhatRuns == Spec => []QuantityMatches
<1>1. Inv => QuantityMatches
    <2> SUFFICES ASSUME Inv, Settled, IsActive(row)
                 PROVE  stripe[row.id].quantity = Billable(state)
        BY DEF QuantityMatches
    <2>1. row.id # NoSubscription
        BY DEF Inv, Types, TypeOK, IsActive
    <2>2. ~Mentions(events, row.id)
        BY EmptySeq DEF Settled, Mentions
    <2>3. stripe[row.id].status \in Ongoing
        BY <2>1, <2>2 DEF Inv, RowInv, IsActive, Ongoing, Live, Tracked
    <2> QED BY <2>1, <2>3, IdleFields DEF Inv, ChargeInv, Settled
<1> QED BY <1>1, InitHolds, NextKeeps, PTL DEF Spec

\* Nothing runs on a team that does not pay, but for a trial whose end is due and the two ways the
\* code leaves a team without a subscription running (trialTask, the callback for Stripe's events).
THEOREM NobodyRidesFree == Spec => []NoFreeRide
<1>1. Inv => NoFreeRide
    <2> SUFFICES ASSUME Inv, Settled, \E i \in Instance : state[i] # "suspended"
                 PROVE  StartAllowed \/ row.trialEndsAt = "past" \/ LeftRunning
        BY DEF NoFreeRide
    <2>1. ~Cancels(events, row.id) /\ ~Sweeps
        BY EmptySeq, IdleFields DEF Settled, Cancels, Sweeps
    <2> QED BY <2>1 DEF Inv, RideInv
<1> QED BY <1>1, InitHolds, NextKeeps, PTL DEF Spec

\* No sweep stops an instance of a team that pays: a late event about another subscription does
\* not, nor does the trial task, nor a suspension (parseSubscriptionEvent, trialTask, Team.suspend).
THEOREM SweepsSparePaid == Spec => PaidKeepsRunning
<1>1. Inv /\ [Next]_vars =>
          [(\E i \in Instance : Sweep(i))
               => row.status # "unmanaged"
                  /\ (row.id # NoSubscription => stripe[row.id].status \notin Ongoing)]_vars
    BY DEF Inv, SweepInv, Sweep
<1> QED BY <1>1, InitHolds, NextKeeps, PTL DEF Spec, PaidKeepsRunning

=============================================================================
