----------------------- MODULE LiveStatePublishProofs -----------------------
(***************************************************************************)
(* Theorems of LiveStatePublish: its types for any number of processes, and*)
(* that one process, however many handlers it runs, strands no stale state *)
(* and sends none twice.                                                   *)
(***************************************************************************)
EXTENDS LiveStatePublish, SequenceTheorems, TLAPS

Publishing == {"readLatest", "compare", "remember", "notify"}
Worked == {"compare", "remember", "notify"}     \* the state is worked out
Pending == {"confirm", "clear", "publish", "wait"}  \* will still publish
Queue(c) == locks[Home[c]]

\* A handler that waits is in the queue of its process, and the one that
\* publishes is at its head, with the state it has worked out.
Queued ==
    \A c \in Caller :
        /\ pc[c] = "wait" => \E i \in 1..Len(Queue(c)) : Queue(c)[i] = c
        /\ pc[c] \in Publishing => Queue(c) # <<>> /\ Queue(c)[1] = c
        /\ pc[c] \in Worked => held[c] \in States

-----------------------------------------------------------------------------
(* Helpers *)

\* What the head of a queue leaves behind
LEMMA TailOfQueue ==
    ASSUME NEW s \in Seq(Caller), s # <<>>
    PROVE  /\ Tail(s) \in Seq(Caller)
           /\ Len(Tail(s)) = Len(s) - 1
           /\ \A i \in 1..Len(s) - 1 : Tail(s)[i] = s[i + 1]
BY HeadTailProperties

\* The state worked out for a client is a state.
LEMMA EffectiveType ==
    ASSUME NEW t \in States \cup {"none"}, NEW l \in Reports \cup {"none"}
    PROVE  Effective(t, l) \in States
BY RowAssumption, StatesAssumption DEF Effective, States

\* A handler's next step is one of those it has, and no other handler moves.
LEMMA GotoType ==
    ASSUME pc \in [Caller -> Steps], NEW c \in Caller, NEW s \in Steps, Goto(c, s)
    PROVE  /\ pc' \in [Caller -> Steps]
           /\ pc'[c] = s
           /\ \A d \in Caller \ {c} : pc'[d] = pc[d]
BY DEF Goto

\* A step of c that leaves the queues alone keeps Queued if c neither starts to
\* wait nor to publish by it.
LEMMA QueuedByGoto ==
    ASSUME TypeOK, Queued, NEW c \in Caller, NEW s \in Steps, Goto(c, s),
           s # "wait", s \in Publishing => pc[c] \in Publishing,
           s \in Worked => held'[c] \in States,
           \A d \in Caller \ {c} : held'[d] = held[d],
           locks' = locks
    PROVE  Queued'
<1>1. pc'[c] = s /\ \A d \in Caller \ {c} : pc'[d] = pc[d]
  BY GotoType DEF TypeOK
<1>2. ASSUME NEW d \in Caller
      PROVE  /\ pc'[d] = "wait" => \E i \in 1..Len(Queue(d)) : Queue(d)[i] = d
             /\ pc'[d] \in Publishing => Queue(d) # <<>> /\ Queue(d)[1] = d
             /\ pc'[d] \in Worked => held'[d] \in States
  BY <1>1, <1>2 DEF Queued
<1>3. \A d \in Caller : Queue(d)' = Queue(d)
  BY DEF Queue
<1> QED BY <1>2, <1>3 DEF Queued

\* The same when c, at the head of its queue, leaves it.
LEMMA QueuedByRelease ==
    ASSUME TypeOK, Queued, NEW c \in Caller, Goto(c, "idle"), Release(c),
           pc[c] \in Publishing, held' = held
    PROVE  locks' \in [Proc -> Seq(Caller)] /\ Queued'
<1> DEFINE q == locks[Home[c]]
<1>1. pc'[c] = "idle" /\ \A d \in Caller \ {c} : pc'[d] = pc[d]
  BY GotoType DEF TypeOK, Steps
<1>2. Home[c] \in Proc /\ q \in Seq(Caller) /\ q # <<>> /\ q[1] = c
  BY HomeAssumption DEF TypeOK, Queued, Queue
<1>3. /\ Tail(q) \in Seq(Caller)
      /\ Len(Tail(q)) = Len(q) - 1
      /\ \A i \in 1..Len(q) - 1 : Tail(q)[i] = q[i + 1]
  BY <1>2, TailOfQueue
<1>4. locks' = [locks EXCEPT ![Home[c]] = Tail(q)]
  BY DEF Release
<1>5. locks' \in [Proc -> Seq(Caller)]
  BY <1>2, <1>3, <1>4 DEF TypeOK
<1>6. ASSUME NEW d \in Caller
      PROVE  /\ pc'[d] = "wait" =>
                    \E i \in 1..Len(locks'[Home[d]]) : locks'[Home[d]][i] = d
             /\ pc'[d] \in Publishing =>
                    locks'[Home[d]] # <<>> /\ locks'[Home[d]][1] = d
             /\ pc'[d] \in Worked => held'[d] \in States
  <2>1. CASE d = c
    BY <1>1, <2>1 DEF Publishing, Worked
  <2>2. CASE d # c /\ Home[d] = Home[c]
    <3>1. locks'[Home[d]] = Tail(q) /\ locks[Home[d]] = q
      BY <1>2, <1>4, <2>2 DEF TypeOK
    <3>2. pc'[d] = pc[d] /\ pc[d] \notin Publishing /\ pc[d] \notin Worked
      BY <1>1, <1>2, <2>2, <3>1 DEF Queued, Queue, Publishing, Worked
    <3>3. ASSUME pc[d] = "wait" PROVE \E i \in 1..Len(Tail(q)) : Tail(q)[i] = d
      <4>1. PICK i \in 1..Len(q) : q[i] = d
        BY <3>1, <3>3 DEF Queued, Queue
      <4>2. i # 1 /\ Len(q) \in Nat
        BY <1>2, <2>2, <4>1
      <4>3. i - 1 \in 1..Len(q) - 1 /\ (i - 1) + 1 = i
        BY <4>1, <4>2
      <4> QED BY <1>3, <4>1, <4>3
    <3> QED BY <3>1, <3>2, <3>3
  <2>3. CASE d # c /\ Home[d] # Home[c]
    <3>1. locks'[Home[d]] = locks[Home[d]]
      BY <1>4, <2>3, HomeAssumption DEF TypeOK
    <3> QED BY <1>1, <2>3, <3>1 DEF Queued, Queue
  <2> QED BY <2>1, <2>2, <2>3
<1> QED BY <1>5, <1>6 DEF Queued, Queue

-----------------------------------------------------------------------------
(* Type correctness *)

\* A request is a change its handler can make.
LEMMA RequestArg ==
    ASSUME TypeOK, NEW c \in Caller
    PROVE  /\ req[c].do = "set" => req[c].arg \in Transitions
           /\ req[c].do = "report" => req[c].arg \in Reports
BY DEF TypeOK, Request, Idle

LEMMA InitQueued == Init => TypeOK /\ Queued
<1> SUFFICES ASSUME Init PROVE TypeOK /\ Queued
  OBVIOUS
<1>1. Row \in States
  BY RowAssumption DEF States
<1>2. locks \in [Proc -> Seq(Caller)]
  <2>1. <<>> \in Seq(Caller)
    OBVIOUS
  <2> QED BY <2>1 DEF Init
<1>3. requested \in 0..MaxRequests
  BY MaxRequestsAssumption DEF Init
<1>4. TypeOK
  BY <1>1, <1>2, <1>3 DEF Init, TypeOK, Steps
<1>5. Queued
  BY DEF Init, Queued, Publishing, Worked
<1> QED BY <1>4, <1>5

LEMMA AdvanceQueued ==
    ASSUME TypeOK, Queued, NEW c \in Caller, Advance(c)
    PROVE  TypeOK' /\ Queued'
<1> USE DEF caches
<1>0. /\ pc[c] \in Steps /\ pc \in [Caller -> Steps]
      /\ held \in [Caller -> States \cup {"none"}]
  BY DEF TypeOK
<1>1. CASE SetInflightState(c)
  <2>1. Goto(c, "publish") /\ "publish" \in Steps /\ held' = held /\ locks' = locks
    BY <1>1 DEF SetInflightState, Steps
  <2>2. Queued'
    BY <2>1, QueuedByGoto, <1>1 DEF SetInflightState, Publishing, Worked
  <2>3. TypeOK'
    BY <1>1, <2>1, GotoType, RequestArg DEF SetInflightState, TypeOK
  <2> QED BY <2>2, <2>3
<1>2. CASE ClearInflightState(c)
  <2>1. Goto(c, "publish") /\ "publish" \in Steps /\ held' = held /\ locks' = locks
    BY <1>2 DEF ClearInflightState, Steps
  <2>2. Queued'
    BY <2>1, QueuedByGoto DEF Publishing, Worked
  <2>3. TypeOK'
    BY <1>2, <2>1, GotoType DEF ClearInflightState, TypeOK
  <2> QED BY <2>2, <2>3
<1>3. CASE SetLatestState(c)
  <2>1. Goto(c, "confirm") /\ "confirm" \in Steps /\ held' = held /\ locks' = locks
    BY <1>3 DEF SetLatestState, Steps
  <2>2. Queued'
    BY <2>1, QueuedByGoto DEF Publishing, Worked
  <2>3. TypeOK'
    BY <1>3, <2>1, GotoType, RequestArg DEF SetLatestState, TypeOK
  <2> QED BY <2>2, <2>3
<1>4. CASE ConfirmTransition(c)
  <2>1. PICK s \in {"clear", "publish"} : Goto(c, s)
    BY <1>4 DEF ConfirmTransition
  <2>2. s \in Steps /\ held' = held /\ locks' = locks
    BY <1>4, <2>1 DEF ConfirmTransition, Steps
  <2>3. Queued'
    BY <2>1, <2>2, QueuedByGoto DEF Publishing, Worked
  <2>4. pc' \in [Caller -> Steps]
    BY <1>0, <2>1, <2>2, GotoType
  <2>5. TypeOK'
    BY <1>4, <2>4 DEF ConfirmTransition, TypeOK
  <2> QED BY <2>3, <2>5
<1>5. CASE JoinQueue(c)
  <2> DEFINE q == locks[Home[c]]
  <2>1. /\ pc[c] = "publish" /\ Goto(c, "wait") /\ "wait" \in Steps
        /\ held' = held /\ locks' = [locks EXCEPT ![Home[c]] = Append(q, c)]
    BY <1>5 DEF JoinQueue, Steps
  <2>2. Home[c] \in Proc /\ q \in Seq(Caller)
    BY HomeAssumption DEF TypeOK
  <2>3. /\ Append(q, c) \in Seq(Caller)
        /\ Len(Append(q, c)) = Len(q) + 1
        /\ Append(q, c)[Len(q) + 1] = c
        /\ \A i \in 1..Len(q) : Append(q, c)[i] = q[i]
    BY <2>2
  <2>4. locks' \in [Proc -> Seq(Caller)]
    BY <2>1, <2>2, <2>3 DEF TypeOK
  <2>5. TypeOK'
    BY <1>5, <2>1, <2>4, GotoType DEF JoinQueue, TypeOK
  <2>6. pc'[c] = "wait" /\ \A d \in Caller \ {c} : pc'[d] = pc[d]
    BY <1>0, <2>1, GotoType
  <2>7. ASSUME NEW d \in Caller
        PROVE  /\ pc'[d] = "wait" =>
                      \E i \in 1..Len(locks'[Home[d]]) : locks'[Home[d]][i] = d
               /\ pc'[d] \in Publishing =>
                      locks'[Home[d]] # <<>> /\ locks'[Home[d]][1] = d
               /\ pc'[d] \in Worked => held'[d] \in States
    <3>1. CASE Home[d] = Home[c]
      <4>1. locks'[Home[d]] = Append(q, c) /\ locks[Home[d]] = q
        BY <2>1, <2>2, <3>1 DEF TypeOK
      <4>2. Len(q) \in Nat /\ Len(q) + 1 \in 1..Len(Append(q, c))
        BY <2>2, <2>3
      <4>3. CASE d = c
        BY <2>3, <2>6, <4>1, <4>2, <4>3 DEF Publishing, Worked
      <4>4. CASE d # c
        <5>1. pc'[d] = pc[d]
          BY <2>6, <4>4
        <5>2. ASSUME pc[d] = "wait"
              PROVE  \E i \in 1..Len(Append(q, c)) : Append(q, c)[i] = d
          <6>1. PICK i \in 1..Len(q) : q[i] = d
            BY <4>1, <5>2 DEF Queued, Queue
          <6> QED BY <2>3, <4>2, <6>1
        <5>3. ASSUME pc[d] \in Publishing
              PROVE  Append(q, c) # <<>> /\ Append(q, c)[1] = d
          <6>1. q # <<>> /\ q[1] = d
            BY <4>1, <5>3 DEF Queued, Queue
          <6> QED BY <2>2, <2>3, <6>1
        <5>4. pc[d] \in Worked => held'[d] \in States
          BY <2>1 DEF Queued
        <5> QED BY <4>1, <5>1, <5>2, <5>3, <5>4
      <4> QED BY <4>3, <4>4
    <3>2. CASE Home[d] # Home[c]
      <4>1. locks'[Home[d]] = locks[Home[d]] /\ d # c
        BY <2>1, <3>2, HomeAssumption DEF TypeOK
      <4> QED BY <2>1, <2>6, <4>1 DEF Queued, Queue
    <3> QED BY <3>1, <3>2
  <2> QED BY <2>5, <2>7 DEF Queued, Queue
<1>6. CASE ReadInflight(c)
  <2>1. /\ pc[c] = "wait" /\ Head(locks[Home[c]]) = c /\ Goto(c, "readLatest")
        /\ "readLatest" \in Steps /\ locks' = locks
        /\ held' = [held EXCEPT ![c] = inflight]
    BY <1>6 DEF ReadInflight, Turn, Steps
  <2>2. TypeOK'
    BY <1>6, <2>1, GotoType, StatesAssumption DEF ReadInflight, TypeOK
  <2>3. Queue(c) # <<>> /\ Queue(c)[1] = c
    <3>1. Queue(c) \in Seq(Caller)
      BY HomeAssumption DEF TypeOK, Queue
    <3>2. PICK i \in 1..Len(Queue(c)) : Queue(c)[i] = c
      BY <2>1 DEF Queued
    <3> QED BY <2>1, <3>1, <3>2 DEF Queue
  <2>4. /\ pc'[c] = "readLatest" /\ \A d \in Caller \ {c} : pc'[d] = pc[d]
        /\ \A d \in Caller \ {c} : held'[d] = held[d]
        /\ \A d \in Caller : Queue(d)' = Queue(d)
    BY <1>0, <2>1, GotoType DEF Queue
  <2>5. Queued'
    BY <2>3, <2>4 DEF Queued, Publishing, Worked
  <2> QED BY <2>2, <2>5
<1>7. CASE ReadLatest(c)
  <2>1. /\ pc[c] = "readLatest" /\ Goto(c, "compare") /\ "compare" \in Steps
        /\ locks' = locks /\ held' = [held EXCEPT ![c] = Effective(held[c], latest)]
    BY <1>7 DEF ReadLatest, Steps
  <2>2. Effective(held[c], latest) \in States
    BY EffectiveType DEF TypeOK
  <2>3. TypeOK'
    BY <1>7, <2>1, <2>2, GotoType DEF ReadLatest, TypeOK
  <2>4. held'[c] \in States /\ \A d \in Caller \ {c} : held'[d] = held[d]
    BY <1>0, <2>1, <2>2
  <2>5. Queued'
    BY <2>1, <2>4, QueuedByGoto DEF Publishing
  <2> QED BY <2>3, <2>5
<1>8. CASE CompareWithLast(c)
  <2>1. pc[c] = "compare" /\ held' = held
    BY <1>8 DEF CompareWithLast
  <2>2. CASE remembered = held[c]
    <3>1. Goto(c, "idle") /\ Release(c) /\ "idle" \in Steps
      BY <1>8, <2>2 DEF CompareWithLast, Steps
    <3>2. locks' \in [Proc -> Seq(Caller)] /\ Queued'
      BY <2>1, <3>1, QueuedByRelease DEF Publishing
    <3>3. TypeOK'
      BY <1>8, <3>1, <3>2, GotoType DEF CompareWithLast, TypeOK
    <3> QED BY <3>2, <3>3
  <2>3. CASE remembered # held[c]
    <3>1. Goto(c, "remember") /\ locks' = locks /\ "remember" \in Steps
      BY <1>8, <2>3 DEF CompareWithLast, Steps
    <3>2. held[c] \in States
      BY <2>1 DEF Queued, Worked
    <3>3. Queued'
      BY <2>1, <3>1, <3>2, QueuedByGoto DEF Publishing
    <3>4. TypeOK'
      BY <1>8, <3>1, GotoType DEF CompareWithLast, TypeOK
    <3> QED BY <3>3, <3>4
  <2> QED BY <2>2, <2>3
<1>9. CASE Remember(c)
  <2>1. /\ pc[c] = "remember" /\ Goto(c, "notify") /\ "notify" \in Steps
        /\ held' = held /\ locks' = locks
    BY <1>9 DEF Remember, Steps
  <2>2. held[c] \in States
    BY <2>1 DEF Queued, Worked
  <2>3. Queued'
    BY <2>1, <2>2, QueuedByGoto DEF Publishing
  <2>4. TypeOK'
    BY <1>9, <2>1, <2>2, GotoType DEF Remember, TypeOK
  <2> QED BY <2>3, <2>4
<1>10. CASE NotifyInstanceState(c)
  <2>1. /\ pc[c] = "notify" /\ Goto(c, "idle") /\ "idle" \in Steps
        /\ Release(c) /\ held' = held
    BY <1>10 DEF NotifyInstanceState, Steps
  <2>2. locks' \in [Proc -> Seq(Caller)] /\ Queued'
    BY <2>1, QueuedByRelease DEF Publishing
  <2>3. held[c] \in States
    BY <2>1 DEF Queued, Worked
  <2>4. TypeOK'
    BY <1>10, <2>1, <2>2, <2>3, GotoType DEF NotifyInstanceState, TypeOK
  <2> QED BY <2>2, <2>4
<1> QED
  BY <1>1, <1>2, <1>3, <1>4, <1>5, <1>6, <1>7, <1>8, <1>9, <1>10 DEF Advance

LEMMA NextQueued == TypeOK /\ Queued /\ [Next]_vars => TypeOK' /\ Queued'
<1> SUFFICES ASSUME TypeOK, Queued, [Next]_vars PROVE TypeOK' /\ Queued'
  OBVIOUS
<1>1. ASSUME NEW c \in Caller, NEW q \in Request, Begin(c, q) PROVE TypeOK' /\ Queued'
  <2>1. Goto(c, "change") /\ "change" \in Steps /\ held' = held /\ locks' = locks
    BY <1>1 DEF Begin, Steps
  <2>2. requested' \in 0..MaxRequests
    BY <1>1, MaxRequestsAssumption DEF Begin, TypeOK
  <2>3. TypeOK'
    BY <1>1, <2>1, <2>2, GotoType DEF Begin, TypeOK, caches
  <2>4. Queued'
    BY <2>1, QueuedByGoto DEF Publishing, Worked
  <2> QED BY <2>3, <2>4
<1>2. ASSUME NEW c \in Caller, Advance(c) PROVE TypeOK' /\ Queued'
  BY <1>2, AdvanceQueued
<1>3. CASE UNCHANGED vars
  BY <1>3 DEF vars, TypeOK, Queued, Queue
<1> QED BY <1>1, <1>2, <1>3 DEF Next

\* The caches and what the handlers hold keep to their types (TypeOK), however
\* many forge processes share the caches.
THEOREM TypeCorrect == Spec => []TypeOK
BY InitQueued, NextQueued, PTL DEF Spec
-----------------------------------------------------------------------------
(* One process *)

\* No two handlers publish at the same time.
Alone == \A c, d \in Caller : pc[c] \in Publishing /\ pc[d] \in Publishing => c = d

\* The cache of the state published last lags the message only between the two
\* steps that write them, and what is about to be sent is new.
LastIsShown ==
    /\ \A c \in Caller : pc[c] = "remember" => held[c] # remembered
    /\ \A c \in Caller :
            pc[c] = "notify" => remembered = held[c] /\ held[c] # shown
    /\ (\A c \in Caller : pc[c] # "notify") => remembered = shown

\* Unless another publication is still to come, the one under way holds what the
\* caches hold, and if none is under way clients have been sent it.
Fresh ==
    \/ \E c \in Caller : pc[c] \in Pending
    \/ /\ \A c \in Caller : pc[c] = "readLatest" => held[c] = inflight
       /\ \A c \in Caller :
            pc[c] \in Worked => held[c] = Effective(inflight, latest)
       /\ (\A c \in Caller : pc[c] \notin Publishing) =>
            shown = Effective(inflight, latest)

\* With a single process its queue lets one publication through at a time.
LEMMA OneAtATime ==
    ASSUME NEW p, Proc = {p}, Queued
    PROVE  /\ Alone
           /\ \A c, d \in Caller :
                    pc[c] \in Publishing /\ Head(locks[Home[d]]) = d => c = d
<1>1. \A c, d \in Caller : Home[c] = p /\ Home[d] = p
  BY HomeAssumption
<1>2. ASSUME NEW c \in Caller, pc[c] \in Publishing
      PROVE  locks[p] # <<>> /\ Head(locks[p]) = c
  BY <1>1, <1>2 DEF Queued, Queue
<1>3. Alone
  BY <1>2 DEF Alone
<1> QED BY <1>1, <1>2, <1>3

LEMMA LastIsShownStep ==
    ASSUME TypeOK, Alone, LastIsShown, NEW c \in Caller, Advance(c)
    PROVE  LastIsShown'
<1>0. pc \in [Caller -> Steps] /\ held \in [Caller -> States \cup {"none"}]
  BY DEF TypeOK
<1>1. ASSUME NEW s \in Steps \ {"remember", "notify"}, Goto(c, s),
             pc[c] # "notify", remembered' = remembered, shown' = shown,
             \A d \in Caller \ {c} : held'[d] = held[d]
      PROVE  LastIsShown'
  <2>1. pc'[c] = s /\ \A d \in Caller \ {c} : pc'[d] = pc[d]
    BY <1>0, <1>1, GotoType
  <2>2. (\A d \in Caller : pc'[d] # "notify") => \A d \in Caller : pc[d] # "notify"
    BY <1>1, <2>1
  <2> QED BY <1>1, <2>1, <2>2 DEF LastIsShown
<1>2. CASE SetInflightState(c)
  BY <1>1, <1>2 DEF SetInflightState, Steps
<1>3. CASE ClearInflightState(c)
  BY <1>1, <1>3 DEF ClearInflightState, Steps
<1>4. CASE SetLatestState(c)
  BY <1>1, <1>4 DEF SetLatestState, Steps
<1>5. CASE ConfirmTransition(c)
  <2>1. PICK s \in {"clear", "publish"} : Goto(c, s)
    BY <1>5 DEF ConfirmTransition
  <2> QED BY <1>1, <1>5, <2>1 DEF ConfirmTransition, caches, Steps
<1>6. CASE JoinQueue(c)
  BY <1>1, <1>6 DEF JoinQueue, caches, Steps
<1>7. CASE ReadInflight(c)
  BY <1>0, <1>1, <1>7 DEF ReadInflight, Turn, caches, Steps
<1>8. CASE ReadLatest(c)
  BY <1>0, <1>1, <1>8 DEF ReadLatest, caches, Steps
<1>9. CASE CompareWithLast(c)
  <2>1. pc[c] = "compare" /\ held' = held /\ remembered' = remembered /\ shown' = shown
    BY <1>9 DEF CompareWithLast, caches
  <2>2. CASE remembered = held[c]
    BY <1>1, <1>9, <2>1, <2>2 DEF CompareWithLast, Steps
  <2>3. CASE remembered # held[c]
    <3>1. pc'[c] = "remember" /\ \A d \in Caller \ {c} : pc'[d] = pc[d]
      BY <1>0, <1>9, <2>3, GotoType DEF CompareWithLast, Steps
    <3> QED BY <2>1, <2>3, <3>1 DEF LastIsShown
  <2> QED BY <2>2, <2>3
<1>10. CASE Remember(c)
  <2>1. /\ pc[c] = "remember" /\ held' = held /\ shown' = shown
        /\ remembered' = held[c]
    BY <1>10 DEF Remember
  <2>2. pc'[c] = "notify" /\ \A d \in Caller \ {c} : pc'[d] = pc[d]
    BY <1>0, <1>10, GotoType DEF Remember, Steps
  <2>3. \A d \in Caller \ {c} : pc[d] \notin Publishing
    BY <2>1 DEF Alone, Publishing
  <2>4. held[c] # shown
    BY <2>1, <2>3 DEF LastIsShown, Publishing
  <2> QED BY <2>1, <2>2, <2>3, <2>4 DEF LastIsShown, Publishing
<1>11. CASE NotifyInstanceState(c)
  <2>1. /\ pc[c] = "notify" /\ held' = held /\ shown' = held[c]
        /\ remembered' = remembered
    BY <1>11 DEF NotifyInstanceState, caches
  <2>2. pc'[c] = "idle" /\ \A d \in Caller \ {c} : pc'[d] = pc[d]
    BY <1>0, <1>11, GotoType DEF NotifyInstanceState, Steps
  <2>3. \A d \in Caller \ {c} : pc[d] \notin Publishing
    BY <2>1 DEF Alone, Publishing
  <2>4. remembered = held[c]
    BY <2>1 DEF LastIsShown
  <2> QED BY <2>1, <2>2, <2>3, <2>4 DEF LastIsShown, Publishing
<1> QED
  BY <1>2, <1>3, <1>4, <1>5, <1>6, <1>7, <1>8, <1>9, <1>10, <1>11 DEF Advance

LEMMA FreshStep ==
    ASSUME NEW p, Proc = {p}, TypeOK, Queued, LastIsShown, Fresh,
           NEW c \in Caller, Advance(c)
    PROVE  Fresh'
<1>0. pc \in [Caller -> Steps] /\ held \in [Caller -> States \cup {"none"}]
  BY DEF TypeOK
<1>1. Alone /\ \A d \in Caller : pc[d] \in Publishing /\ Turn(c) => d = c
  BY OneAtATime DEF Turn
<1>2. ASSUME NEW s \in Steps \cap Pending, Goto(c, s) PROVE Fresh'
  <2>1. pc'[c] = s
    BY <1>0, <1>2, GotoType
  <2> QED BY <1>2, <2>1 DEF Fresh
<1>3. ASSUME NEW s \in Steps, Goto(c, s), pc[c] \notin Pending,
             \E d \in Caller : pc[d] \in Pending
      PROVE  Fresh'
  <2>1. \A d \in Caller \ {c} : pc'[d] = pc[d]
    BY <1>0, <1>3, GotoType
  <2>2. PICK d \in Caller : pc[d] \in Pending
    BY <1>3
  <2>3. pc'[d] \in Pending
    BY <1>3, <2>1, <2>2
  <2> QED BY <2>3 DEF Fresh
<1>4. CASE SetInflightState(c)
  BY <1>2, <1>4 DEF SetInflightState, Steps, Pending
<1>5. CASE ClearInflightState(c)
  BY <1>2, <1>5 DEF ClearInflightState, Steps, Pending
<1>6. CASE SetLatestState(c)
  BY <1>2, <1>6 DEF SetLatestState, Steps, Pending
<1>7. CASE ConfirmTransition(c)
  <2>1. PICK s \in {"clear", "publish"} : Goto(c, s)
    BY <1>7 DEF ConfirmTransition
  <2> QED BY <1>2, <2>1 DEF Steps, Pending
<1>8. CASE JoinQueue(c)
  BY <1>2, <1>8 DEF JoinQueue, Steps, Pending
<1>9. CASE ReadInflight(c)
  <2>1. /\ Turn(c) /\ pc[c] = "wait" /\ Goto(c, "readLatest")
        /\ held' = [held EXCEPT ![c] = inflight]
        /\ inflight' = inflight
    BY <1>9 DEF ReadInflight, Turn, caches
  <2>2. pc'[c] = "readLatest" /\ \A d \in Caller \ {c} : pc'[d] = pc[d]
    BY <1>0, <2>1, GotoType DEF Steps
  <2>3. \A d \in Caller \ {c} : pc'[d] \notin Publishing
    BY <1>1, <2>1, <2>2
  <2>4. held'[c] = inflight'
    BY <1>0, <2>1
  <2> QED BY <2>2, <2>3, <2>4 DEF Fresh, Publishing, Worked
<1>10. CASE ReadLatest(c)
  <2>1. /\ pc[c] = "readLatest" /\ Goto(c, "compare") /\ "compare" \in Steps
        /\ held' = [held EXCEPT ![c] = Effective(held[c], latest)]
        /\ inflight' = inflight /\ latest' = latest
    BY <1>10 DEF ReadLatest, caches, Steps
  <2>2. CASE \E d \in Caller : pc[d] \in Pending
    BY <1>3, <2>1, <2>2 DEF Pending
  <2>3. CASE \A d \in Caller : pc[d] \notin Pending
    <3>1. pc'[c] = "compare" /\ \A d \in Caller \ {c} : pc'[d] = pc[d]
      BY <1>0, <2>1, GotoType
    <3>2. \A d \in Caller \ {c} : pc'[d] \notin Publishing
      BY <1>1, <2>1, <3>1 DEF Alone, Publishing
    <3>3. held'[c] = Effective(inflight, latest)
      BY <1>0, <2>1, <2>3 DEF Fresh
    <3>4. Effective(inflight, latest)' = Effective(inflight, latest)
      BY <2>1 DEF Effective
    <3> QED BY <3>1, <3>2, <3>3, <3>4 DEF Fresh, Publishing, Worked
  <2> QED BY <2>2, <2>3
<1>11. CASE CompareWithLast(c)
  <2>1. /\ pc[c] = "compare" /\ held' = held /\ shown' = shown
        /\ inflight' = inflight /\ latest' = latest
    BY <1>11 DEF CompareWithLast, caches
  <2>2. PICK s \in {"idle", "remember"} :
            Goto(c, s) /\ (s = "idle" => remembered = held[c])
    BY <1>11 DEF CompareWithLast
  <2>3. pc'[c] = s /\ s \in Steps /\ \A d \in Caller \ {c} : pc'[d] = pc[d]
    BY <1>0, <2>2, GotoType DEF Steps
  <2>4. CASE \E d \in Caller : pc[d] \in Pending
    BY <1>3, <2>1, <2>2, <2>3, <2>4 DEF Pending
  <2>5. CASE \A d \in Caller : pc[d] \notin Pending
    <3>1. \A d \in Caller \ {c} : pc[d] \notin Publishing
      BY <1>1, <2>1 DEF Alone, Publishing
    <3>2. held[c] = Effective(inflight, latest) /\ remembered = shown
      BY <2>1, <2>5, <3>1 DEF Fresh, LastIsShown, Publishing, Worked
    <3>3. Effective(inflight, latest)' = Effective(inflight, latest)
      BY <2>1 DEF Effective
    <3> QED BY <2>1, <2>2, <2>3, <3>1, <3>2, <3>3 DEF Fresh, Publishing, Worked
  <2> QED BY <2>4, <2>5
<1>12. CASE Remember(c)
  <2>1. /\ pc[c] = "remember" /\ Goto(c, "notify") /\ "notify" \in Steps
        /\ held' = held /\ inflight' = inflight /\ latest' = latest
    BY <1>12 DEF Remember, Steps
  <2>2. CASE \E d \in Caller : pc[d] \in Pending
    BY <1>3, <2>1, <2>2 DEF Pending
  <2>3. CASE \A d \in Caller : pc[d] \notin Pending
    <3>1. pc'[c] = "notify" /\ \A d \in Caller \ {c} : pc'[d] = pc[d]
      BY <1>0, <2>1, GotoType
    <3>2. \A d \in Caller \ {c} : pc[d] \notin Publishing
      BY <1>1, <2>1 DEF Alone, Publishing
    <3>3. held[c] = Effective(inflight, latest)
      BY <2>1, <2>3 DEF Fresh, Worked
    <3>4. Effective(inflight, latest)' = Effective(inflight, latest)
      BY <2>1 DEF Effective
    <3> QED BY <2>1, <3>1, <3>2, <3>3, <3>4 DEF Fresh, Publishing, Worked
  <2> QED BY <2>2, <2>3
<1>13. CASE NotifyInstanceState(c)
  <2>1. /\ pc[c] = "notify" /\ Goto(c, "idle") /\ "idle" \in Steps
        /\ held' = held /\ shown' = held[c]
        /\ inflight' = inflight /\ latest' = latest
    BY <1>13 DEF NotifyInstanceState, caches, Steps
  <2>2. CASE \E d \in Caller : pc[d] \in Pending
    BY <1>3, <2>1, <2>2 DEF Pending
  <2>3. CASE \A d \in Caller : pc[d] \notin Pending
    <3>1. pc'[c] = "idle" /\ \A d \in Caller \ {c} : pc'[d] = pc[d]
      BY <1>0, <2>1, GotoType
    <3>2. \A d \in Caller \ {c} : pc[d] \notin Publishing
      BY <1>1, <2>1 DEF Alone, Publishing
    <3>3. held[c] = Effective(inflight, latest)
      BY <2>1, <2>3 DEF Fresh, Worked
    <3>4. Effective(inflight, latest)' = Effective(inflight, latest)
      BY <2>1 DEF Effective
    <3> QED BY <2>1, <3>1, <3>2, <3>3, <3>4 DEF Fresh, Publishing, Worked
  <2> QED BY <2>2, <2>3
<1> QED
  BY <1>4, <1>5, <1>6, <1>7, <1>8, <1>9, <1>10, <1>11, <1>12, <1>13 DEF Advance

\* The inductive invariant of a single process
Chained == TypeOK /\ Queued /\ LastIsShown /\ Fresh

LEMMA ChainedInvariant ==
    ASSUME NEW p, Proc = {p}
    PROVE  Spec => []Chained
<1>1. Init => Chained
  <2> SUFFICES ASSUME Init PROVE Chained
    OBVIOUS
  <2>1. TypeOK /\ Queued
    BY InitQueued
  <2>2. LastIsShown
    BY DEF Init, LastIsShown
  <2>3. Fresh
    BY DEF Init, Fresh, Effective, Publishing, Worked
  <2> QED BY <2>1, <2>2, <2>3 DEF Chained
<1>2. Chained /\ [Next]_vars => Chained'
  <2> SUFFICES ASSUME Chained, [Next]_vars PROVE Chained'
    OBVIOUS
  <2>1. TypeOK' /\ Queued'
    BY NextQueued DEF Chained
  <2>2. ASSUME NEW c \in Caller, NEW q \in Request, Begin(c, q)
        PROVE  LastIsShown' /\ Fresh'
    <3>1. pc[c] = "idle" /\ pc'[c] = "change" /\ \A d \in Caller \ {c} : pc'[d] = pc[d]
      BY <2>2, GotoType DEF Begin, Chained, TypeOK, Steps
    <3>2. /\ held' = held /\ shown' = shown /\ inflight' = inflight
          /\ latest' = latest /\ remembered' = remembered
      BY <2>2 DEF Begin, caches
    <3>3. \A d \in Caller :
            /\ pc'[d] \in Publishing <=> pc[d] \in Publishing
            /\ pc'[d] \in Worked <=> pc[d] \in Worked
            /\ pc'[d] \in Pending <=> pc[d] \in Pending
            /\ \A s \in Publishing : pc'[d] = s <=> pc[d] = s
      BY <3>1 DEF Publishing, Worked, Pending
    <3>4. LastIsShown'
      BY <3>2, <3>3 DEF Chained, LastIsShown, Publishing
    <3>5. Effective(inflight, latest)' = Effective(inflight, latest)
      BY <3>2 DEF Effective
    <3>6. Fresh'
      BY <3>2, <3>3, <3>5 DEF Chained, Fresh, Publishing
    <3> QED BY <3>4, <3>6
  <2>3. ASSUME NEW c \in Caller, Advance(c) PROVE LastIsShown' /\ Fresh'
    BY <2>3, OneAtATime, LastIsShownStep, FreshStep DEF Chained
  <2>4. ASSUME UNCHANGED vars PROVE LastIsShown' /\ Fresh'
    BY <2>4 DEF vars, Chained, LastIsShown, Fresh, Effective
  <2>5. LastIsShown' /\ Fresh'
    BY <2>2, <2>3, <2>4 DEF Next
  <2> QED BY <2>1, <2>5 DEF Chained
<1> QED BY <1>1, <1>2, PTL DEF Spec

\* Whatever the number of handlers, and in whatever order their cache accesses
\* settle, a single forge process strands no stale state (NoStaleState).
THEOREM NoStaleStateInOneProcess ==
    ASSUME NEW p, Proc = {p}
    PROVE  Spec => []NoStaleState
<1>1. Chained => NoStaleState
  BY DEF Chained, Fresh, NoStaleState, Pending, Publishing
<1> QED BY <1>1, ChainedInvariant, PTL

\* Nor does it send the same state twice in a row (NoRepeats).
THEOREM NoRepeatsInOneProcess ==
    ASSUME NEW p, Proc = {p}
    PROVE  Spec => NoRepeats
<1>1. Chained /\ [Next]_vars =>
        [\A c \in Caller : NotifyInstanceState(c) => shown' # shown]_vars
  <2> SUFFICES ASSUME Chained, NEW c \in Caller, NotifyInstanceState(c)
               PROVE  shown' # shown
    OBVIOUS
  <2> QED BY DEF NotifyInstanceState, Chained, LastIsShown
<1> QED BY <1>1, ChainedInvariant, PTL DEF Spec, NoRepeats
=============================================================================
