------------------------- MODULE InstanceSerialProofs -------------------------
(***************************************************************************)
(* Proofs about InstanceLifecycle with one handler at a time: whatever     *)
(* operations follow each other, each leaves the row, the container, the   *)
(* subscription and the transition on show in agreement, even if the       *)
(* driver fails to start the container.                                    *)
(*                                                                         *)
(* The argument is a logic of programs.  A handler's steps act on a view   *)
(* of the shared state; Ensures(A, p, B) says that the program p, begun in *)
(* a view of A, can not fail on the way and ends in a view of B.  What is  *)
(* left of the handler's program ensures, at every moment, that it ends    *)
(* with everything settled.                                                *)
(*                                                                         *)
(* That clients see the instance as it is, and that nothing is launched    *)
(* for free, are other matters: there any step may throw.  The first is an *)
(* invariant of every single step; for the second the invariant says which *)
(* steps stand before a launch.                                            *)
(***************************************************************************)
EXTENDS InstanceLifecycleProofs

OneHandler == \E r : Req = {r}
OnlyLaunchesFail == Faults \subseteq {"launch"}

\* Without the operations that leave something behind or do not run to their end: a custom hostname
\* is set without a report that ends it, the licence sweep throws, the subscription ends, and a read
\* of the live state changes none of what is settled but may stop half-way.
Settling == Ops \cap {"customHostname", "licenseSuspend", "billingDeleted", "liveState"} = {}

-----------------------------------------------------------------------------
(* What a step does to the shared state *)

View == [row : RowStates \cup {"gone"}, box : {"none", "suspended", "up"}, billed : BOOLEAN,
         counted : BOOLEAN, inflight : Transitions \cup {"none"}]

\* A start that the launcher confirms is over.
Confirmed(t) == IF t \in {"starting", "restarting"} THEN "none" ELSE t

\* The container goes up, if there is one.
Up(b) == IF b = "none" THEN b ELSE "up"

Cleared(v) == [v EXCEPT !.inflight = "none"]

Silent == {"flagDeploy", "import", "check", "admit", "reload", "restartFlows"}

Acts(x, v, w) ==
    \/ x.do = "mark" /\ w = [v EXCEPT !.inflight = x.arg]
    \/ x.do = "clear" /\ w = Cleared(v)
    \/ x.do = "clearIfSuspended" /\ w = IF v.row = "suspended" THEN Cleared(v) ELSE v
    \/ x.do = "write" /\ w = [v EXCEPT !.row = x.arg]
    \/ x.do = "count" /\ w = [v EXCEPT !.counted = v.row \in Live]
    \/ x.do \in {"bill", "unbill", "lateUnbill"} /\ w = [v EXCEPT !.billed = v.counted]
    \/ x.do = "launch" /\ w = [v EXCEPT !.box = "up"]
    \/ x.do = "driverStop" /\ w = [v EXCEPT !.box = "suspended"]
    \/ x.do = "driverRemove" /\ w = [v EXCEPT !.box = "none"]
    \/ x.do = "destroy" /\ w = [v EXCEPT !.row = "gone"]
    \/ x.do \in {"startFlows", "stopFlows"} /\ w = [v EXCEPT !.box = Up(v.box)]
    \/ x.do = "bounce" /\ w = [v EXCEPT !.box = Up(v.box), !.inflight = Confirmed(v.inflight)]
    \/ x.do = "report" /\ \E t \in {v.inflight, "none"} :
                                w = [v EXCEPT !.inflight = t]
    \/ x.do \in Silent /\ w = v

\* The step x, taken in the view v, leads n steps on, to the view w.  A start that succeeds skips
\* the steps of the wrapper's catch.
Leads(x, n, v, w) ==
    \/ x.do # "settle" /\ n = 1 /\ Acts(x, v, w)
    \/ x.do = "settle" /\ n = 1 /\ w = [v EXCEPT !.box = "none"]
    \/ /\ x.do = "settle" /\ n = 4
       /\ w = [v EXCEPT !.box = "up", !.inflight = Confirmed(v.inflight)]

\* The step neither throws nor ends the handler.
Can(x, v) ==
    /\ v.row # "gone"
    /\ x.do \notin {"unbillTeamless", "details", "noteLatest"}
    /\ x.do = "launch" => v.box # "up"
    /\ x.do \in {"settle", "driverStop"} => v.box # "none"

\* The views f allows before each step, and after the last, are those the steps lead to.
Annotates(f, p) ==
    /\ f \in [1..(Len(p) + 1) -> SUBSET View]
    /\ \A i \in 1..Len(p) : \A v \in f[i] :
        /\ Can(p[i], v)
        /\ \A n \in {1, 4}, w \in View :
                Leads(p[i], n, v, w) => i + n <= Len(p) + 1 /\ w \in f[i + n]

Ensures(A, p, B) ==
    \E f : Annotates(f, p) /\ A \subseteq f[1] /\ f[Len(p) + 1] \subseteq B

\* A single step, other than the settling of a start, leads from A to B.
Moves(A, x, B) ==
    \A v \in A : /\ Can(x, v) /\ x.do # "settle"
                 /\ \A w \in View : Acts(x, v, w) => w \in B

-----------------------------------------------------------------------------
(* The rules *)

LEMMA NothingLeft ==
    ASSUME NEW A, NEW B, Ensures(A, <<>>, B)
    PROVE  A \subseteq B
BY DEF Ensures

LEMMA NothingToDo ==
    ASSUME NEW A \in SUBSET View, NEW B, A \subseteq B
    PROVE  Ensures(A, <<>>, B)
<1>1. Annotates([i \in 1..1 |-> A], <<>>)
    BY DEF Annotates
<1> QED
    BY <1>1 DEF Ensures

LEMMA Weaken ==
    ASSUME NEW A, NEW B, NEW p, NEW A1, NEW B1, Ensures(A, p, B), A1 \subseteq A, B \subseteq B1
    PROVE  Ensures(A1, p, B1)
BY DEF Ensures

\* A step first, then the rest.
LEMMA StepThen ==
    ASSUME NEW A \in SUBSET View, NEW B, NEW C, NEW p \in Seq(Step), NEW q \in Seq(Step),
           Len(q) = Len(p) + 1, \A i \in 1..Len(p) : q[i + 1] = p[i],
           Moves(A, q[1], B), Ensures(B, p, C)
    PROVE  Ensures(A, q, C)
<1>1. PICK f : Annotates(f, p) /\ B \subseteq f[1] /\ f[Len(p) + 1] \subseteq C
    BY DEF Ensures
<1>2. Len(p) \in Nat
    BY LenProperties
<1>. DEFINE g == [i \in 1..(Len(q) + 1) |-> IF i = 1 THEN A ELSE f[i - 1]]
<1>3. g \in [1..(Len(q) + 1) -> SUBSET View] /\ g[1] = A
      /\ \A i \in 1..(Len(p) + 1) : g[i + 1] = f[i]
    BY <1>1, <1>2 DEF Annotates
<1>. HIDE DEF g
<1>4. ASSUME NEW v \in g[1]
      PROVE  /\ Can(q[1], v)
             /\ \A n \in {1, 4}, w \in View :
                    Leads(q[1], n, v, w) => 1 + n <= Len(q) + 1 /\ w \in g[1 + n]
    <2>1. /\ Can(q[1], v) /\ q[1].do # "settle"
          /\ \A w \in View : Acts(q[1], v, w) => w \in B
        BY <1>3, <1>4 DEF Moves
    <2>2. g[2] = f[1]
        BY <1>2, <1>3
    <2> QED
        BY <1>1, <1>2, <2>1, <2>2 DEF Leads
<1>5. ASSUME NEW i \in 1..Len(p), NEW v \in g[i + 1]
      PROVE  /\ Can(q[i + 1], v)
             /\ \A n \in {1, 4}, w \in View :
                    Leads(q[i + 1], n, v, w) => (i + 1) + n <= Len(q) + 1 /\ w \in g[(i + 1) + n]
    <2>1. v \in f[i] /\ q[i + 1] = p[i]
        BY <1>2, <1>3, <1>5
    <2>2. ASSUME NEW n \in {1, 4}, NEW w \in View, Leads(p[i], n, v, w)
          PROVE  (i + 1) + n <= Len(q) + 1 /\ w \in g[(i + 1) + n]
        <3>1. i + n <= Len(p) + 1 /\ w \in f[i + n]
            BY <1>1, <2>1, <2>2 DEF Annotates
        <3>2. i + n \in 1..(Len(p) + 1) /\ (i + 1) + n = (i + n) + 1
            BY <1>2, <3>1
        <3> QED
            BY <1>2, <1>3, <3>1, <3>2
    <2> QED
        BY <1>1, <2>1, <2>2 DEF Annotates
<1>6. Annotates(g, q)
    <2>1. \A j \in 1..Len(q) : j = 1 \/ \E i \in 1..Len(p) : j = i + 1
        BY <1>2
    <2> QED
        BY <1>3, <1>4, <1>5, <2>1 DEF Annotates
<1>7. g[Len(q) + 1] = f[Len(p) + 1]
    BY <1>2, <1>3
<1> QED
    BY <1>1, <1>3, <1>6, <1>7 DEF Ensures

\* One program after another.
LEMMA Then ==
    ASSUME NEW A, NEW B, NEW C, NEW p \in Seq(Step), NEW q \in Seq(Step),
           Ensures(A, p, B), Ensures(B, q, C)
    PROVE  Ensures(A, p \o q, C)
<1>. DEFINE s == p \o q
<1>1. PICK f : Annotates(f, p) /\ A \subseteq f[1] /\ f[Len(p) + 1] \subseteq B
    BY DEF Ensures
<1>2. PICK g : Annotates(g, q) /\ B \subseteq g[1] /\ g[Len(q) + 1] \subseteq C
    BY DEF Ensures
<1>3. s \in Seq(Step) /\ Len(s) = Len(p) + Len(q) /\ Len(p) \in Nat /\ Len(q) \in Nat
      /\ (\A i \in 1..Len(p) : s[i] = p[i]) /\ (\A i \in 1..Len(q) : s[Len(p) + i] = q[i])
    BY ConcatProperties, LenProperties
<1>. DEFINE h == [i \in 1..(Len(s) + 1) |-> IF i <= Len(p) THEN f[i] ELSE g[i - Len(p)]]
<1>. HIDE DEF s
<1>4. h \in [1..(Len(s) + 1) -> SUBSET View]
    BY <1>1, <1>2, <1>3 DEF Annotates
<1>5. (\A i \in 1..Len(p) : h[i] = f[i]) /\ (\A i \in 1..(Len(q) + 1) : h[Len(p) + i] = g[i])
    BY <1>3
<1>. HIDE DEF h
<1>6. \A i \in 1..(Len(p) + 1) : f[i] \subseteq h[i]
    <2>1. h[Len(p) + 1] = g[1]
        BY <1>3, <1>5
    <2> QED
        BY <1>1, <1>2, <1>3, <1>5, <2>1
<1>7. ASSUME NEW i \in 1..Len(p), NEW v \in h[i]
      PROVE  /\ Can(s[i], v)
             /\ \A n \in {1, 4}, w \in View :
                    Leads(s[i], n, v, w) => i + n <= Len(s) + 1 /\ w \in h[i + n]
    <2>1. v \in f[i] /\ s[i] = p[i]
        BY <1>3, <1>5, <1>7
    <2>2. ASSUME NEW n \in {1, 4}, NEW w \in View, Leads(p[i], n, v, w)
          PROVE  i + n <= Len(s) + 1 /\ w \in h[i + n]
        <3>1. i + n <= Len(p) + 1 /\ w \in f[i + n]
            BY <1>1, <2>1, <2>2 DEF Annotates
        <3> QED
            BY <1>3, <1>6, <3>1
    <2> QED
        BY <1>1, <2>1, <2>2 DEF Annotates
<1>8. ASSUME NEW i \in 1..Len(q), NEW v \in h[Len(p) + i]
      PROVE  /\ Can(s[Len(p) + i], v)
             /\ \A n \in {1, 4}, w \in View :
                    Leads(s[Len(p) + i], n, v, w) =>
                        (Len(p) + i) + n <= Len(s) + 1 /\ w \in h[(Len(p) + i) + n]
    <2>1. v \in g[i] /\ s[Len(p) + i] = q[i]
        BY <1>3, <1>5, <1>8
    <2>2. ASSUME NEW n \in {1, 4}, NEW w \in View, Leads(q[i], n, v, w)
          PROVE  (Len(p) + i) + n <= Len(s) + 1 /\ w \in h[(Len(p) + i) + n]
        <3>1. i + n <= Len(q) + 1 /\ w \in g[i + n]
            BY <1>2, <2>1, <2>2 DEF Annotates
        <3>2. i + n \in 1..(Len(q) + 1) /\ (Len(p) + i) + n = Len(p) + (i + n)
            BY <1>3, <3>1
        <3> QED
            BY <1>3, <1>5, <3>1, <3>2
    <2> QED
        BY <1>2, <2>1, <2>2 DEF Annotates
<1>9. Annotates(h, s)
    <2>. SUFFICES ASSUME NEW j \in 1..Len(s), NEW v \in h[j]
                  PROVE  /\ Can(s[j], v)
                         /\ \A n \in {1, 4}, w \in View :
                                Leads(s[j], n, v, w) => j + n <= Len(s) + 1 /\ w \in h[j + n]
        BY <1>4 DEF Annotates
    <2>1. CASE j \in 1..Len(p)
        BY <1>7, <2>1
    <2>2. CASE j \notin 1..Len(p)
        <3>1. PICK i \in 1..Len(q) : j = Len(p) + i
            <4>1. j - Len(p) \in 1..Len(q) /\ j = Len(p) + (j - Len(p))
                BY <1>3, <2>2
            <4> QED
                BY <4>1
        <3> QED
            BY <1>8, <3>1
    <2> QED
        BY <2>1, <2>2
<1>10. A \subseteq h[1] /\ h[Len(s) + 1] = g[Len(q) + 1]
    BY <1>1, <1>3, <1>5, <1>6
<1> QED
    BY <1>2, <1>9, <1>10 DEF Ensures, s

\* A step is taken: the rest ensures the same.
LEMMA Onwards ==
    ASSUME NEW v \in View, NEW B, NEW p \in Seq(Step), p # <<>>, Ensures({v}, p, B)
    PROVE  /\ Can(p[1], v)
           /\ \A n \in {1, 4}, w \in View : Leads(p[1], n, v, w) => Ensures({w}, Rest(p, n), B)
<1>1. PICK f : Annotates(f, p) /\ v \in f[1] /\ f[Len(p) + 1] \subseteq B
    BY DEF Ensures
<1>2. Len(p) \in Nat /\ 1 \in 1..Len(p)
    BY LenProperties, EmptySeq
<1>3. ASSUME NEW n \in {1, 4}, NEW w \in View, Leads(p[1], n, v, w)
      PROVE  Ensures({w}, Rest(p, n), B)
    <2>. DEFINE q == Rest(p, n)
                g == [i \in 1..(Len(q) + 1) |-> f[n + i]]
    <2>1. 1 + n <= Len(p) + 1 /\ w \in f[1 + n]
        BY <1>1, <1>2, <1>3 DEF Annotates
    <2>2. Len(q) = Len(p) - n /\ Len(q) \in Nat /\ \A i \in 1..Len(q) : q[i] = p[n + i]
        BY <1>2, <2>1, RestProperties
    <2>. HIDE DEF q
    <2>3. g \in [1..(Len(q) + 1) -> SUBSET View]
        <3>1. \A i \in 1..(Len(q) + 1) : n + i \in 1..(Len(p) + 1)
            BY <1>2, <2>1, <2>2
        <3> QED
            BY <1>1, <3>1 DEF Annotates
    <2>4. ASSUME NEW i \in 1..Len(q), NEW u \in g[i]
          PROVE  /\ Can(q[i], u)
                 /\ \A m \in {1, 4}, z \in View :
                        Leads(q[i], m, u, z) => i + m <= Len(q) + 1 /\ z \in g[i + m]
        <3>1. n + i \in 1..Len(p) /\ u \in f[n + i] /\ q[i] = p[n + i]
            BY <1>2, <2>1, <2>2, <2>4
        <3>2. ASSUME NEW m \in {1, 4}, NEW z \in View, Leads(p[n + i], m, u, z)
              PROVE  i + m <= Len(q) + 1 /\ z \in g[i + m]
            <4>1. (n + i) + m <= Len(p) + 1 /\ z \in f[(n + i) + m]
                BY <1>1, <3>1, <3>2 DEF Annotates
            <4>2. i + m \in 1..(Len(q) + 1) /\ (n + i) + m = n + (i + m)
                BY <1>2, <2>2, <4>1
            <4> QED
                BY <4>1, <4>2
        <3> QED
            BY <1>1, <3>1, <3>2 DEF Annotates
    <2>5. Annotates(g, q)
        BY <2>3, <2>4 DEF Annotates
    <2>6. g[1] = f[1 + n] /\ g[Len(q) + 1] = f[Len(p) + 1]
        BY <1>2, <2>1, <2>2
    <2>. HIDE DEF g
    <2> QED
        BY <1>1, <2>1, <2>5, <2>6 DEF Ensures, q
<1> QED
    BY <1>1, <1>2, <1>3 DEF Annotates

\* Programs written out, up to five steps.
LEMMA InOrder ==
    ASSUME NEW A \in SUBSET View, NEW B \in SUBSET View, NEW C \in SUBSET View,
           NEW D \in SUBSET View, NEW E \in SUBSET View, NEW F \in SUBSET View,
           NEW a \in Step, NEW b \in Step, NEW c \in Step, NEW d \in Step, NEW e \in Step,
           Moves(A, a, B)
    PROVE  /\ Ensures(A, <<a>>, B)
           /\ Moves(B, b, C) => Ensures(A, <<a, b>>, C)
           /\ Moves(B, b, C) /\ Moves(C, c, D) => Ensures(A, <<a, b, c>>, D)
           /\ Moves(B, b, C) /\ Moves(C, c, D) /\ Moves(D, d, E) => Ensures(A, <<a, b, c, d>>, E)
           /\ Moves(B, b, C) /\ Moves(C, c, D) /\ Moves(D, d, E) /\ Moves(E, e, F)
                => Ensures(A, <<a, b, c, d, e>>, F)
<1>1. ASSUME NEW X \in SUBSET View, NEW Y \in SUBSET View, NEW x \in Step, Moves(X, x, Y)
      PROVE  Ensures(X, <<x>>, Y)
    <2>. DEFINE p == <<>>
                q == <<x>>
    <2>1. /\ p \in Seq(Step) /\ q \in Seq(Step) /\ Len(q) = Len(p) + 1 /\ q[1] = x
          /\ \A i \in 1..Len(p) : q[i + 1] = p[i]
        OBVIOUS
    <2>2. Ensures(Y, p, Y)
        BY NothingToDo
    <2>. HIDE DEF p, q
    <2>3. Ensures(X, q, Y)
        BY <1>1, <2>1, <2>2, StepThen
    <2> QED
        BY <2>3 DEF q
<1>2. ASSUME NEW X \in SUBSET View, NEW Y \in SUBSET View, NEW Z, NEW x \in Step, NEW y \in Step,
             Moves(X, x, Y), Ensures(Y, <<y>>, Z)
      PROVE  Ensures(X, <<x, y>>, Z)
    <2>. DEFINE p == <<y>>
                q == <<x, y>>
    <2>1. /\ p \in Seq(Step) /\ q \in Seq(Step) /\ Len(q) = Len(p) + 1 /\ q[1] = x
          /\ \A i \in 1..Len(p) : q[i + 1] = p[i]
        OBVIOUS
    <2>. HIDE DEF p, q
    <2>2. Ensures(X, q, Z)
        BY <1>2, <2>1, StepThen DEF p
    <2> QED
        BY <2>2 DEF q
<1>3. ASSUME NEW X \in SUBSET View, NEW Y \in SUBSET View, NEW Z, NEW x \in Step, NEW y \in Step,
             NEW z \in Step, Moves(X, x, Y), Ensures(Y, <<y, z>>, Z)
      PROVE  Ensures(X, <<x, y, z>>, Z)
    <2>. DEFINE p == <<y, z>>
                q == <<x, y, z>>
    <2>1. /\ p \in Seq(Step) /\ q \in Seq(Step) /\ Len(q) = Len(p) + 1 /\ q[1] = x
          /\ \A i \in 1..Len(p) : q[i + 1] = p[i]
        OBVIOUS
    <2>. HIDE DEF p, q
    <2>2. Ensures(X, q, Z)
        BY <1>3, <2>1, StepThen DEF p
    <2> QED
        BY <2>2 DEF q
<1>4. ASSUME NEW X \in SUBSET View, NEW Y \in SUBSET View, NEW Z, NEW x \in Step, NEW y \in Step,
             NEW z \in Step, NEW u \in Step, Moves(X, x, Y), Ensures(Y, <<y, z, u>>, Z)
      PROVE  Ensures(X, <<x, y, z, u>>, Z)
    <2>. DEFINE p == <<y, z, u>>
                q == <<x, y, z, u>>
    <2>1. /\ p \in Seq(Step) /\ q \in Seq(Step) /\ Len(q) = Len(p) + 1 /\ q[1] = x
          /\ \A i \in 1..Len(p) : q[i + 1] = p[i]
        OBVIOUS
    <2>. HIDE DEF p, q
    <2>2. Ensures(X, q, Z)
        BY <1>4, <2>1, StepThen DEF p
    <2> QED
        BY <2>2 DEF q
<1>5. ASSUME NEW X \in SUBSET View, NEW Y \in SUBSET View, NEW Z, NEW x \in Step, NEW y \in Step,
             NEW z \in Step, NEW u \in Step, NEW v \in Step, Moves(X, x, Y),
             Ensures(Y, <<y, z, u, v>>, Z)
      PROVE  Ensures(X, <<x, y, z, u, v>>, Z)
    <2>. DEFINE p == <<y, z, u, v>>
                q == <<x, y, z, u, v>>
    <2>1. /\ p \in Seq(Step) /\ q \in Seq(Step) /\ Len(q) = Len(p) + 1 /\ q[1] = x
          /\ \A i \in 1..Len(p) : q[i + 1] = p[i]
        OBVIOUS
    <2>. HIDE DEF p, q
    <2>2. Ensures(X, q, Z)
        BY <1>5, <2>1, StepThen DEF p
    <2> QED
        BY <2>2 DEF q
<1>6. ASSUME Moves(B, b, C)
      PROVE  Ensures(A, <<a, b>>, C)
    <2>1. Ensures(B, <<b>>, C)
        BY <1>1, <1>6
    <2> QED
        BY <1>2, <2>1
<1>7. ASSUME Moves(B, b, C), Moves(C, c, D)
      PROVE  Ensures(A, <<a, b, c>>, D)
    <2>1. Ensures(C, <<c>>, D)
        BY <1>1, <1>7
    <2>2. Ensures(B, <<b, c>>, D)
        BY <1>2, <1>7, <2>1
    <2> QED
        BY <1>3, <2>2
<1>8. ASSUME Moves(B, b, C), Moves(C, c, D), Moves(D, d, E)
      PROVE  Ensures(A, <<a, b, c, d>>, E)
    <2>1. Ensures(D, <<d>>, E)
        BY <1>1, <1>8
    <2>2. Ensures(C, <<c, d>>, E)
        BY <1>2, <1>8, <2>1
    <2>3. Ensures(B, <<b, c, d>>, E)
        BY <1>3, <1>8, <2>2
    <2> QED
        BY <1>4, <2>3
<1>9. ASSUME Moves(B, b, C), Moves(C, c, D), Moves(D, d, E), Moves(E, e, F)
      PROVE  Ensures(A, <<a, b, c, d, e>>, F)
    <2>1. Ensures(E, <<e>>, F)
        BY <1>1, <1>9
    <2>2. Ensures(D, <<d, e>>, F)
        BY <1>2, <1>9, <2>1
    <2>3. Ensures(C, <<c, d, e>>, F)
        BY <1>3, <1>9, <2>2
    <2>4. Ensures(B, <<b, c, d, e>>, F)
        BY <1>4, <1>9, <2>3
    <2> QED
        BY <1>5, <2>4
<1> QED
    BY <1>1, <1>6, <1>7, <1>8, <1>9

LEMMA OneStep ==
    ASSUME NEW A \in SUBSET View, NEW B \in SUBSET View, NEW a \in Step, Moves(A, a, B)
    PROVE  Ensures(A, <<a>>, B)
<1>1. Ensures(A, <<a>>, B) /\ TRUE
    BY InOrder
<1> QED
    BY <1>1

-----------------------------------------------------------------------------
(* The wrapper's start and stop *)

\* The row, the container and the subscription agree.
Sound == {v \in View : /\ v.row \in {"running", "stopped", "suspended"}
                       /\ v.row = "suspended" <=> v.box # "up"
                       /\ v.billed <=> v.row \in Live}

\* What a handler leaves when it has ended.
Settled == {v \in Sound : v.inflight = "none"}
                \cup {v \in View : v.row = "gone" /\ v.box = "none" /\ ~v.billed}

\* A container that is up, or freed, for a row at s, during the transition t.
Using(s, t) == {v \in View : v.row = s /\ v.box = "up" /\ v.inflight = t}
Freed(s, t) == {v \in View : v.row = s /\ v.box # "up" /\ v.inflight = t}

\* After the wrapper's start: a start that failed is left for the handler to clear.
Began(t) == {v \in Sound : v.row # "suspended" => v.inflight = Confirmed(t)}

LEMMA StepTypes ==
    /\ \A k \in PlainSteps : Do(k) \in Step /\ Do(k).do = k
    /\ \A t \in Transitions : Mark(t) \in Step /\ Mark(t).do = "mark" /\ Mark(t).arg = t
    /\ \A t \in RowStates : Write(t) \in Step /\ Write(t).do = "write" /\ Write(t).arg = t
    /\ Clear \in Step /\ Clear.do = "clear"
BY DEF Step, Do, Mark, Write, Clear, PlainSteps

LEMMA Settles ==
    ASSUME NEW s \in Live, NEW t \in Transitions
    PROVE  Ensures({v \in Using(s, t) : v.billed},
                   <<Do("settle"), Write("suspended"), Do("count"), Do("lateUnbill")>>, Began(t))
<1>. DEFINE p == <<Do("settle"), Write("suspended"), Do("count"), Do("lateUnbill")>>
            Lost(r) == {v \in View : v.row = r /\ v.box = "none"}
            f == <<{v \in Using(s, t) : v.billed}, Lost(s), Lost("suspended"),
                   {v \in Lost("suspended") : ~v.counted}, Began(t)>>
<1>1. p \in Seq(Step) /\ Len(p) = 4 /\ p[1].do = "settle" /\ p[2].do = "write"
      /\ p[2].arg = "suspended" /\ p[3].do = "count" /\ p[4].do = "lateUnbill"
    BY StepTypes DEF PlainSteps, RowStates, Do, Write
<1>2. /\ f \in [1..5 -> SUBSET View]
      /\ f[1] = {v \in Using(s, t) : v.billed} /\ f[2] = Lost(s) /\ f[3] = Lost("suspended")
      /\ f[4] = {v \in Lost("suspended") : ~v.counted} /\ f[5] = Began(t)
    BY DEF Using, Began, Sound
<1>. HIDE DEF p, f
<1>3. ASSUME NEW v \in f[1]
      PROVE  Can(p[1], v) /\ \A n \in {1, 4}, w \in View : Leads(p[1], n, v, w) => w \in f[1 + n]
    <2>1. v \in View /\ v.row = s /\ v.box = "up" /\ v.billed /\ v.inflight = t
        BY <1>2, <1>3 DEF Using
    <2>2. ASSUME NEW w \in View, Leads(p[1], 1, v, w)
          PROVE  w \in f[2]
        BY <1>1, <1>2, <2>1, <2>2 DEF Leads, View
    <2>3. ASSUME NEW w \in View, Leads(p[1], 4, v, w)
          PROVE  w \in f[5]
        <3>1. w = [v EXCEPT !.box = "up", !.inflight = Confirmed(v.inflight)]
            BY <1>1, <2>3 DEF Leads
        <3>2. w.row = s /\ w.box = "up" /\ w.billed /\ w.inflight = Confirmed(t)
            BY <2>1, <3>1 DEF View
        <3> QED
            BY <1>2, <3>2 DEF Began, Sound, Live
    <2> QED
        BY <1>1, <2>1, <2>2, <2>3 DEF Can, Live
<1>4. ASSUME NEW v \in f[2]
      PROVE  Can(p[2], v) /\ \A n \in {1, 4}, w \in View : Leads(p[2], n, v, w) => n = 1 /\ w \in f[3]
    <2>1. v \in View /\ v.row = s /\ v.box = "none"
        BY <1>2, <1>4
    <2>2. ASSUME NEW n \in {1, 4}, NEW w \in View, Leads(p[2], n, v, w)
          PROVE  n = 1 /\ w \in f[3]
        <3>1. n = 1 /\ w = [v EXCEPT !.row = "suspended"]
            BY <1>1, <2>2, Zenon DEF Leads, Acts, Silent
        <3>2. w.row = "suspended" /\ w.box = "none"
            BY <2>1, <3>1 DEF View
        <3> QED
            BY <1>2, <3>1, <3>2
    <2> QED
        BY <1>1, <2>1, <2>2 DEF Can, Live
<1>5. ASSUME NEW v \in f[3]
      PROVE  Can(p[3], v) /\ \A n \in {1, 4}, w \in View : Leads(p[3], n, v, w) => n = 1 /\ w \in f[4]
    <2>1. v \in View /\ v.row = "suspended" /\ v.box = "none"
        BY <1>2, <1>5
    <2>2. ASSUME NEW n \in {1, 4}, NEW w \in View, Leads(p[3], n, v, w)
          PROVE  n = 1 /\ w \in f[4]
        <3>1. n = 1 /\ w = [v EXCEPT !.counted = v.row \in Live]
            BY <1>1, <2>2 DEF Leads, Acts, Silent
        <3>2. (v.row \in Live) = FALSE
            BY <2>1 DEF Live
        <3>3. w.row = "suspended" /\ w.box = "none" /\ w.counted = FALSE
            BY <2>1, <3>1, <3>2 DEF View
        <3> QED
            BY <1>2, <3>1, <3>3
    <2> QED
        BY <1>1, <2>1, <2>2 DEF Can
<1>6. ASSUME NEW v \in f[4]
      PROVE  Can(p[4], v) /\ \A n \in {1, 4}, w \in View : Leads(p[4], n, v, w) => n = 1 /\ w \in f[5]
    BY <1>1, <1>2, <1>6 DEF Can, Leads, Acts, View, Live, Silent, Began, Sound
<1>7. Annotates(f, p)
    <2>1. 1..Len(p) = {1, 2, 3, 4}
        BY <1>1
    <2> QED
        BY <1>1, <1>2, <1>3, <1>4, <1>5, <1>6, <2>1 DEF Annotates
<1> QED
    BY <1>1, <1>2, <1>7 DEF Ensures, p

\* wrapper.start: the instance runs and is counted; or the row says suspended again.
LEMMA Starting ==
    ASSUME NEW s \in Live, NEW t \in Transitions
    PROVE  Ensures(Freed(s, t), StartContainer, Began(t))
<1>. DEFINE p == <<Do("admit"), Do("count"), Do("bill"), Do("launch")>>
            q == <<Do("settle"), Write("suspended"), Do("count"), Do("lateUnbill")>>
            Counted == {v \in Freed(s, t) : v.counted}
            Billed == {v \in Freed(s, t) : v.billed}
            Launched == {v \in Using(s, t) : v.billed}
<1>1. Freed(s, t) \in SUBSET View /\ Counted \in SUBSET View /\ Billed \in SUBSET View
      /\ Launched \in SUBSET View
    BY DEF Freed, Using
<1>2. /\ Do("admit") \in Step /\ Do("count") \in Step /\ Do("bill") \in Step /\ Do("launch") \in Step
      /\ p \in Seq(Step) /\ q \in Seq(Step) /\ StartContainer = p \o q
    BY StepTypes DEF PlainSteps, RowStates, StartContainer
<1>3. Moves(Freed(s, t), Do("admit"), Freed(s, t))
    BY DEF Moves, Can, Acts, Silent, Do, Freed, Live
<1>4. Moves(Freed(s, t), Do("count"), Counted)
    BY DEF Moves, Can, Acts, Silent, Do, Freed, Live, View
<1>5. Moves(Counted, Do("bill"), Billed)
    BY DEF Moves, Can, Acts, Silent, Do, Freed, Live, View
<1>6. Moves(Billed, Do("launch"), Launched)
    BY DEF Moves, Can, Acts, Silent, Do, Freed, Using, Live, View
<1>. HIDE DEF q
<1>7. Ensures(Freed(s, t), p, Launched)
    <2>. HIDE DEF Counted, Billed, Launched
    <2> QED
        BY <1>1, <1>2, <1>3, <1>4, <1>5, <1>6, InOrder
<1>8. Ensures(Launched, q, Began(t))
    BY Settles DEF q
<1>. HIDE DEF p, Launched
<1> QED
    BY <1>2, <1>7, <1>8, Then

\* wrapper.stop: the container is freed, and no longer counted unless billing is skipped.
LEMMA Stopping ==
    ASSUME NEW s \in Live, NEW t \in Transitions
    PROVE  /\ Ensures(Using(s, t), StopContainer, {v \in Freed("suspended", t) : ~v.billed})
           /\ Ensures(Using(s, t), StopContainerSkipBilling, Freed("suspended", t))
<1>. DEFINE W == Using("suspended", t)
            F == Freed("suspended", t)
            C == {v \in F : ~v.counted}
            U == {v \in F : ~v.billed}
<1>1. Using(s, t) \in SUBSET View /\ W \in SUBSET View /\ F \in SUBSET View
      /\ C \in SUBSET View /\ U \in SUBSET View
    BY DEF Freed, Using
<1>2. /\ Do("driverStop") \in Step /\ Do("count") \in Step /\ Do("unbill") \in Step
      /\ Write("suspended") \in Step
    BY StepTypes DEF PlainSteps, RowStates
<1>3. Moves(Using(s, t), Write("suspended"), W)
    <2>. SUFFICES ASSUME NEW v \in Using(s, t)
                  PROVE  /\ Can(Write("suspended"), v) /\ Write("suspended").do # "settle"
                         /\ \A w \in View : Acts(Write("suspended"), v, w) => w \in W
        BY DEF Moves
    <2>1. Write("suspended").do = "write" /\ Write("suspended").arg = "suspended"
        BY DEF Write
    <2>2. v \in View /\ v.row = s /\ v.box = "up" /\ v.inflight = t
        BY DEF Using
    <2>3. ASSUME NEW w \in View, Acts(Write("suspended"), v, w)
          PROVE  w \in W
        <3>1. w = [v EXCEPT !.row = "suspended"]
            BY <2>1, <2>3 DEF Acts, Silent
        <3> QED
            BY <2>2, <3>1 DEF View, Using
    <2> QED
        BY <2>1, <2>2, <2>3 DEF Can, Live
<1>4. Moves(W, Do("driverStop"), F)
    BY DEF Moves, Can, Acts, Silent, Do, Freed, Using, Live, View
<1>5. Moves(F, Do("count"), C)
    BY DEF Moves, Can, Acts, Silent, Do, Freed, Live, View
<1>6. Moves(C, Do("unbill"), U)
    BY DEF Moves, Can, Acts, Silent, Do, Freed, Live, View
<1>. HIDE DEF W, F, C, U
<1>7. Ensures(Using(s, t), StopContainer, U)
    BY <1>1, <1>2, <1>3, <1>4, <1>5, <1>6, InOrder DEF StopContainer
<1>8. Ensures(Using(s, t), StopContainerSkipBilling, F)
    BY <1>1, <1>2, <1>3, <1>4, InOrder DEF StopContainerSkipBilling
<1> QED
    BY <1>7, <1>8 DEF U, F

-----------------------------------------------------------------------------
(* The programs *)

Resting == {"running", "stopped", "suspended"}

\* The row stands at s and agrees with the container and the subscription, during the transition t.
During(s, t) == {v \in Sound : v.row = s /\ v.inflight = t}

At(s) == {v \in Settled : v.row = s}

LEMMA Sets ==
    /\ Sound \subseteq View /\ Settled \subseteq View
    /\ \A s \in Resting : At(s) \subseteq Settled /\ At(s) \subseteq During(s, "none")
    /\ \A s, t : During(s, t) \subseteq Sound /\ Using(s, t) \subseteq View /\ Freed(s, t) \subseteq View
    /\ \A s \in Live : \A t : During(s, t) \subseteq Using(s, t)
    /\ \A t : {v \in Freed("suspended", t) : ~v.billed} = During("suspended", t)
    /\ \A t : Began(t) \subseteq Sound
<1>1. Sound \subseteq View /\ Settled \subseteq View
    BY DEF Sound, Settled
<1>2. \A s \in Resting : At(s) \subseteq Settled /\ At(s) \subseteq During(s, "none")
    BY DEF At, Settled, During, Resting
<1>3. \A s, t : During(s, t) \subseteq Sound /\ Using(s, t) \subseteq View /\ Freed(s, t) \subseteq View
    BY DEF During, Using, Freed
<1>4. \A s \in Live : \A t : During(s, t) \subseteq Using(s, t)
    BY DEF During, Using, Live, Sound, View
<1>5. \A t : {v \in Freed("suspended", t) : ~v.billed} = During("suspended", t)
    BY DEF During, Freed, Sound, Live
<1>6. \A t : Began(t) \subseteq Sound
    BY DEF Began
<1> QED
    BY <1>1, <1>2, <1>3, <1>4, <1>5, <1>6

\* A step that only awaits.
LEMMA Awaits ==
    ASSUME NEW k \in Silent, NEW A \in SUBSET View, \A v \in A : v.row # "gone"
    PROVE  Moves(A, Do(k), A)
BY DEF Moves, Can, Acts, Silent, Do

LEMMA Saves ==
    ASSUME NEW s \in RowStates, NEW A, NEW B,
           \A v \in A : v.row # "gone",
           \A v \in A : [v EXCEPT !.row = s] \in B
    PROVE  Moves(A, Write(s), B)
<1>1. Write(s).do = "write" /\ Write(s).arg = s
    BY DEF Write
<1>2. ASSUME NEW v \in A, NEW w \in View, Acts(Write(s), v, w)
      PROVE  w \in B
    <2>1. w = [v EXCEPT !.row = s]
        BY <1>1, <1>2 DEF Acts, Silent
    <2> QED
        BY <2>1
<1> QED
    BY <1>1, <1>2 DEF Moves, Can

LEMMA Marks ==
    ASSUME NEW t \in Transitions, NEW A, NEW B,
           \A v \in A : v.row # "gone",
           \A v \in A : [v EXCEPT !.inflight = t] \in B
    PROVE  Moves(A, Mark(t), B)
<1>1. Mark(t).do = "mark" /\ Mark(t).arg = t
    BY DEF Mark
<1>2. ASSUME NEW v \in A, NEW w \in View, Acts(Mark(t), v, w)
      PROVE  w \in B
    BY <1>1, <1>2 DEF Acts, Silent
<1> QED
    BY <1>1, <1>2 DEF Moves, Can

LEMMA MarksOver ==
    ASSUME NEW s \in Resting, NEW u, NEW t \in Transitions
    PROVE  Moves(During(s, u), Mark(t), During(s, t))
<1>1. \A v \in During(s, u) : v.row # "gone" /\ [v EXCEPT !.inflight = t] \in During(s, t)
    BY DEF During, Sound, View, Resting, Transitions
<1> QED
    BY <1>1, Marks

LEMMA Clears ==
    /\ Moves(Sound, Clear, Settled)
    /\ \A s \in Resting : \A t : Moves(During(s, t), Clear, At(s))
<1>1. Clear.do = "clear"
    BY DEF Clear, Do
<1>2. \A v \in Sound : Cleared(v) \in Settled /\ Cleared(v).row = v.row /\ v.row # "gone"
    BY DEF Sound, Settled, Cleared, View
<1>3. \A v, w : Acts(Clear, v, w) => w = Cleared(v)
    BY <1>1 DEF Acts, Silent
<1>4. Moves(Sound, Clear, Settled)
    BY <1>1, <1>2, <1>3 DEF Moves, Can
<1>5. \A s \in Resting : \A t : Moves(During(s, t), Clear, At(s))
    BY <1>1, <1>2, <1>3 DEF Moves, Can, During, At
<1> QED
    BY <1>4, <1>5

\* The flows are started, stopped or restarted in a container that is up.
LEMMA Flows ==
    ASSUME NEW s \in Live, NEW t \in Transitions \cup {"none"}
    PROVE  /\ Moves(During(s, t), Do("startFlows"), During(s, t))
           /\ Moves(During(s, t), Do("stopFlows"), During(s, t))
           /\ t \in {"restarting", "none"} => Moves(During(s, t), Do("bounce"), Settled)
<1>1. \A v \in During(s, t) : v.row # "gone" /\ [v EXCEPT !.box = Up(v.box)] \in During(s, t)
    BY DEF During, Sound, View, Live, Up
<1>2. ASSUME NEW k \in {"startFlows", "stopFlows"}
      PROVE  Moves(During(s, t), Do(k), During(s, t))
    <2>1. \A v, w : Acts(Do(k), v, w) => w = [v EXCEPT !.box = Up(v.box)]
        BY DEF Acts, Do, Silent
    <2> QED
        BY <1>1, <2>1 DEF Moves, Can, Do
<1>3. ASSUME t \in {"restarting", "none"}
      PROVE  Moves(During(s, t), Do("bounce"), Settled)
    <2>1. \A v, w : Acts(Do("bounce"), v, w) =>
            w = [v EXCEPT !.box = Up(v.box), !.inflight = Confirmed(v.inflight)]
        BY DEF Acts, Do, Silent
    <2>2. \A v \in During(s, t) :
            [v EXCEPT !.box = Up(v.box), !.inflight = Confirmed(v.inflight)] \in Settled
        BY <1>3 DEF During, Sound, Settled, View, Live, Up, Confirmed
    <2> QED
        BY <1>1, <2>1, <2>2 DEF Moves, Can, Do
<1> QED
    BY <1>2, <1>3

LEMMA SavesOver ==
    ASSUME NEW s \in Live, NEW r \in Live, NEW t
    PROVE  Moves(During(s, t), Write(r), During(r, t))
<1>1. r \in RowStates /\ \A v \in During(s, t) : v.row # "gone"
    BY DEF Live, RowStates, During, Sound
<1>2. \A v \in During(s, t) : [v EXCEPT !.row = r] \in During(r, t)
    BY <1>1 DEF During, Sound, View, Live
<1> QED
    BY <1>1, <1>2, Saves

\* unSuspendProject
LEMMA Resuming ==
    ASSUME NEW s \in Live, NEW t \in Transitions
    PROVE  Ensures(Freed("suspended", t), Resume(s), Settled)
<1>. DEFINE p == <<Write(s), Do("reload")>>
            q == <<Clear>>
            A == Freed("suspended", t)
            B == Freed(s, t)
            C == Began(t)
<1>1. Write(s) \in Step /\ Do("reload") \in Step /\ Clear \in Step
    BY StepTypes DEF Live, RowStates, PlainSteps
<1>2. p \in Seq(Step) /\ q \in Seq(Step) /\ StartContainer \in Seq(Step)
    BY <1>1, StepTypes DEF StartContainer, PlainSteps, RowStates
<1>3. A \in SUBSET View /\ B \in SUBSET View /\ C \in SUBSET View /\ Settled \in SUBSET View
    BY Sets
<1>4. Moves(A, Write(s), B)
    <2>1. s \in RowStates /\ \A v \in A : v.row # "gone"
        BY DEF Live, RowStates, Freed
    <2>2. \A v \in A : [v EXCEPT !.row = s] \in B
        BY <2>1 DEF Freed, View
    <2> QED
        BY <2>1, <2>2, Saves
<1>5. Moves(B, Do("reload"), B)
    BY <1>3, Awaits DEF Silent, Freed, Live
<1>6. Moves(C, Clear, Settled)
    BY Clears, Sets DEF Moves
<1>7. Ensures(B, StartContainer, C)
    BY Starting
<1>. HIDE DEF A, B, C
<1>8. Ensures(A, p, B)
    BY <1>1, <1>3, <1>4, <1>5, InOrder
<1>9. Ensures(C, q, Settled)
    BY <1>1, <1>3, <1>6, OneStep
<1>. HIDE DEF p, q
<1>10. Ensures(A, p \o StartContainer, C) /\ p \o StartContainer \in Seq(Step)
    BY <1>2, <1>7, <1>8, Then
<1>11. Ensures(A, p \o StartContainer \o q, Settled)
    BY <1>2, <1>9, <1>10, Then
<1> QED
    BY <1>11 DEF A, p, q, Resume

LEMMA Joins == \A a, b \in Seq(Step) : a \o b \in Seq(Step)
BY ConcatProperties

LEMMA Then3 ==
    ASSUME NEW A, NEW B, NEW C, NEW D, NEW p \in Seq(Step), NEW q \in Seq(Step), NEW r \in Seq(Step),
           Ensures(A, p, B), Ensures(B, q, C), Ensures(C, r, D)
    PROVE  Ensures(A, p \o q \o r, D)
<1>1. Ensures(A, p \o q, C) /\ p \o q \in Seq(Step)
    BY Then, Joins
<1> QED
    BY <1>1, Then

LEMMA ProgramParts ==
    /\ StartContainer \in Seq(Step) /\ StopContainer \in Seq(Step)
    /\ StopContainerSkipBilling \in Seq(Step)
    /\ \A s \in RowStates : Resume(s) \in Seq(Step)
<1>1. /\ StartContainer \in Seq(Step) /\ StopContainer \in Seq(Step)
      /\ StopContainerSkipBilling \in Seq(Step)
    BY StepTypes DEF StartContainer, StopContainer, StopContainerSkipBilling, PlainSteps, RowStates
<1>2. \A s \in RowStates : <<Write(s), Do("reload")>> \in Seq(Step) /\ <<Clear>> \in Seq(Step)
    BY StepTypes DEF PlainSteps
<1> QED
    BY <1>1, <1>2, Joins DEF Resume

\* A handler shows a transition first.
LEMMA Begins ==
    ASSUME NEW s \in Resting, NEW t \in Transitions
    PROVE  Moves(At(s), Mark(t), During(s, t))
BY MarksOver, Sets DEF Moves

\* The import, the check and the like, in the middle of a handler.
LEMMA AwaitsOver ==
    ASSUME NEW k \in Silent, NEW s \in Resting, NEW t
    PROVE  /\ Moves(During(s, t), Do(k), During(s, t))
           /\ Moves(At(s), Do(k), At(s))
           /\ Moves(Freed(s, t), Do(k), Freed(s, t))
<1>1. \A v \in During(s, t) \cup At(s) \cup Freed(s, t) : v.row # "gone"
    BY DEF During, At, Freed, Resting
<1>2. During(s, t) \in SUBSET View /\ At(s) \in SUBSET View /\ Freed(s, t) \in SUBSET View
    BY Sets
<1> QED
    BY <1>1, <1>2, Awaits

LEMMA SuspendEnsures ==
    ASSUME NEW s \in Live
    PROVE  Ensures(At(s), SuspendProgram(s), At("suspended"))
<1>. DEFINE p == <<Mark("suspending")>>
            r == <<Clear>>
            A == At(s)
            B == During(s, "suspending")
            C == During("suspended", "suspending")
            D == At("suspended")
<1>1. s \in Resting /\ "suspended" \in Resting /\ "suspending" \in Transitions /\ s # "suspended"
    BY DEF Live, Resting, Transitions
<1>2. A \in SUBSET View /\ B \in SUBSET View /\ C \in SUBSET View /\ D \in SUBSET View
    BY <1>1, Sets
<1>3. Moves(A, Mark("suspending"), B) /\ Moves(C, Clear, D)
    BY <1>1, Begins, Clears
<1>4. Ensures(B, StopContainer, C)
    <2>1. Ensures(Using(s, "suspending"), StopContainer, C)
        BY <1>1, Stopping, Sets
    <2> QED
        BY <2>1, Weaken, Sets
<1>5. p \in Seq(Step) /\ r \in Seq(Step) /\ Mark("suspending") \in Step /\ Clear \in Step
    BY <1>1, StepTypes
<1>. HIDE DEF A, B, C, D
<1>6. Ensures(A, p, B) /\ Ensures(C, r, D)
    BY <1>2, <1>3, <1>5, OneStep
<1>. HIDE DEF p, r
<1>7. Ensures(A, p \o StopContainer \o r, D)
    BY <1>4, <1>5, <1>6, Then3, ProgramParts
<1> QED
    BY <1>1, <1>7 DEF SuspendProgram, A, D, p, r

\* A row that says running before its container is started.
LEMMA SavesRunning ==
    /\ Moves(At("suspended"), Write("running"), Freed("running", "none"))
    /\ Moves(Freed("running", "none"), Mark("starting"), Freed("running", "starting"))
<1>1. /\ \A v \in At("suspended") :
            [v EXCEPT !.row = "running"] \in Freed("running", "none")
      /\ \A v \in At("suspended") \cup Freed("running", "none") : v.row # "gone"
    BY DEF At, Settled, Sound, Freed, View, RowStates
<1>2. \A v \in Freed("running", "none") :
            [v EXCEPT !.inflight = "starting"] \in Freed("running", "starting")
    BY DEF Freed, View, Transitions
<1>3. "running" \in RowStates /\ "starting" \in Transitions
    BY DEF RowStates, Transitions
<1> QED
    BY <1>1, <1>2, <1>3, Saves, Marks

LEMMA StartEnsures ==
    ASSUME NEW s \in Resting
    PROVE  Ensures(At(s), StartProgram(s), Settled)
<1>1. CASE s = "suspended"
    <2>. DEFINE p == <<Do("check"), Write("running"), Mark("starting")>>
                r == <<Do("clearIfSuspended")>>
                A == At("suspended")
                B == Freed("running", "none")
                C == Freed("running", "starting")
                D == Began("starting")
    <2>1. "suspended" \in Resting /\ "running" \in Live /\ "starting" \in Transitions /\ "check" \in Silent
        BY DEF Live, Resting, Transitions, Silent
    <2>2. A \in SUBSET View /\ B \in SUBSET View /\ C \in SUBSET View /\ D \in SUBSET View
          /\ Settled \in SUBSET View
        BY <2>1, Sets
    <2>3. Moves(A, Do("check"), A) /\ Moves(A, Write("running"), B) /\ Moves(B, Mark("starting"), C)
        BY <2>1, AwaitsOver, SavesRunning
    <2>4. Ensures(C, StartContainer, D)
        BY <2>1, Starting
    <2>5. Moves(D, Do("clearIfSuspended"), Settled)
        <3>1. \A v, w : Acts(Do("clearIfSuspended"), v, w) =>
                w = IF v.row = "suspended" THEN Cleared(v) ELSE v
            BY DEF Acts, Do, Silent
        <3>2. \A v \in D : v.row # "gone" /\ (v.row = "suspended" => Cleared(v) \in Settled)
            BY DEF Began, Sound, Cleared, Settled, View
        <3>3. \A v \in D : v.row # "suspended" => v \in Settled
            BY DEF Began, Settled, Confirmed
        <3> QED
            BY <3>1, <3>2, <3>3 DEF Moves, Can, Do
    <2>6. /\ p \in Seq(Step) /\ r \in Seq(Step) /\ Do("check") \in Step /\ Write("running") \in Step
          /\ Mark("starting") \in Step /\ Do("clearIfSuspended") \in Step
        BY <2>1, StepTypes DEF PlainSteps, RowStates
    <2>. HIDE DEF A, B, C, D
    <2>7. Ensures(A, p, C) /\ Ensures(D, r, Settled)
        <3>1. Ensures(A, p, C)
            BY <2>2, <2>3, <2>6, InOrder
        <3> QED
            BY <3>1, <2>2, <2>5, <2>6, OneStep
    <2>. HIDE DEF p, r
    <2>8. Ensures(A, p \o StartContainer \o r, Settled)
        BY <2>4, <2>6, <2>7, Then3, ProgramParts
    <2> QED
        BY <1>1, <2>8 DEF StartProgram, A, p, r
<1>2. CASE s # "suspended"
    <2>. DEFINE B == During(s, "starting")
                C == During("running", "starting")
                A == At(s)
                D == At("running")
    <2>1. s \in Live /\ "running" \in Live /\ "running" \in Resting /\ "starting" \in Transitions
        BY <1>2 DEF Live, Resting, Transitions
    <2>2. A \in SUBSET View /\ B \in SUBSET View /\ C \in SUBSET View /\ D \in SUBSET View
        BY <2>1, Sets
    <2>3. /\ Moves(A, Mark("starting"), B) /\ Moves(B, Write("running"), C)
          /\ Moves(C, Do("startFlows"), C) /\ Moves(C, Clear, D)
        BY <2>1, Begins, SavesOver, Flows, Clears
    <2>4. /\ Mark("starting") \in Step /\ Write("running") \in Step
          /\ Do("startFlows") \in Step /\ Clear \in Step
        BY <2>1, StepTypes DEF PlainSteps, RowStates
    <2>5. D \subseteq Settled
        BY <2>1, Sets
    <2>. HIDE DEF A, B, C, D
    <2>6. Ensures(A, <<Mark("starting"), Write("running"), Do("startFlows"), Clear>>, D)
        BY <2>2, <2>3, <2>4, InOrder
    <2>7. Ensures(A, StartProgram(s), D)
        BY <1>2, <2>6 DEF StartProgram
    <2> QED
        BY <2>5, <2>7, Weaken DEF A
<1> QED
    BY <1>1, <1>2

LEMMA StopEnsures ==
    ASSUME NEW s \in Resting
    PROVE  Ensures(At(s), StopProgram(s), Settled)
<1>1. CASE s = "suspended"
    BY <1>1, NothingToDo, Sets DEF StopProgram, Resting
<1>2. CASE s # "suspended"
    <2>. DEFINE B == During(s, "stopping")
                C == During("stopped", "stopping")
                A == At(s)
                D == At("stopped")
    <2>1. s \in Live /\ "stopped" \in Live /\ "stopped" \in Resting /\ "stopping" \in Transitions
        BY <1>2 DEF Live, Resting, Transitions
    <2>2. A \in SUBSET View /\ B \in SUBSET View /\ C \in SUBSET View /\ D \in SUBSET View
        BY <2>1, Sets
    <2>3. /\ Moves(A, Mark("stopping"), B) /\ Moves(B, Write("stopped"), C)
          /\ Moves(C, Do("stopFlows"), C) /\ Moves(C, Clear, D)
        BY <2>1, Begins, SavesOver, Flows, Clears
    <2>4. /\ Mark("stopping") \in Step /\ Write("stopped") \in Step
          /\ Do("stopFlows") \in Step /\ Clear \in Step
        BY <2>1, StepTypes DEF PlainSteps, RowStates
    <2>5. D \subseteq Settled
        BY <2>1, Sets
    <2>. HIDE DEF A, B, C, D
    <2>6. Ensures(A, <<Mark("stopping"), Write("stopped"), Do("stopFlows"), Clear>>, D)
        BY <2>2, <2>3, <2>4, InOrder
    <2>7. Ensures(A, StopProgram(s), D)
        BY <1>2, <2>6 DEF StopProgram
    <2> QED
        BY <2>5, <2>7, Weaken DEF A
<1> QED
    BY <1>1, <1>2

\* The two ways in which handlers restart the flows of an instance that is not suspended.
LEMMA Restarting ==
    ASSUME NEW s \in Live
    PROVE  /\ Ensures(At(s), <<Mark("restarting"), Write("running"), Do("restartFlows"),
                               Do("bounce")>>, Settled)
           /\ Ensures(At(s), <<Mark("restarting"), Write("running"), Do("restartFlows"), Clear,
                               Do("bounce")>>, Settled)
<1>. DEFINE A == At(s)
            B == During(s, "restarting")
            C == During("running", "restarting")
            D == At("running")
            E == During("running", "none")
<1>1. s \in Resting /\ "running" \in Live /\ "running" \in Resting /\ "restarting" \in Transitions
      /\ "restartFlows" \in Silent
    BY DEF Live, Resting, Transitions, Silent
<1>2. A \in SUBSET View /\ B \in SUBSET View /\ C \in SUBSET View /\ D \in SUBSET View
      /\ Settled \in SUBSET View
    BY <1>1, Sets
<1>3. /\ Moves(A, Mark("restarting"), B) /\ Moves(B, Write("running"), C)
      /\ Moves(C, Do("restartFlows"), C) /\ Moves(C, Clear, D)
    BY <1>1, Begins, SavesOver, AwaitsOver, Clears
<1>4. Moves(C, Do("bounce"), Settled) /\ Moves(D, Do("bounce"), Settled)
    <2>1. Moves(C, Do("bounce"), Settled) /\ Moves(E, Do("bounce"), Settled)
        BY <1>1, Flows
    <2> QED
        BY <1>1, <2>1, Sets DEF Moves
<1>5. /\ Mark("restarting") \in Step /\ Write("running") \in Step /\ Do("restartFlows") \in Step
      /\ Clear \in Step /\ Do("bounce") \in Step
    BY <1>1, StepTypes DEF PlainSteps, RowStates
<1>. HIDE DEF A, B, C, D
<1>6. Ensures(A, <<Mark("restarting"), Write("running"), Do("restartFlows"), Do("bounce")>>, Settled)
    BY <1>2, <1>3, <1>4, <1>5, InOrder
<1>7. Ensures(A, <<Mark("restarting"), Write("running"), Do("restartFlows"), Clear, Do("bounce")>>,
              Settled)
    BY <1>2, <1>3, <1>4, <1>5, InOrder
<1> QED
    BY <1>6, <1>7 DEF A

LEMMA RestartEnsures ==
    ASSUME NEW s \in Resting
    PROVE  /\ Ensures(At(s), RestartProgram(s), Settled)
           /\ Ensures(At(s), ScheduledRestartProgram(s), Settled)
<1>1. CASE s = "suspended"
    BY <1>1, NothingToDo, Sets DEF RestartProgram, ScheduledRestartProgram, Resting
<1>2. CASE s # "suspended"
    BY <1>2, Restarting DEF RestartProgram, ScheduledRestartProgram, Resting, Live
<1> QED
    BY <1>1, <1>2

LEMMA ImportEnsures ==
    ASSUME NEW s \in Resting
    PROVE  Ensures(At(s), ImportProgram(s), Settled)
<1>. DEFINE p == <<Do("import")>>
            A == At(s)
            q == <<Mark("restarting"), Write("running"), Do("restartFlows"), Clear, Do("bounce")>>
<1>1. A \in SUBSET View /\ Moves(A, Do("import"), A) /\ Do("import") \in Step /\ p \in Seq(Step)
    BY Sets, AwaitsOver, StepTypes DEF Silent, PlainSteps
<1>2. q \in Seq(Step)
    BY StepTypes DEF PlainSteps, RowStates, Transitions
<1>3. Ensures(A, p, A)
    <2>. HIDE DEF A
    <2> QED
        BY <1>1, OneStep
<1>4. CASE s = "running"
    <2>1. Ensures(A, q, Settled)
        BY <1>4, Restarting DEF Live
    <2>. HIDE DEF A, p, q
    <2>2. Ensures(A, p \o q, Settled)
        BY <1>1, <1>2, <1>3, <2>1, Then
    <2> QED
        BY <1>4, <2>2 DEF ImportProgram, A, p, q
<1>5. CASE s # "running"
    <2>. DEFINE e == <<>>
    <2>1. Ensures(A, e, Settled) /\ e \in Seq(Step)
        BY NothingToDo, Sets
    <2>. HIDE DEF A, p, e
    <2>2. Ensures(A, p \o e, Settled)
        BY <1>1, <1>3, <2>1, Then
    <2> QED
        BY <1>5, <2>2 DEF ImportProgram, A, p, e
<1> QED
    BY <1>4, <1>5

LEMMA RollbackEnsures ==
    ASSUME NEW s \in Resting
    PROVE  Ensures(At(s), RollbackProgram(s), Settled)
<1>. DEFINE p == <<Mark("rollback"), Do("import")>>
            q == <<Mark("restarting"), Do("restartFlows"), Do("bounce")>>
            r == <<Clear>>
            A == At(s)
            B == During(s, "rollback")
            C == During("running", "restarting")
            D == At(s)
<1>1. "rollback" \in Transitions /\ "restarting" \in Transitions /\ "import" \in Silent
      /\ "restartFlows" \in Silent /\ "running" \in Live /\ "running" \in Resting
    BY DEF Transitions, Silent, Live, Resting
<1>2. A \in SUBSET View /\ B \in SUBSET View /\ C \in SUBSET View /\ D \in SUBSET View
      /\ Settled \in SUBSET View /\ D \subseteq Settled
    BY Sets
<1>3. /\ Mark("rollback") \in Step /\ Mark("restarting") \in Step /\ Do("restartFlows") \in Step
      /\ Clear \in Step /\ Do("bounce") \in Step /\ Do("import") \in Step
      /\ p \in Seq(Step) /\ q \in Seq(Step) /\ r \in Seq(Step)
    BY <1>1, StepTypes DEF PlainSteps
<1>4. Moves(A, Mark("rollback"), B) /\ Moves(B, Do("import"), B) /\ Moves(B, Clear, D)
    BY <1>1, Begins, AwaitsOver, Clears
<1>5. Moves(C, Do("restartFlows"), C) /\ Moves(C, Do("bounce"), Settled)
    BY <1>1, AwaitsOver, Flows
<1>6. s = "running" => Moves(B, Mark("restarting"), C)
    BY <1>1, MarksOver
<1>. HIDE DEF A, B, C, D
<1>7. Ensures(A, p, B)
    BY <1>2, <1>3, <1>4, InOrder
<1>8. Ensures(B, r, D)
    BY <1>2, <1>3, <1>4, OneStep
<1>9. s = "running" => Ensures(B, q, Settled)
    BY <1>2, <1>3, <1>5, <1>6, InOrder
<1>. HIDE DEF p, q, r
<1>10. Ensures(A, p \o r, Settled) /\ (s = "running" => Ensures(A, p \o q, Settled))
    <2>1. Ensures(B, r, Settled)
        BY <1>2, <1>8, Weaken
    <2> QED
        BY <1>3, <1>7, <1>9, <2>1, Then
<1> QED
    BY <1>10 DEF RollbackProgram, A, p, q, r

LEMMA DeployEnsures ==
    ASSUME NEW s \in Resting
    PROVE  Ensures(At(s), DeployProgram(s), Settled)
<1>. DEFINE p == <<Mark("importing"), Do("flagDeploy"), Do("import")>>
            q == <<Do("reload"), Do("restartFlows"), Clear, Do("bounce")>>
            r == <<Clear>>
            A == At(s)
            B == During(s, "importing")
            D == At(s)
            E == During(s, "none")
<1>1. "importing" \in Transitions /\ "import" \in Silent /\ "flagDeploy" \in Silent
      /\ "restartFlows" \in Silent /\ "reload" \in Silent /\ "running" \in Live
    BY DEF Transitions, Silent, Live
<1>2. A \in SUBSET View /\ B \in SUBSET View /\ D \in SUBSET View
      /\ Settled \in SUBSET View /\ D \subseteq Settled
    BY Sets
<1>3. /\ Mark("importing") \in Step /\ Do("flagDeploy") \in Step /\ Do("restartFlows") \in Step
      /\ Clear \in Step /\ Do("bounce") \in Step /\ Do("import") \in Step /\ Do("reload") \in Step
      /\ p \in Seq(Step) /\ q \in Seq(Step) /\ r \in Seq(Step)
    BY <1>1, StepTypes DEF PlainSteps
<1>4. /\ Moves(A, Mark("importing"), B) /\ Moves(B, Do("flagDeploy"), B)
      /\ Moves(B, Do("import"), B) /\ Moves(B, Clear, D)
      /\ Moves(B, Do("reload"), B) /\ Moves(B, Do("restartFlows"), B)
    BY <1>1, Begins, AwaitsOver, Clears
<1>5. s = "running" => Moves(D, Do("bounce"), Settled)
    <2>1. s = "running" => Moves(E, Do("bounce"), Settled)
        BY <1>1, Flows
    <2> QED
        BY <2>1, Sets DEF Moves
<1>. HIDE DEF A, B, D
<1>6. Ensures(A, p, B)
    BY <1>2, <1>3, <1>4, InOrder
<1>7. Ensures(B, r, D)
    BY <1>2, <1>3, <1>4, OneStep
<1>8. s = "running" => Ensures(B, q, Settled)
    BY <1>2, <1>3, <1>4, <1>5, InOrder
<1>. HIDE DEF p, q, r
<1>9. Ensures(A, p \o r, Settled) /\ (s = "running" => Ensures(A, p \o q, Settled))
    <2>1. Ensures(B, r, Settled)
        BY <1>2, <1>7, Weaken
    <2> QED
        BY <1>3, <1>6, <1>8, <2>1, Then
<1> QED
    BY <1>9 DEF DeployProgram, A, p, q, r

LEMMA RestartStackEnsures ==
    ASSUME NEW s \in Resting
    PROVE  Ensures(At(s), RestartStackProgram(s), Settled)
<1>. DEFINE p == IF s = "suspended" THEN <<>>
                 ELSE <<Mark("suspending")>> \o StopContainer \o <<Clear>>
            q == <<Write("running"), Mark("starting")>>
            r == <<Clear>>
            A == At("suspended")
            B == Freed("running", "none")
            C == Freed("running", "starting")
            D == Began("starting")
<1>1. "suspended" \in Resting /\ "running" \in Live /\ "starting" \in Transitions
      /\ "suspending" \in Transitions
    BY DEF Live, Resting, Transitions
<1>2. /\ Write("running") \in Step /\ Mark("starting") \in Step /\ Clear \in Step
      /\ Mark("suspending") \in Step
    BY <1>1, StepTypes DEF RowStates
<1>3. p \in Seq(Step) /\ q \in Seq(Step) /\ r \in Seq(Step)
    <2>1. <<Mark("suspending")>> \in Seq(Step) /\ <<Clear>> \in Seq(Step) /\ <<>> \in Seq(Step)
          /\ q \in Seq(Step) /\ r \in Seq(Step)
        BY <1>2
    <2> QED
        BY <2>1, ProgramParts, Joins
<1>4. A \in SUBSET View /\ B \in SUBSET View /\ C \in SUBSET View /\ D \in SUBSET View
      /\ Settled \in SUBSET View
    BY <1>1, Sets
<1>5. Ensures(At(s), p, A)
    <2>1. CASE s = "suspended"
        BY <1>4, <2>1, NothingToDo
    <2>2. CASE s # "suspended"
        BY <2>2, SuspendEnsures DEF SuspendProgram, Resting, Live
    <2> QED
        BY <2>1, <2>2
<1>6. Moves(A, Write("running"), B) /\ Moves(B, Mark("starting"), C)
    BY SavesRunning
<1>7. Moves(D, Clear, Settled)
    BY Clears, Sets DEF Moves
<1>8. Ensures(C, StartContainer, D)
    BY <1>1, Starting
<1>. HIDE DEF A, B, C, D
<1>9. Ensures(A, q, C)
    BY <1>2, <1>4, <1>6, InOrder
<1>10. Ensures(D, r, Settled)
    BY <1>2, <1>4, <1>7, OneStep
<1>. HIDE DEF p, q, r
<1>11. Ensures(At(s), p \o q, C) /\ p \o q \in Seq(Step)
    BY <1>3, <1>5, <1>9, Then, Joins
<1>12. Ensures(At(s), (p \o q) \o StartContainer \o r, Settled)
    <2>. DEFINE pq == p \o q
    <2>. HIDE DEF pq
    <2>1. Ensures(At(s), pq, C) /\ pq \in Seq(Step)
        BY <1>11 DEF pq
    <2>2. Ensures(At(s), pq \o StartContainer \o r, Settled)
        BY <1>3, <1>8, <1>10, <2>1, Then3, ProgramParts
    <2> QED
        BY <2>2 DEF pq
<1> QED
    BY <1>12 DEF RestartStackProgram, p, q, r

\* The container is stopped under a transition.
LEMMA Freeing ==
    ASSUME NEW s \in Live, NEW t \in Transitions,
           NEW stop \in {StopContainer, StopContainerSkipBilling}
    PROVE  Ensures(During(s, t), stop, Freed("suspended", t))
<1>. DEFINE A == During(s, t)
            B == Freed("suspended", t)
<1>1. A \subseteq Using(s, t) /\ {v \in B : ~v.billed} \subseteq B
    BY Sets
<1>2. CASE stop = StopContainer
    <2>1. Ensures(Using(s, t), stop, {v \in B : ~v.billed})
        BY <1>2, Stopping
    <2>. HIDE DEF A, B
    <2>2. Ensures(A, stop, B)
        BY <1>1, <2>1, Weaken
    <2> QED
        BY <2>2 DEF A, B
<1>3. CASE stop = StopContainerSkipBilling
    <2>1. Ensures(Using(s, t), stop, B)
        BY <1>3, Stopping
    <2>. HIDE DEF A, B
    <2>2. Ensures(A, stop, B)
        BY <1>1, <2>1, Weaken
    <2> QED
        BY <2>2 DEF A, B
<1> QED
    BY <1>2, <1>3

\* A change of name, type, stack, or of high availability.
LEMMA UpdateEnsures ==
    ASSUME NEW s \in Resting, NEW stop \in {StopContainer, StopContainerSkipBilling}
    PROVE  /\ Ensures(At(s), UpdateProgram(s, stop), Settled)
           /\ Ensures(At(s), HAProgram(s), Settled)
           /\ Ensures(At(s), UpgradeStackProgram(s), Settled)
<1>. DEFINE m == <<Mark("starting")>>
            i == <<Do("import")>>
            z == Resume(s)
            x == StopContainerSkipBilling
            A == At(s)
            B == During(s, "starting")
            C == Freed("suspended", "starting")
<1>1. "starting" \in Transitions /\ "import" \in Silent /\ (s # "suspended" => s \in Live)
      /\ s \in RowStates /\ "suspended" \in Resting
    BY DEF Transitions, Silent, Resting, Live, RowStates
<1>2. A \in SUBSET View /\ B \in SUBSET View /\ C \in SUBSET View /\ A \subseteq Settled
    BY Sets
<1>3. /\ Moves(A, Mark("starting"), B) /\ Moves(B, Do("import"), B) /\ Moves(B, Clear, A)
      /\ Moves(C, Do("import"), C)
    BY <1>1, Begins, AwaitsOver, Clears
<1>4. Mark("starting") \in Step /\ Do("import") \in Step /\ Clear \in Step
    BY <1>1, StepTypes DEF PlainSteps
<1>5. CASE s = "suspended"
    <2>. HIDE DEF A, B
    <2>1. Ensures(A, <<Mark("starting"), Do("import"), Clear>>, A)
        BY <1>2, <1>3, <1>4, InOrder
    <2>2. Ensures(A, <<Mark("starting"), Do("import"), Clear>>, Settled) /\ Ensures(A, <<>>, Settled)
        BY <1>2, <2>1, Weaken, NothingToDo
    <2> QED
        BY <1>5, <2>2 DEF UpdateProgram, HAProgram, UpgradeStackProgram, A
<1>6. CASE s # "suspended"
    <2>1. m \in Seq(Step) /\ i \in Seq(Step) /\ z \in Seq(Step) /\ stop \in Seq(Step)
          /\ x \in Seq(Step)
        BY <1>1, <1>4, ProgramParts
    <2>2. Ensures(B, stop, C) /\ Ensures(B, x, C) /\ Ensures(C, z, Settled)
        BY <1>1, <1>6, Freeing, Resuming
    <2>. HIDE DEF A, B, C, x, z
    <2>3. Ensures(A, m, B) /\ Ensures(C, i, C)
        BY <1>2, <1>3, <1>4, OneStep
    <2>. HIDE DEF m, i
    <2>4. ASSUME NEW y \in {stop, x}
          PROVE  /\ Ensures(A, m \o y \o z, Settled)
                 /\ Ensures(A, m \o y \o i \o z, Settled)
        <3>. DEFINE my == m \o y
        <3>1. Ensures(A, my, C) /\ my \in Seq(Step)
            BY <2>1, <2>2, <2>3, Then, Joins
        <3>. HIDE DEF my
        <3>2. Ensures(A, my \o z, Settled) /\ Ensures(A, my \o i \o z, Settled)
            BY <2>1, <2>2, <2>3, <3>1, Then, Then3
        <3> QED
            BY <3>2 DEF my
    <2> QED
        BY <1>6, <2>4 DEF UpdateProgram, HAProgram, UpgradeStackProgram, A, m, i, x, z
<1> QED
    BY <1>5, <1>6

LEMMA ExportEnsures ==
    ASSUME NEW s \in Resting
    PROVE  Ensures(At(s), ExportProgram(s), Settled)
<1>. DEFINE m == <<Mark("importing"), Do("flagDeploy")>>
            i == <<Do("import")>>
            c == <<Do("import"), Clear>>
            z == Resume(s)
            x == StopContainer
            A == At(s)
            B == During(s, "importing")
            C == Freed("suspended", "importing")
<1>1. "importing" \in Transitions /\ "import" \in Silent /\ (s # "suspended" => s \in Live)
      /\ s \in RowStates /\ "suspended" \in Resting /\ "flagDeploy" \in Silent
    BY DEF Transitions, Silent, Resting, Live, RowStates
<1>2. A \in SUBSET View /\ B \in SUBSET View /\ C \in SUBSET View /\ A \subseteq Settled
    BY Sets
<1>3. /\ Moves(A, Mark("importing"), B) /\ Moves(B, Do("flagDeploy"), B)
      /\ Moves(B, Do("import"), B) /\ Moves(B, Clear, A) /\ Moves(C, Do("import"), C)
    BY <1>1, Begins, AwaitsOver, Clears
<1>4. /\ Mark("importing") \in Step /\ Do("import") \in Step /\ Clear \in Step
      /\ Do("flagDeploy") \in Step
    BY <1>1, StepTypes DEF PlainSteps
<1>5. m \in Seq(Step) /\ i \in Seq(Step) /\ z \in Seq(Step) /\ c \in Seq(Step) /\ x \in Seq(Step)
    BY <1>1, <1>4, ProgramParts
<1>6. s # "suspended" => Ensures(B, x, C) /\ Ensures(C, z, Settled)
    BY <1>1, Freeing, Resuming
<1>. HIDE DEF A, B, C, x, z
<1>7. Ensures(A, m, B) /\ Ensures(B, c, A)
    BY <1>2, <1>3, <1>4, InOrder
<1>8. Ensures(C, i, C)
    BY <1>2, <1>3, <1>4, OneStep
<1>. HIDE DEF m, i, c
<1>9. Ensures(A, m \o c, Settled)
    <2>1. Ensures(B, c, Settled)
        BY <1>2, <1>7, Weaken
    <2> QED
        BY <1>5, <1>7, <2>1, Then
<1>10. ASSUME s # "suspended"
       PROVE  Ensures(A, m \o (x \o i \o z), Settled)
    <2>. DEFINE y == x \o i \o z
    <2>1. Ensures(B, y, Settled)
        BY <1>5, <1>6, <1>8, <1>10, Then3
    <2>2. y \in Seq(Step)
        BY <1>5, Joins
    <2>. HIDE DEF y
    <2>3. Ensures(A, m \o y, Settled)
        BY <1>5, <1>7, <2>1, <2>2, Then
    <2> QED
        BY <2>3 DEF y
<1> QED
    BY <1>9, <1>10 DEF ExportProgram, A, m, i, c, x, z

LEMMA DeleteEnsures ==
    ASSUME NEW s \in Resting
    PROVE  Ensures(At(s), DeleteProgram(s), Settled)
<1>. DEFINE d == <<Do("driverRemove")>>
            m == <<Write("deleting"), Do("count"), Do("unbill")>>
            n == <<>>
            e == <<Do("destroy")>>
            A == At(s)
            R == {v \in View : v.row = s /\ v.box = "none" /\ (s = "suspended" => ~v.billed)}
            W == {v \in View : v.row = "deleting" /\ v.box = "none"}
            N == {v \in W : ~v.counted}
            U == {v \in View : v.row # "gone" /\ v.box = "none" /\ ~v.billed}
<1>1. A \in SUBSET View /\ R \in SUBSET View /\ W \in SUBSET View /\ N \in SUBSET View
      /\ U \in SUBSET View /\ Settled \in SUBSET View
    BY Sets
<1>2. /\ Do("driverRemove") \in Step /\ Write("deleting") \in Step /\ Do("count") \in Step
      /\ Do("unbill") \in Step /\ Do("destroy") \in Step
    BY StepTypes DEF PlainSteps, RowStates
<1>3. d \in Seq(Step) /\ m \in Seq(Step) /\ n \in Seq(Step) /\ e \in Seq(Step)
    BY <1>2
<1>4. Moves(A, Do("driverRemove"), R)
    <2>1. \A v, w : Acts(Do("driverRemove"), v, w) => w = [v EXCEPT !.box = "none"]
        BY DEF Acts, Do, Silent
    <2>2. \A v \in A : v.row # "gone" /\ [v EXCEPT !.box = "none"] \in R
        BY DEF At, Settled, Sound, View, Resting, Live
    <2> QED
        BY <2>1, <2>2 DEF Moves, Can, Do
<1>5. Moves(R, Write("deleting"), W)
    <2>1. \A v \in R : [v EXCEPT !.row = "deleting"] \in W
        BY DEF View, RowStates
    <2>2. \A v \in R : v.row # "gone"
        BY DEF Resting
    <2> QED
        BY <2>1, <2>2, Saves DEF RowStates
<1>6. Moves(W, Do("count"), N)
    BY DEF Moves, Can, Acts, Silent, Do, Live, View
<1>7. Moves(N, Do("unbill"), U)
    BY DEF Moves, Can, Acts, Silent, Do, Live, View
<1>8. Moves(U, Do("destroy"), Settled)
    <2>1. \A v, w : Acts(Do("destroy"), v, w) =>
                w = [v EXCEPT !.row = "gone"]
        BY DEF Acts, Do, Silent
    <2>2. \A v \in U : [v EXCEPT !.row = "gone"] \in Settled
        BY DEF Settled, View
    <2>3. \A v \in U : v.row # "gone"
        OBVIOUS
    <2>4. ASSUME NEW v \in U, NEW w \in View, Acts(Do("destroy"), v, w)
          PROVE  w \in Settled
        <3>1. w = [v EXCEPT !.row = "gone"]
            BY <2>1, <2>4
        <3> QED
            BY <2>2, <3>1
    <2>5. Do("destroy").do = "destroy"
        BY DEF Do
    <2>. HIDE DEF U
    <2> QED
        BY <2>3, <2>4, <2>5 DEF Moves, Can
<1>9. s = "suspended" => R \subseteq U
    OBVIOUS
<1>. HIDE DEF A, R, W, N, U
<1>10. Ensures(A, d, R) /\ Ensures(U, e, Settled)
    BY <1>1, <1>2, <1>4, <1>8, OneStep
<1>11. Ensures(R, m, U)
    BY <1>1, <1>2, <1>5, <1>6, <1>7, InOrder
<1>12. s = "suspended" => Ensures(R, n, U)
    BY <1>1, <1>9, NothingToDo
<1>. HIDE DEF d, m, n, e
<1>13. Ensures(A, d \o m \o e, Settled)
    BY <1>3, <1>10, <1>11, Then3
<1>14. s = "suspended" => Ensures(A, d \o n \o e, Settled)
    BY <1>3, <1>10, <1>12, Then3
<1> QED
    BY <1>13, <1>14 DEF DeleteProgram, A, d, m, n, e

LEMMA ReportEnsures ==
    ASSUME NEW s \in Resting
    PROVE  Ensures(At(s), <<Do("report")>>, Settled)
<1>1. \A v, w : Acts(Do("report"), v, w) => \E t \in {v.inflight, "none"} :
                                w = [v EXCEPT !.inflight = t]
    BY DEF Acts, Do, Silent
<1>2. \A v \in At(s) : /\ v.row # "gone" /\ v.inflight = "none"
                       /\ [v EXCEPT !.inflight = "none"] \in Settled
    BY DEF At, Settled, Sound, View, Resting
<1>3. Moves(At(s), Do("report"), Settled)
    <2>1. ASSUME NEW v \in At(s), NEW w \in View, Acts(Do("report"), v, w)
          PROVE  w \in Settled
        <3>1. PICK t \in {v.inflight, "none"} : w = [v EXCEPT !.inflight = t]
            BY <1>1, <2>1
        <3>2. t = "none"
            BY <1>2, <3>1
        <3> QED
            BY <1>2, <3>1, <3>2
    <2>2. Do("report").do = "report"
        BY DEF Do
    <2> QED
        BY <1>2, <2>1, <2>2 DEF Moves, Can
<1> QED
    BY <1>3, OneStep, Sets, StepTypes DEF PlainSteps

\* Every operation, begun on a settled instance, leaves it settled.
LEMMA ProgramEnsures ==
    ASSUME Settling, NEW o \in Ops, NEW s \in Resting
    PROVE  Ensures(At(s), Program(o, s), Settled)
<1>1. o \in OpNames /\ o \notin {"customHostname", "licenseSuspend", "billingDeleted", "liveState"}
    BY OpsAssumption DEF Settling
<1>2. CASE o \in {"start", "stop", "restart", "suspend"}
    <2>1. Ensures(At(s), SuspendProgram(s), Settled)
        <3>1. CASE s = "suspended"
            BY <3>1, NothingToDo, Sets DEF SuspendProgram
        <3>2. CASE s # "suspended"
            <4>1. Ensures(At(s), SuspendProgram(s), At("suspended"))
                BY <3>2, SuspendEnsures DEF Resting, Live
            <4> QED
                BY <4>1, Weaken, Sets DEF Resting
        <3> QED
            BY <3>1, <3>2
    <2> QED
        BY <1>2, <2>1, StartEnsures, StopEnsures, RestartEnsures DEF Program
<1>3. CASE o \in {"rollback", "restartStack", "deploy", "import"}
    BY <1>3, RollbackEnsures, RestartStackEnsures, DeployEnsures, ImportEnsures DEF Program
<1>4. CASE o \in {"update", "updateStack", "ha", "upgradeStack"}
    BY <1>4, UpdateEnsures DEF Program
<1>5. CASE o \in {"export", "delete", "scheduledRestart", "updateState"}
    BY <1>5, ExportEnsures, DeleteEnsures, RestartEnsures, ReportEnsures DEF Program
<1> QED
    BY <1>1, <1>2, <1>3, <1>4, <1>5 DEF OpNames

-----------------------------------------------------------------------------
(* The handlers run their programs *)

\* The view the handler of slot r has of the shared state.
ViewOf(r) ==
    [row |-> row, box |-> IF box \in {"none", "suspended"} THEN box ELSE "up", billed |-> billed,
     counted |-> counted[r], inflight |-> inflight]

LEMMA ViewType ==
    ASSUME NEW r \in Req
    PROVE  (TypeOK => ViewOf(r) \in View) /\ (TypeOK' => ViewOf(r)' \in View)
BY DEF ViewOf, View, TypeOK, BoxStates

\* A view is told by its fields.
LEMMA Fields ==
    ASSUME NEW v \in View, NEW w \in View,
           w.box = v.box, w.billed = v.billed, w.counted = v.counted
    PROVE  /\ w.row = v.row => w = [v EXCEPT !.inflight = w.inflight]
           /\ w.inflight = v.inflight => w = [v EXCEPT !.row = w.row]
BY DEF View

\* The handler of r is about to take a step of a program that can not fail.
Ready(r) ==
    /\ TypeOK /\ subscribed /\ copy[r] = row
    /\ todo[r] # <<>> /\ Can(todo[r][1], ViewOf(r))

\* The step leads where the logic says, and the handler's copy follows the row.
Goes(r) ==
    /\ subscribed' /\ (row' # "gone" => copy'[r] = row')
    /\ \E n \in {1, 4} : /\ Leads(todo[r][1], n, ViewOf(r), ViewOf(r)')
                         /\ todo'[r] = Rest(todo[r], n)

LEMMA Proceeds ==
    ASSUME TypeOK, NEW r \in Req, Proceed(r)
    PROVE  todo'[r] = Rest(todo[r], 1)
BY DEF TypeOK, Proceed

LEMMA CacheSteps ==
    ASSUME NEW r \in Req, Ready(r), TypeOK',
           SetInflightState(r) \/ ClearInflightState(r) \/ ClearIfSuspended(r) \/ SetInDeploy(r)
    PROVE  Goes(r)
<1>. DEFINE x == todo[r][1]
            v == ViewOf(r)
            w == ViewOf(r)'
<1>1. copy[r] = row /\ subscribed /\ TypeOK
    BY DEF Ready
<1>2. subscribed' = subscribed /\ row' = row /\ copy' = copy /\ latest' = latest /\ box' = box
      /\ billed' = billed /\ counted' = counted /\ Proceed(r)
    BY DEF SetInflightState, ClearInflightState, ClearIfSuspended, SetInDeploy
<1>3. todo'[r] = Rest(todo[r], 1)
    BY <1>1, <1>2, Proceeds
<1>8. v \in View /\ w \in View
    BY <1>1, ViewType
<1>4. CASE SetInflightState(r)
    <2>1. x.do = "mark" /\ inflight' = x.arg
        BY <1>1, <1>4 DEF SetInflightState, SetInflight, AtStep
    <2>2. w = [v EXCEPT !.inflight = x.arg]
        <3>1. w.row = v.row /\ w.box = v.box /\ w.billed = v.billed /\ w.counted = v.counted
              /\ w.inflight = x.arg
            BY <1>2, <2>1 DEF ViewOf
        <3>. HIDE DEF v, w
        <3> QED
            BY <1>8, <3>1, Fields
    <2> QED
        BY <1>1, <1>2, <1>3, <2>1, <2>2 DEF Goes, Leads, Acts
<1>5. CASE ClearInflightState(r)
    <2>1. x.do = "clear" /\ inflight' = "none"
        BY <1>1, <1>5 DEF ClearInflightState, ClearInflight, AtStep
    <2>2. w = Cleared(v)
        <3>1. w.row = v.row /\ w.box = v.box /\ w.billed = v.billed /\ w.counted = v.counted
              /\ w.inflight = "none"
            BY <1>2, <2>1 DEF ViewOf
        <3>. HIDE DEF v, w
        <3> QED
            BY <1>8, <3>1, Fields DEF Cleared
    <2> QED
        BY <1>1, <1>2, <1>3, <2>1, <2>2 DEF Goes, Leads, Acts
<1>6. CASE ClearIfSuspended(r)
    <2>1. x.do = "clearIfSuspended"
        BY <1>6 DEF ClearIfSuspended, AtStep
    <2>2. row = "suspended" => inflight' = "none"
        BY <1>1, <1>6 DEF ClearIfSuspended, ClearInflight
    <2>3. row # "suspended" => inflight' = inflight
        BY <1>1, <1>6 DEF ClearIfSuspended
    <2>4. w = IF v.row = "suspended" THEN Cleared(v) ELSE v
        BY <1>2, <2>2, <2>3 DEF ViewOf, Cleared
    <2> QED
        BY <1>1, <1>2, <1>3, <2>1, <2>4 DEF Goes, Leads, Acts
<1>7. CASE SetInDeploy(r)
    <2>1. x.do = "flagDeploy" /\ inflight' = inflight
        BY <1>7 DEF SetInDeploy, AtStep
    <2>2. w = v
        BY <1>2, <2>1 DEF ViewOf
    <2> QED
        BY <1>1, <1>2, <1>3, <2>1, <2>2 DEF Goes, Leads, Acts, Silent
<1> QED
    BY <1>4, <1>5, <1>6, <1>7

LEMMA RowSteps ==
    ASSUME NEW r \in Req, Ready(r), TypeOK', SaveState(r) \/ DestroyRow(r) \/ ReloadCopy(r)
    PROVE  Goes(r)
<1>. DEFINE x == todo[r][1]
            v == ViewOf(r)
            w == ViewOf(r)'
<1>1. copy[r] = row /\ subscribed /\ TypeOK /\ row # "gone" /\ copy \in [Req -> RowStates \cup {"none"}]
    BY DEF Ready, Can, ViewOf, TypeOK
<1>2. inflight' = inflight /\ latest' = latest /\ box' = box
      /\ billed' = billed /\ counted' = counted /\ subscribed' = subscribed
    BY DEF SaveState, DestroyRow, ReloadCopy, shared
<1>6. v \in View /\ w \in View
    BY <1>1, ViewType
<1>3. CASE SaveState(r)
    <2>1. x.do = "write" /\ Proceed(r) /\ Save(r, x.arg)
        BY <1>3 DEF SaveState, AtStep
    <2>2. row' = x.arg /\ copy'[r] = x.arg
        BY <1>1, <2>1 DEF Save
    <2>3. w = [v EXCEPT !.row = x.arg]
        <3>1. w.row = x.arg /\ w.box = v.box /\ w.billed = v.billed /\ w.counted = v.counted
              /\ w.inflight = v.inflight
            BY <1>2, <2>2 DEF ViewOf
        <3>. HIDE DEF v, w
        <3> QED
            BY <1>6, <3>1, Fields
    <2>4. todo'[r] = Rest(todo[r], 1)
        BY <1>1, <2>1, Proceeds
    <2> QED
        BY <1>1, <1>2, <2>1, <2>2, <2>3, <2>4 DEF Goes, Leads, Acts
<1>4. CASE DestroyRow(r)
    <2>1. x.do = "destroy" /\ Proceed(r) /\ row' = "gone"
        BY <1>4 DEF DestroyRow, AtStep
    <2>2. w = [v EXCEPT !.row = "gone"]
        <3>1. w.row = "gone" /\ w.box = v.box /\ w.billed = v.billed /\ w.counted = v.counted
              /\ w.inflight = v.inflight
            BY <1>2, <2>1 DEF ViewOf
        <3>. HIDE DEF v, w
        <3> QED
            BY <1>6, <3>1, Fields
    <2>3. todo'[r] = Rest(todo[r], 1)
        BY <1>1, <2>1, Proceeds
    <2> QED
        BY <1>1, <1>2, <2>1, <2>2, <2>3 DEF Goes, Leads, Acts
<1>5. CASE ReloadCopy(r)
    <2>1. x.do = "reload" /\ Proceed(r) /\ copy' = [copy EXCEPT ![r] = row] /\ row' = row
        BY <1>1, <1>5 DEF ReloadCopy, AtStep, shared
    <2>2. w = v /\ copy'[r] = row'
        BY <1>1, <1>2, <2>1 DEF ViewOf
    <2>3. todo'[r] = Rest(todo[r], 1)
        BY <1>1, <2>1, Proceeds
    <2> QED
        BY <1>1, <1>2, <2>1, <2>2, <2>3 DEF Goes, Leads, Acts, Silent
<1> QED
    BY <1>3, <1>4, <1>5

\* The checks that admit a start, and the import: nothing refuses them.
LEMMA AdmittedSteps ==
    ASSUME NEW r \in Req, Ready(r), OnlyLaunchesFail,
           CheckStart(r) \/ AdmitStart(r) \/ ImportData(r) \/ RestartFlows(r) \/ FlowsRefused(r)
    PROVE  Goes(r)
<1>. DEFINE x == todo[r][1]
<1>1. copy[r] = row /\ subscribed /\ TypeOK
    BY DEF Ready
<1>2. "billing" \notin Faults /\ "license" \notin Faults /\ "import" \notin Faults
      /\ "driver" \notin Faults
    BY DEF OnlyLaunchesFail
<1>3. ~StartRefused
    BY <1>1, <1>2 DEF StartRefused
<1>4. ~FlowsRefused(r)
    BY <1>2, <1>3 DEF FlowsRefused
<1>5. x.do \in Silent
    BY <1>4 DEF CheckStart, AdmitStart, ImportData, RestartFlows, AtStep, Silent
<1>6. Proceed(r) /\ UNCHANGED shared /\ copy' = copy /\ counted' = counted
    BY <1>2, <1>3, <1>4 DEF CheckStart, AdmitStart, ImportData, RestartFlows, shared
<1>7. ViewOf(r)' = ViewOf(r)
    BY <1>6 DEF ViewOf, shared
<1>8. todo'[r] = Rest(todo[r], 1)
    BY <1>1, <1>6, Proceeds
<1>9. Leads(x, 1, ViewOf(r), ViewOf(r)')
    BY <1>5, <1>7 DEF Leads, Acts, Silent
<1> QED
    BY <1>1, <1>6, <1>8, <1>9 DEF Goes, shared

LEMMA BillingSteps ==
    ASSUME NEW r \in Req, Ready(r), OnlyLaunchesFail,
           CountInstances(r) \/ AddProject(r) \/ RemoveProject(r) \/ RemoveProjectLate(r)
               \/ RemoveProjectTeamless(r)
    PROVE  Goes(r)
<1>. DEFINE x == todo[r][1]
            v == ViewOf(r)
            w == ViewOf(r)'
<1>1. copy[r] = row /\ subscribed /\ TypeOK /\ counted \in [Req -> BOOLEAN]
      /\ x.do # "unbillTeamless"
    BY DEF Ready, TypeOK, Can
<1>2. ~StripeFails /\ "stripeUpdate" \notin Faults /\ ~RemoveProjectTeamless(r)
    BY <1>1 DEF OnlyLaunchesFail, StripeFails, RemoveProjectTeamless, AtStep
<1>3. /\ Proceed(r) /\ row' = row /\ inflight' = inflight /\ latest' = latest
      /\ published' = published /\ box' = box /\ subscribed' = subscribed /\ copy' = copy
    BY <1>2 DEF CountInstances, AddProject, RemoveProject, RemoveProjectLate, shared
<1>4. todo'[r] = Rest(todo[r], 1)
    BY <1>1, <1>3, Proceeds
<1>5. CASE CountInstances(r)
    <2>1. x.do = "count" /\ counted'[r] = (row \in Live) /\ billed' = billed
        BY <1>1, <1>5 DEF CountInstances, AtStep, shared
    <2>2. w = [v EXCEPT !.counted = v.row \in Live]
        BY <1>3, <2>1 DEF ViewOf
    <2> QED
        BY <1>1, <1>3, <1>4, <2>1, <2>2 DEF Goes, Leads, Acts
<1>6. CASE ~CountInstances(r)
    <2>1. x.do \in {"bill", "unbill", "lateUnbill"} /\ Recount(r) /\ counted' = counted
        BY <1>2, <1>6 DEF AddProject, RemoveProject, RemoveProjectLate, AtStep
    <2>2. billed' = counted[r]
        BY <1>1, <1>2, <2>1 DEF Recount
    <2>3. w = [v EXCEPT !.billed = v.counted]
        BY <1>3, <2>1, <2>2 DEF ViewOf
    <2> QED
        BY <1>1, <1>3, <1>4, <2>1, <2>3 DEF Goes, Leads, Acts
<1> QED
    BY <1>5, <1>6

LEMMA ContainerSteps ==
    ASSUME NEW r \in Req, Ready(r), OnlyLaunchesFail,
           LaunchContainer(r) \/ ContainerStartFails(r) \/ ContainerStartLost(r) \/ DriverStop(r)
               \/ DriverRemove(r) \/ StartFlows(r) \/ StopFlows(r)
    PROVE  Goes(r)
<1>. DEFINE x == todo[r][1]
            v == ViewOf(r)
            w == ViewOf(r)'
<1>1. copy[r] = row /\ subscribed /\ TypeOK /\ Can(x, v) /\ box \in BoxStates
    BY DEF Ready, TypeOK
<1>2. "driver" \notin Faults
    BY DEF OnlyLaunchesFail
<1>3. x.do \in {"settle", "driverStop"} => box # "none"
    BY <1>1 DEF Can, ViewOf
<1>4. x.do = "launch" => box \in {"none", "suspended"}
    BY <1>1 DEF Can, ViewOf
<1>5. ~ContainerStartLost(r)
    BY <1>3 DEF ContainerStartLost, AtStep
<1>6. /\ Proceed(r) /\ row' = row /\ inflight' = inflight /\ latest' = latest /\ billed' = billed
      /\ published' = published /\ subscribed' = subscribed /\ copy' = copy /\ counted' = counted
    <2>1. CASE LaunchContainer(r) \/ DriverStop(r)
        BY <1>2, <1>3, <1>4, <2>1 DEF LaunchContainer, DriverStop, AtStep
    <2>2. CASE ContainerStartFails(r) \/ DriverRemove(r) \/ StartFlows(r) \/ StopFlows(r)
        BY <1>2, <2>2 DEF ContainerStartFails, DriverRemove, StartFlows, StopFlows
    <2> QED
        BY <1>5, <2>1, <2>2
<1>7. todo'[r] = Rest(todo[r], 1)
    BY <1>1, <1>6, Proceeds
<1>8. Leads(x, 1, v, w)
    <2>1. CASE LaunchContainer(r)
        <3>1. x.do = "launch" /\ box' = "starting"
            BY <1>4, <2>1 DEF LaunchContainer, AtStep
        <3>2. w = [v EXCEPT !.box = "up"]
            BY <1>6, <3>1 DEF ViewOf
        <3> QED
            BY <3>1, <3>2 DEF Leads, Acts
    <2>2. CASE ContainerStartFails(r)
        <3>1. x.do = "settle" /\ box' = "none"
            BY <2>2 DEF ContainerStartFails, AtStep
        <3>2. w = [v EXCEPT !.box = "none"]
            BY <1>6, <3>1 DEF ViewOf
        <3> QED
            BY <3>1, <3>2 DEF Leads
    <2>3. CASE DriverStop(r)
        <3>1. x.do = "driverStop" /\ box' = "suspended"
            BY <1>2, <1>3, <2>3 DEF DriverStop, AtStep
        <3>2. w = [v EXCEPT !.box = "suspended"]
            BY <1>6, <3>1 DEF ViewOf
        <3> QED
            BY <3>1, <3>2 DEF Leads, Acts
    <2>4. CASE DriverRemove(r)
        <3>1. x.do = "driverRemove" /\ box' = "none"
            BY <1>2, <2>4 DEF DriverRemove, AtStep
        <3>2. w = [v EXCEPT !.box = "none"]
            BY <1>6, <3>1 DEF ViewOf
        <3> QED
            BY <3>1, <3>2 DEF Leads, Acts
    <2>5. CASE StartFlows(r) \/ StopFlows(r)
        <3>1. x.do \in {"startFlows", "stopFlows"}
            BY <2>5 DEF StartFlows, StopFlows, AtStep
        <3>2. Up(v.box) = w.box
            BY <1>2, <2>5 DEF StartFlows, StopFlows, ViewOf, Up
        <3>3. w = [v EXCEPT !.box = Up(v.box)]
            BY <1>6, <3>2 DEF ViewOf
        <3> QED
            BY <3>1, <3>3 DEF Leads, Acts
    <2> QED
        BY <1>5, <2>1, <2>2, <2>3, <2>4, <2>5
<1> QED
    BY <1>1, <1>6, <1>7, <1>8 DEF Goes

\* A report keeps the transition on show or ends it; one that says running ends a start.
LEMMA Reports ==
    ASSUME NEW r \in Req, NEW z, TypeOK, TypeOK', copy[r] = row, UpdateLatest(r, z),
           row' = row, billed' = billed, counted' = counted
    PROVE  LET v == ViewOf(r)
               w == ViewOf(r)'
           IN  /\ w = [v EXCEPT !.box = w.box, !.inflight = w.inflight]
               /\ w.inflight \in {v.inflight, "none"}
               /\ z = "running" => w.inflight = Confirmed(v.inflight)
<1>. DEFINE v == ViewOf(r)
            w == ViewOf(r)'
<1>1. v \in View /\ w \in View
    BY ViewType
<1>4. w.row = v.row /\ w.billed = v.billed /\ w.counted = v.counted
    BY DEF ViewOf
<1>5. inflight' \in {inflight, "none"} /\ (z = "running" => inflight' = Confirmed(inflight))
    BY DEF UpdateLatest, Confirmed
<1>6. w.inflight \in {v.inflight, "none"} /\ (z = "running" => w.inflight = Confirmed(v.inflight))
    BY <1>5 DEF ViewOf
<1>7. w = [v EXCEPT !.box = w.box, !.inflight = w.inflight]
    <2>. HIDE DEF v, w
    <2> QED
        BY <1>1, <1>4 DEF View
<1> QED
    BY <1>6, <1>7

LEMMA ReportSteps ==
    ASSUME NEW r \in Req, Ready(r), TypeOK',
           ContainerStarted(r) \/ FlowsRestarted(r) \/ LauncherReport(r) \/ ReadDetails(r) \/ NoteLatest(r)
    PROVE  Goes(r)
<1>. DEFINE x == todo[r][1]
            v == ViewOf(r)
            w == ViewOf(r)'
<1>1. copy[r] = row /\ subscribed /\ TypeOK /\ x.do \notin {"details", "noteLatest"}
    BY DEF Ready, Can
<1>2. ~ReadDetails(r) /\ ~NoteLatest(r)
    BY <1>1 DEF ReadDetails, NoteLatest, AtStep
<1>3. row' = row /\ billed' = billed /\ counted' = counted /\ subscribed' = subscribed /\ copy' = copy
    BY <1>2 DEF ContainerStarted, FlowsRestarted, LauncherReport
<1>4. v \in View /\ w \in View
    BY <1>1, ViewType
<1>5. ASSUME NEW z, UpdateLatest(r, z)
      PROVE  /\ w = [v EXCEPT !.box = w.box, !.inflight = w.inflight]
             /\ w.inflight \in {v.inflight, "none"}
             /\ z = "running" => w.inflight = Confirmed(v.inflight)
    BY <1>1, <1>3, <1>5, Reports
<1>6. CASE ContainerStarted(r)
    <2>1. x.do = "settle" /\ box' = "running" /\ UpdateLatest(r, "running")
          /\ todo' = [todo EXCEPT ![r] = Rest(@, 4)]
        BY <1>6 DEF ContainerStarted, AtStep
    <2>2. w.box = "up"
        BY <2>1 DEF ViewOf
    <2>3. /\ w = [v EXCEPT !.box = w.box, !.inflight = w.inflight]
          /\ w.inflight = Confirmed(v.inflight)
        BY <1>5, <2>1
    <2>4. todo'[r] = Rest(todo[r], 4)
        BY <1>1, <2>1 DEF TypeOK
    <2>. HIDE DEF v, w
    <2>5. Leads(x, 4, v, w)
        BY <2>1, <2>2, <2>3 DEF Leads
    <2> QED
        BY <1>1, <1>3, <2>4, <2>5 DEF Goes, v, w
<1>7. CASE FlowsRestarted(r)
    <2>1. x.do = "bounce" /\ UpdateLatest(r, "running") /\ Proceed(r)
          /\ box' = IF box = "none" THEN box ELSE "running"
        BY <1>7 DEF FlowsRestarted, AtStep
    <2>2. w.box = Up(v.box)
        BY <1>1, <2>1 DEF ViewOf, Up
    <2>3. /\ w = [v EXCEPT !.box = w.box, !.inflight = w.inflight]
          /\ w.inflight = Confirmed(v.inflight)
        BY <1>5, <2>1
    <2>4. todo'[r] = Rest(todo[r], 1)
        BY <1>1, <2>1, Proceeds
    <2>. HIDE DEF v, w
    <2>5. Leads(x, 1, v, w)
        BY <2>1, <2>2, <2>3 DEF Leads, Acts
    <2> QED
        BY <1>1, <1>3, <2>4, <2>5 DEF Goes, v, w
<1>8. CASE LauncherReport(r)
    <2>1. x.do = "report" /\ UpdateLatest(r, seen[r]) /\ Proceed(r) /\ box' = box
        BY <1>8 DEF LauncherReport, AtStep
    <2>2. w.box = v.box
        BY <2>1 DEF ViewOf
    <2>3. /\ w = [v EXCEPT !.box = w.box, !.inflight = w.inflight]
          /\ w.inflight \in {v.inflight, "none"}
        BY <1>5, <2>1
    <2>4. todo'[r] = Rest(todo[r], 1)
        BY <1>1, <2>1, Proceeds
    <2>. HIDE DEF v, w
    <2>5. w = [v EXCEPT !.inflight = w.inflight]
        BY <1>4, <2>2, <2>3 DEF View
    <2>6. Leads(x, 1, v, w)
        BY <2>1, <2>3, <2>5 DEF Leads, Acts
    <2> QED
        BY <1>1, <1>3, <2>4, <2>6 DEF Goes, v, w
<1> QED
    BY <1>2, <1>6, <1>7, <1>8

LEMMA AdvanceGoes ==
    ASSUME NEW r \in Req, Ready(r), TypeOK', OnlyLaunchesFail, Advance(r)
    PROVE  Goes(r)
BY CacheSteps, RowSteps, AdmittedSteps, BillingSteps, ContainerSteps, ReportSteps DEF Advance

-----------------------------------------------------------------------------
(* The invariant *)

\* What is left of the handler's program ensures that it ends with everything settled.
OnCourse(r) ==
    /\ subscribed
    /\ todo[r] # <<>> /\ row # "gone" => copy[r] = row
    /\ Ensures({ViewOf(r)}, todo[r], Settled)

LEMMA StartsOnCourse ==
    ASSUME Init, NEW r \in Req
    PROVE  OnCourse(r)
<1>1. ViewOf(r) \in Settled
    <2>1. ViewOf(r) = [row |-> InitRow, box |-> IF InitRow = "suspended" THEN "suspended" ELSE "up",
                       billed |-> InitRow \in Live, counted |-> FALSE, inflight |-> "none"]
        BY InitRowAssumption DEF Init, ViewOf, Effective
    <2>2. CASE InitRow = "running"
        <3>1. ViewOf(r) = [row |-> "running", box |-> "up", billed |-> TRUE, counted |-> FALSE,
                           inflight |-> "none"]
            BY <2>1, <2>2 DEF Live
        <3> QED
            BY <3>1 DEF Settled, Sound, View, Live, RowStates
    <2>3. CASE InitRow = "suspended"
        <3>1. ViewOf(r) = [row |-> "suspended", box |-> "suspended", billed |-> FALSE,
                           counted |-> FALSE, inflight |-> "none"]
            <4>1. (InitRow \in Live) = FALSE
                BY <2>3 DEF Live
            <4> QED
                BY <2>1, <2>3, <4>1
        <3> QED
            BY <3>1 DEF Settled, Sound, View, Live, RowStates
    <2> QED
        BY <2>2, <2>3, InitRowAssumption
<1>2. todo[r] = <<>> /\ subscribed
    BY DEF Init
<1>3. {ViewOf(r)} \in SUBSET View /\ {ViewOf(r)} \subseteq Settled
    BY <1>1, Sets
<1>4. Ensures({ViewOf(r)}, <<>>, Settled)
    BY <1>3, NothingToDo
<1> QED
    BY <1>2, <1>4 DEF OnCourse

LEMMA RequestOnCourse ==
    ASSUME NEW r \in Req, NEW o \in Ops, Settling, TypeOK, OnCourse(r), Receive(r, o)
    PROVE  OnCourse(r)'
<1>1. todo[r] = <<>> /\ row # "gone" /\ todo'[r] = Program(o, row) /\ copy'[r] = row
      /\ UNCHANGED shared /\ counted' = counted
    BY DEF Receive, Idle, TypeOK
<1>2. ViewOf(r) \in Settled /\ ViewOf(r).row = row
    <2>1. Ensures({ViewOf(r)}, <<>>, Settled)
        BY <1>1 DEF OnCourse
    <2> QED
        BY <2>1, NothingLeft DEF ViewOf
<1>3. row \in Resting /\ ViewOf(r) \in At(row)
    BY <1>1, <1>2 DEF Settled, Sound, At, Resting
<1>4. Ensures(At(row), Program(o, row), Settled)
    BY <1>3, ProgramEnsures
<1>5. Ensures({ViewOf(r)}, Program(o, row), Settled)
    <2>1. {ViewOf(r)} \subseteq At(row)
        BY <1>3
    <2> QED
        BY <1>4, <2>1, Weaken
<1>6. ViewOf(r)' = ViewOf(r)
    BY <1>1 DEF ViewOf, shared
<1>7. row' = row /\ subscribed' = subscribed
    BY <1>1 DEF shared
<1> QED
    BY <1>1, <1>5, <1>6, <1>7 DEF OnCourse

LEMMA AdvanceOnCourse ==
    ASSUME NEW r \in Req, OnlyLaunchesFail, TypeOK, TypeOK', OnCourse(r), Advance(r)
    PROVE  OnCourse(r)'
<1>1. todo[r] # <<>>
    BY DEF Advance, AtStep, SetInflightState, ClearInflightState, ClearIfSuspended, SetInDeploy,
           SaveState, CheckStart, AdmitStart, CountInstances, AddProject, LaunchContainer,
           ContainerStarted, ContainerStartFails, ContainerStartLost, RemoveProject,
           RemoveProjectLate, RemoveProjectTeamless, DriverStop, DriverRemove, DestroyRow,
           ReloadCopy, ImportData, FlowsRefused, StartFlows, StopFlows, RestartFlows,
           FlowsRestarted, LauncherReport, ReadDetails, NoteLatest
<1>2. ViewOf(r) \in View /\ ViewOf(r)' \in View /\ todo[r] \in Seq(Step)
    BY ViewType DEF TypeOK
<1>3. /\ Can(todo[r][1], ViewOf(r))
      /\ \A n \in {1, 4}, w \in View :
            Leads(todo[r][1], n, ViewOf(r), w) => Ensures({w}, Rest(todo[r], n), Settled)
    BY <1>1, <1>2, Onwards DEF OnCourse
<1>4. Ready(r)
    <2>1. row # "gone"
        BY <1>3 DEF Can, ViewOf
    <2> QED
        BY <1>1, <1>3, <2>1 DEF Ready, OnCourse
<1>5. Goes(r)
    BY <1>4, AdvanceGoes
<1>6. Ensures({ViewOf(r)'}, todo'[r], Settled)
    BY <1>2, <1>3, <1>5 DEF Goes
<1> QED
    BY <1>5, <1>6 DEF OnCourse, Goes

LEMMA NextOnCourse ==
    ASSUME NEW r, Req = {r}, OnlyLaunchesFail, Settling, TypeOK, OnCourse(r), [Next]_vars
    PROVE  OnCourse(r)'
<1>1. TypeOK' /\ r \in Req
    BY NextType
<1>2. CASE \E q \in Req, o \in Ops : Receive(q, o)
    BY <1>1, <1>2, RequestOnCourse
<1>3. CASE \E q \in Req : Advance(q)
    BY <1>1, <1>3, AdvanceOnCourse
<1>4. CASE BoxCrashes \/ UNCHANGED vars
    <2>1. /\ todo' = todo /\ row' = row /\ copy' = copy /\ subscribed' = subscribed
          /\ billed' = billed /\ counted' = counted /\ inflight' = inflight /\ latest' = latest
          /\ published' = published
        BY <1>4 DEF BoxCrashes, vars
    <2>2. box' = box \/ (box = "running" /\ box' = "crashed")
        BY <1>4 DEF BoxCrashes, vars
    <2>3. ViewOf(r)' = ViewOf(r)
        BY <2>1, <2>2 DEF ViewOf
    <2> QED
        BY <2>1, <2>3 DEF OnCourse
<1>5. ~SubscriptionDeleted
    BY DEF SubscriptionDeleted, Settling
<1> QED
    BY <1>2, <1>3, <1>4, <1>5 DEF Next

\* When nothing is left to do, everything is settled.
LEMMA AtRest ==
    ASSUME NEW r \in Req, TypeOK, OnCourse(r)
    PROVE  Quiescent => ViewOf(r) \in Settled
<1>1. ASSUME Quiescent
      PROVE  ViewOf(r) \in Settled
    <2>1. todo[r] = <<>>
        BY <1>1 DEF Quiescent, Idle
    <2>2. {ViewOf(r)} \subseteq Settled
        BY <2>1, NothingLeft DEF OnCourse
    <2> QED
        BY <2>2
<1> QED
    BY <1>1

\* A handler alone is always on its course, whatever operations come and whenever a start fails.
LEMMA AlwaysOnCourse ==
    ASSUME NEW r, Req = {r}, OnlyLaunchesFail, Settling
    PROVE  Spec => [](TypeOK /\ OnCourse(r))
<1>1. Init => TypeOK /\ OnCourse(r)
    BY InitType, StartsOnCourse
<1>2. TypeOK /\ OnCourse(r) /\ [Next]_vars => (TypeOK /\ OnCourse(r))'
    BY NextType, NextOnCourse
<1> QED
    BY <1>1, <1>2, PTL DEF Spec

-----------------------------------------------------------------------------
(* The theorems *)

\* With one handler at a time, whatever operations follow each other and whichever starts the
\* driver fails, a suspended or deleted row has no container in use and any other row has one.
THEOREM RowsHaveContainers ==
    ASSUME OneHandler, OnlyLaunchesFail, Settling
    PROVE  Spec => []ContainerMatchesRow
<1>1. PICK r : Req = {r}
    BY DEF OneHandler
<1>2. TypeOK /\ OnCourse(r) => ContainerMatchesRow
    BY <1>1, AtRest DEF ContainerMatchesRow, Settled, Sound, ViewOf, TypeOK, BoxStates
<1> QED
    BY <1>1, <1>2, AlwaysOnCourse, PTL

\* The subscription counts the instance exactly when its row says that it runs: every way through
\* the wrapper ends with a recount that sees what was written.
THEOREM RunningIsBilled ==
    ASSUME OneHandler, OnlyLaunchesFail, Settling
    PROVE  Spec => []BillingMatchesRow
<1>1. PICK r : Req = {r}
    BY DEF OneHandler
<1>2. TypeOK /\ OnCourse(r) => BillingMatchesRow
    BY <1>1, AtRest DEF BillingMatchesRow, Settled, Sound, ViewOf, Live
<1> QED
    BY <1>1, <1>2, AlwaysOnCourse, PTL

\* No transition outlives the handler that showed it, a start that fails included.
THEOREM TransitionsAreEnded ==
    ASSUME OneHandler, OnlyLaunchesFail, Settling
    PROVE  Spec => []TransitionsEnd
<1>1. PICK r : Req = {r}
    BY DEF OneHandler
<1>2. TypeOK /\ OnCourse(r) => TransitionsEnd
    BY <1>1, AtRest DEF TransitionsEnd, Settled, Sound, ViewOf
<1> QED
    BY <1>1, <1>2, AlwaysOnCourse, PTL

-----------------------------------------------------------------------------
(* What clients see *)

\* The handler's copy follows the row, and what was broadcast last is what a fresh read shows.
UpToDate(r) ==
    row # "gone" => /\ todo[r] # <<>> => copy[r] = row
                    /\ published = Effective(inflight, latest, row)

LEMMA StartsUpToDate ==
    ASSUME Init, NEW r \in Req
    PROVE  UpToDate(r)
BY InitRowAssumption DEF Init, UpToDate, Effective

\* Whatever a step does to the row, the transition and the latest state it broadcasts, from a copy
\* that follows the row; a step that throws leaves them as they were.
LEMMA AdvanceStaysUpToDate ==
    ASSUME NEW r \in Req, TypeOK, UpToDate(r), Advance(r), ~NoteLatest(r)
    PROVE  UpToDate(r)'
<1>. USE DEF UpToDate, AtStep, shared
<1>1. copy \in [Req -> RowStates \cup {"none"}] /\ row \in RowStates \cup {"gone"}
    BY DEF TypeOK
<1>2. CASE SetInflightState(r) \/ ClearInflightState(r) \/ ClearIfSuspended(r)
    <2>1. /\ todo[r] # <<>> /\ row' = row /\ latest' = latest /\ copy' = copy
          /\ \/ published' = Effective(inflight', latest, copy[r])
             \/ published' = published /\ inflight' = inflight
        BY <1>2 DEF SetInflightState, ClearInflightState, ClearIfSuspended, SetInflight,
                    ClearInflight
    <2> QED
        BY <2>1
<1>3. ASSUME NEW s, Save(r, s), todo[r] # <<>>, inflight' = inflight, latest' = latest
      PROVE  UpToDate(r)'
    <2>1. copy'[r] = s
        BY <1>1, <1>3 DEF Save
    <2>2. row # "gone" => row' = s /\ published' = Effective(inflight, latest, s)
        BY <1>3 DEF Save
    <2>3. row = "gone" => row' = "gone"
        BY <1>3 DEF Save
    <2> QED
        BY <1>3, <2>1, <2>2, <2>3
<1>4. CASE SaveState(r)
    BY <1>3, <1>4 DEF SaveState
<1>5. CASE AdmitStart(r)
    <2>1. todo[r] # <<>> /\ inflight' = inflight /\ latest' = latest
        BY <1>5 DEF AdmitStart
    <2>2. Save(r, "suspended") \/ UNCHANGED <<row, copy, published>>
        BY <1>5 DEF AdmitStart
    <2> QED
        BY <1>3, <2>1, <2>2
<1>6. ASSUME NEW v, UpdateLatest(r, v), todo[r] # <<>>, row' = row, copy' = copy
      PROVE  UpToDate(r)'
    <2>1. published' = Effective(inflight', latest', copy[r])
        BY <1>6 DEF UpdateLatest
    <2> QED
        BY <1>6, <2>1
<1>7. CASE ContainerStarted(r) \/ FlowsRestarted(r) \/ LauncherReport(r)
    BY <1>6, <1>7 DEF ContainerStarted, FlowsRestarted, LauncherReport
<1>8. CASE DestroyRow(r)
    BY <1>8 DEF DestroyRow
<1>9. CASE ReloadCopy(r)
    <2>1. UNCHANGED shared /\ todo[r] # <<>>
        BY <1>9 DEF ReloadCopy
    <2>2. row = "gone" \/ copy'[r] = row
        BY <1>1, <1>9 DEF ReloadCopy
    <2> QED
        BY <2>1, <2>2
<1>10. ASSUME todo[r] # <<>>, UNCHANGED <<row, inflight, latest, published, copy>>
       PROVE  UpToDate(r)'
    BY <1>10
<1>11. CASE SetInDeploy(r) \/ CheckStart(r) \/ CountInstances(r) \/ AddProject(r)
                \/ LaunchContainer(r) \/ ContainerStartFails(r) \/ ContainerStartLost(r)
                \/ RemoveProject(r) \/ RemoveProjectLate(r) \/ RemoveProjectTeamless(r)
    <2>1. todo[r] # <<>> /\ UNCHANGED <<row, inflight, latest, published, copy>>
        BY <1>11 DEF SetInDeploy, CheckStart, CountInstances, AddProject, LaunchContainer,
                     ContainerStartFails, ContainerStartLost, RemoveProject, RemoveProjectLate,
                     RemoveProjectTeamless
    <2> QED
        BY <1>10, <2>1
<1>12. CASE DriverStop(r) \/ DriverRemove(r) \/ ImportData(r) \/ FlowsRefused(r)
                \/ StartFlows(r) \/ StopFlows(r) \/ RestartFlows(r) \/ ReadDetails(r)
    <2>1. todo[r] # <<>> /\ UNCHANGED <<row, inflight, latest, published, copy>>
        BY <1>12 DEF DriverStop, DriverRemove, ImportData, FlowsRefused, StartFlows, StopFlows,
                     RestartFlows, ReadDetails
    <2> QED
        BY <1>10, <2>1
<1> QED
    BY <1>2, <1>4, <1>5, <1>7, <1>8, <1>9, <1>11, <1>12 DEF Advance

\* The handler's program does not note a state.
NeverNotes(r) == \A i \in 1..Len(todo[r]) : todo[r][i].do # "noteLatest"

LEMMA NextNeverNotes ==
    ASSUME NEW r, Req = {r}, "liveState" \notin Ops, TypeOK, NeverNotes(r), [Next]_vars
    PROVE  NeverNotes(r)'
<1>. USE DEF NeverNotes
<1>1. todo \in [Req -> Seq(Step)] /\ row \in RowStates \cup {"gone"} /\ r \in Req
    BY DEF TypeOK
<1>2. ASSUME NEW o \in Ops, Receive(r, o)
      PROVE  NeverNotes(r)'
    <2>. DEFINE S == {x \in Step : x.do # "noteLatest"}
    <2>1. row \in RowStates /\ todo'[r] = Program(o, row)
        BY <1>1, <1>2 DEF Receive
    <2>2. /\ \A t \in Transitions : Mark(t) \in S
          /\ \A t \in RowStates : Write(t) \in S
          /\ \A k \in PlainSteps \ {"details", "noteLatest"} : Do(k) \in S
        BY DEF Step, Mark, Write, Do, PlainSteps
    <2>3. o \in OpNames \ {"liveState"}
        BY OpsAssumption
    <2>. HIDE DEF S
    <2>4. todo'[r] \in Seq(S)
        BY <2>1, <2>2, <2>3, ProgramOver
    <2>5. \A i \in 1..Len(todo'[r]) : todo'[r][i] \in S
        BY <2>4, ElementOfSeq
    <2> QED
        BY <2>5 DEF S
<1>3. ASSUME NEW p \in Seq(Step), NEW n \in Nat, todo' = [todo EXCEPT ![r] = Rest(p, n)],
             p = todo[r]
      PROVE  NeverNotes(r)'
    <2>1. todo'[r] = Rest(p, n) /\ Len(p) \in Nat
        BY <1>1, <1>3, LenProperties
    <2>2. \A i \in 1..Len(Rest(p, n)) : Rest(p, n)[i] = p[n + i] /\ n + i \in 1..Len(p)
        BY <2>1, RestProperties
    <2> QED
        BY <1>3, <2>1, <2>2
<1>4. ASSUME NEW q \in {<<>>, <<Clear>>, <<Do("destroy")>>}, todo' = [todo EXCEPT ![r] = q]
      PROVE  NeverNotes(r)'
    BY <1>1, <1>4 DEF Clear, Do
<1>5. ASSUME Advance(r)
      PROVE  \/ \E n \in Nat : todo' = [todo EXCEPT ![r] = Rest(@, n)]
             \/ \E q \in {<<>>, <<Clear>>, <<Do("destroy")>>} : todo' = [todo EXCEPT ![r] = q]
    <2>1. Proceed(r) \/ Throw(r)
              => \/ \E n \in Nat : todo' = [todo EXCEPT ![r] = Rest(@, n)]
                 \/ \E q \in {<<>>, <<Clear>>, <<Do("destroy")>>} : todo' = [todo EXCEPT ![r] = q]
        BY DEF Proceed, Throw, Handler
    <2>2. CASE CheckStart(r) \/ LaunchContainer(r) \/ ContainerStarted(r) \/ ContainerStartLost(r)
                   \/ RemoveProjectLate(r) \/ DriverRemove(r) \/ ReadDetails(r)
        BY <2>1, <2>2 DEF CheckStart, LaunchContainer, ContainerStarted, ContainerStartLost,
                          RemoveProjectLate, LateHandler, DriverRemove, ReadDetails
    <2>3. CASE SetInflightState(r) \/ ClearInflightState(r) \/ ClearIfSuspended(r) \/ SetInDeploy(r)
                   \/ SaveState(r) \/ AdmitStart(r) \/ CountInstances(r) \/ AddProject(r)
                   \/ ContainerStartFails(r) \/ RemoveProject(r) \/ RemoveProjectTeamless(r)
        BY <2>1, <2>3 DEF SetInflightState, ClearInflightState, ClearIfSuspended, SetInDeploy,
                          SaveState, AdmitStart, CountInstances, AddProject, ContainerStartFails,
                          RemoveProject, RemoveProjectTeamless
    <2>4. CASE DriverStop(r) \/ DestroyRow(r) \/ ReloadCopy(r) \/ ImportData(r) \/ FlowsRefused(r)
                   \/ StartFlows(r) \/ StopFlows(r) \/ RestartFlows(r) \/ FlowsRestarted(r)
                   \/ LauncherReport(r) \/ NoteLatest(r)
        BY <2>1, <2>4 DEF DriverStop, DestroyRow, ReloadCopy, ImportData, FlowsRefused, StartFlows,
                          StopFlows, RestartFlows, FlowsRestarted, LauncherReport, NoteLatest
    <2> QED
        BY <1>5, <2>2, <2>3, <2>4 DEF Advance
<1>6. CASE \E q \in Req : Advance(q)
    <2>1. todo[r] \in Seq(Step) /\ Advance(r)
        BY <1>1, <1>6
    <2> QED
        BY <1>3, <1>4, <1>5, <2>1
<1>7. CASE BoxCrashes \/ SubscriptionDeleted \/ UNCHANGED vars
    BY <1>7 DEF BoxCrashes, SubscriptionDeleted, vars
<1> QED
    BY <1>2, <1>6, <1>7 DEF Next

\* Only liveState notes a state, and a handler that begins loads the row.
LEMMA NextStaysUpToDate ==
    ASSUME NEW r, Req = {r}, "liveState" \notin Ops, TypeOK, NeverNotes(r), UpToDate(r),
           [Next]_vars
    PROVE  UpToDate(r)'
<1>1. CASE \E q \in Req, o \in Ops : Receive(q, o)
    <2>1. copy'[r] = row /\ UNCHANGED shared
        BY <1>1 DEF Receive, TypeOK
    <2>2. row' = row /\ inflight' = inflight /\ latest' = latest /\ published' = published
        BY <2>1 DEF shared
    <2> QED
        BY <2>1, <2>2 DEF UpToDate
<1>2. CASE \E q \in Req : Advance(q)
    <2>1. ~NoteLatest(r)
        BY DEF NoteLatest, AtStep, NeverNotes
    <2> QED
        BY <1>2, <2>1, AdvanceStaysUpToDate
<1>3. CASE BoxCrashes \/ SubscriptionDeleted \/ UNCHANGED vars
    BY <1>3 DEF BoxCrashes, SubscriptionDeleted, vars, UpToDate
<1> QED
    BY <1>1, <1>2, <1>3 DEF Next

\* With one handler at a time, and but for a state that is noted unpublished, what clients were told
\* last is what they would be told if they asked: whatever operations follow each other, and
\* whatever throws on the way.
THEOREM ClientsAreUpToDate ==
    ASSUME OneHandler, "liveState" \notin Ops
    PROVE  Spec => []ClientsSeeTheInstance
<1>1. PICK r : Req = {r}
    BY DEF OneHandler
<1>. DEFINE Inv == TypeOK /\ NeverNotes(r) /\ UpToDate(r)
<1>2. Init => Inv
    <2>1. Init => NeverNotes(r)
        BY <1>1 DEF Init, NeverNotes
    <2> QED
        BY <1>1, <2>1, InitType, StartsUpToDate
<1>3. Inv /\ [Next]_vars => Inv'
    BY <1>1, NextType, NextNeverNotes, NextStaysUpToDate
<1>4. Inv => ClientsSeeTheInstance
    BY DEF UpToDate, ClientsSeeTheInstance
<1> QED
    BY <1>2, <1>3, <1>4, PTL DEF Spec

-----------------------------------------------------------------------------
(* Nothing is launched for free *)

\* What stands at which distance before a launch: a live state is written, the copy reloaded or the
\* transition shown, the start admitted, and the instance counted and billed.
Before == <<{Do("bill")}, {Do("count")}, {Do("admit")},
            {Do("reload")} \cup {Mark(t) : t \in Transitions}, {Write(s) : s \in Live}>>

Prepared(p) ==
    /\ \A k \in 1..Len(p) : p[k].do = "launch" =>
           \A i \in 1..5 : i < k => p[k - i] \in Before[i]
    /\ \A k \in 1..Len(p) : p[k].do = "launch" \/ p[k] = Write("deleting") =>
           \A j \in 1..(k - 1) : p[j].do \notin {"launch", "settle"}
    /\ \A k \in 1..Len(p) : p[k].do = "destroy" => k = Len(p)
    /\ \A k \in 2..Len(p) : p[k] = Write("deleting") => p[k - 1].do = "driverRemove"

\* A program for an instance whose container is gone fails before it does anything.
Doomed(p) ==
    \E j \in 1..Len(p) : /\ p[j].do = "driverStop"
                         /\ \A i \in 1..(j - 1) : p[i].do \in {"mark", "write", "flagDeploy"}

\* Whatever of the preparation has been done has had its effect.
Underway(r) ==
    /\ todo[r] # <<>> /\ todo[r][1] = Write("deleting") => box = "none"
    /\ \A k \in 1..Len(todo[r]) : todo[r][k].do = "launch" =>
           /\ k <= 5 => row \in Live
           /\ k <= 2 => counted[r]
           /\ k = 1 => (subscribed => billed)

Paying(r) ==
    /\ row = "deleting" => box = "none"
    /\ todo[r] # <<>> => copy[r] = row /\ row # "gone"
    /\ \/ box = "none" /\ Doomed(todo[r])
       \/ Prepared(todo[r]) /\ Underway(r)

\* Prepared from its first step on.
Whole(p) ==
    /\ p \in Seq(Step) /\ Prepared(p)
    /\ \A k \in 1..Len(p) : p[k].do = "launch" => k > 5
    /\ p # <<>> => p[1] # Write("deleting")

Plain == {x \in Step : x.do \notin {"launch", "settle", "destroy"} /\ x # Write("deleting")}

LEMMA PlainSequence ==
    ASSUME NEW p \in Seq(Plain)
    PROVE  p \in Seq(Step) /\ Len(p) \in Nat /\ \A k \in 1..Len(p) : p[k] \in Plain
BY ElementOfSeq, LenProperties DEF Plain

LEMMA PlainIsWhole ==
    ASSUME NEW p \in Seq(Plain)
    PROVE  Whole(p)
<1>1. p \in Seq(Step) /\ Len(p) \in Nat /\ \A k \in 1..Len(p) : p[k] \in Plain
    BY PlainSequence
<1>2. \A k \in 1..Len(p) : p[k].do \notin {"launch", "settle", "destroy"} /\ p[k] # Write("deleting")
    BY <1>1 DEF Plain
<1>3. p # <<>> => 1 \in 1..Len(p)
    BY <1>1, EmptySeq
<1> QED
    BY <1>1, <1>2, <1>3 DEF Whole, Prepared

LEMMA AfterPlain ==
    ASSUME NEW a \in Seq(Plain), NEW q, Whole(q)
    PROVE  Whole(a \o q)
<1>. DEFINE c == a \o q
            n == Len(a)
<1>1. a \in Seq(Step) /\ n \in Nat
      /\ \A k \in 1..n : a[k].do \notin {"launch", "settle", "destroy"} /\ a[k] # Write("deleting")
    BY PlainSequence DEF Plain
<1>2. q \in Seq(Step) /\ Len(q) \in Nat /\ Prepared(q)
      /\ \A k \in 1..Len(q) : q[k].do = "launch" => k > 5
    BY LenProperties DEF Whole
<1>3. /\ c \in Seq(Step) /\ Len(c) = n + Len(q)
      /\ \A k \in 1..n : c[k] = a[k]
      /\ \A k \in (n + 1)..Len(c) : k - n \in 1..Len(q) /\ c[k] = q[k - n]
    BY <1>1, <1>2, ConcatProperties
<1>4. q # <<>> => q[1] # Write("deleting")
    BY DEF Whole
<1>. HIDE DEF c
<1>5. ASSUME NEW k \in 1..Len(c), c[k].do = "launch"
      PROVE  k - n \in 1..Len(q) /\ q[k - n].do = "launch" /\ k - n > 5
    <2>1. k \in (n + 1)..Len(c)
        BY <1>1, <1>2, <1>3, <1>5
    <2> QED
        BY <1>2, <1>3, <1>5, <2>1
<1>6. ASSUME NEW k \in 1..Len(c), c[k].do = "launch" \/ c[k] = Write("deleting"),
             NEW j \in 1..(k - 1)
      PROVE  c[j].do \notin {"launch", "settle"}
    <2>0. k \in (n + 1)..Len(c) /\ k - n \in 1..Len(q) /\ c[k] = q[k - n]
        <3>1. k \notin 1..n
            BY <1>1, <1>3, <1>6
        <3> QED
            BY <1>1, <1>2, <1>3, <3>1
    <2>1. CASE j \in 1..n
        BY <1>1, <1>3, <2>1
    <2>2. CASE j \in (n + 1)..Len(c)
        <3>1. j - n \in 1..((k - n) - 1) /\ c[j] = q[j - n]
            BY <1>1, <1>2, <1>3, <2>2
        <3> QED
            BY <1>2, <1>6, <2>0, <3>1 DEF Prepared
    <2> QED
        BY <1>1, <1>2, <1>3, <2>1, <2>2
<1>7. ASSUME NEW k \in 1..Len(c), c[k].do = "launch", NEW i \in 1..5, i < k
      PROVE  c[k - i] \in Before[i]
    <2>1. k - n \in 1..Len(q) /\ q[k - n].do = "launch" /\ i < k - n
        BY <1>1, <1>2, <1>5, <1>7
    <2>2. q[(k - n) - i] \in Before[i]
        BY <1>2, <2>1 DEF Prepared
    <2>3. k - i \in (n + 1)..Len(c) /\ (k - i) - n = (k - n) - i
        BY <1>1, <1>2, <1>3, <2>1
    <2> QED
        BY <1>3, <2>2, <2>3
<1>8. ASSUME NEW k \in 1..Len(c), c[k].do = "destroy"
      PROVE  k = Len(c)
    <2>1. k \in (n + 1)..Len(c)
        BY <1>1, <1>2, <1>3, <1>8
    <2>2. k - n = Len(q)
        BY <1>2, <1>3, <1>8, <2>1 DEF Prepared
    <2> QED
        BY <1>1, <1>2, <1>3, <2>2
<1>9. ASSUME NEW k \in 1..Len(c), c[k] = Write("deleting")
      PROVE  k \in 2..Len(c) /\ c[k - 1].do = "driverRemove"
    <2>1. k \in (n + 1)..Len(c) /\ k - n \in 1..Len(q) /\ q[k - n] = Write("deleting")
        BY <1>1, <1>2, <1>3, <1>9
    <2>2. k - n \in 2..Len(q)
        BY <1>1, <1>2, <1>4, <2>1, EmptySeq
    <2>3. q[(k - n) - 1].do = "driverRemove"
        BY <1>2, <2>1, <2>2 DEF Prepared
    <2>4. k - 1 \in (n + 1)..Len(c) /\ (k - 1) - n = (k - n) - 1
        BY <1>1, <1>2, <1>3, <2>1, <2>2
    <2> QED
        BY <1>1, <1>3, <2>1, <2>2, <2>3, <2>4
<1>10. c # <<>> => c[1] # Write("deleting")
    BY <1>3, <1>9, EmptySeq, LenProperties
<1>11. Prepared(c)
    BY <1>6, <1>7, <1>8, <1>9 DEF Prepared
<1>12. \A k \in 1..Len(c) : c[k].do = "launch" => k > 5
    BY <1>1, <1>5
<1> QED
    BY <1>3, <1>10, <1>11, <1>12 DEF Whole, c

\* The steps that start a container are prepared.
LEMMA LaunchIsPrepared ==
    ASSUME NEW s \in Live, NEW x \in {Do("reload")} \cup {Mark(t) : t \in Transitions},
           NEW b \in {Clear, Do("clearIfSuspended")}
    PROVE  Whole(<<Write(s), x>> \o StartContainer \o <<b>>)
<1>. DEFINE w == <<Write(s), x>>
            d == w \o StartContainer
            c == d \o <<b>>
<1>1. /\ x \in Step /\ x.do \in {"reload", "mark"}
      /\ b \in Step /\ b.do \in {"clear", "clearIfSuspended"}
      /\ Write(s) \in Step /\ Write(s).do = "write" /\ Write(s) # Write("deleting")
      /\ Write("suspended") \in Step /\ Write("suspended").do = "write"
      /\ Write("suspended") # Write("deleting")
      /\ Write("deleting").do = "write"
    BY StepTypes DEF Live, RowStates, PlainSteps, Write
<1>2. w \in Seq(Step) /\ Len(w) = 2 /\ w[1] = Write(s) /\ w[2] = x /\ <<b>> \in Seq(Step)
    BY <1>1
<1>3. /\ StartContainer \in Seq(Step) /\ Len(StartContainer) = 8
      /\ StartContainer[1] = Do("admit") /\ StartContainer[2] = Do("count")
      /\ StartContainer[3] = Do("bill") /\ StartContainer[4] = Do("launch")
      /\ StartContainer[5] = Do("settle") /\ StartContainer[6] = Write("suspended")
      /\ StartContainer[7] = Do("count") /\ StartContainer[8] = Do("lateUnbill")
    BY ProgramParts DEF StartContainer
<1>. HIDE DEF w
<1>4. /\ d \in Seq(Step) /\ Len(d) = 10
      /\ \A i \in 1..2 : d[i] = w[i]
      /\ \A i \in 1..8 : d[i + 2] = StartContainer[i]
    <2>1. /\ d \in Seq(Step)
          /\ Len(d) = Len(w) + Len(StartContainer)
          /\ \A i \in 1..(Len(w) + Len(StartContainer)) :
                d[i] = IF i <= Len(w) THEN w[i] ELSE StartContainer[i - Len(w)]
        BY <1>2, <1>3, ConcatProperties
    <2>. HIDE DEF d
    <2>2. \A i \in 1..8 : i + 2 \in 1..10 /\ (i + 2) - 2 = i /\ ~(i + 2 <= 2)
        OBVIOUS
    <2> QED
        BY <1>2, <1>3, <2>1, <2>2
<1>. HIDE DEF d
<1>5. /\ c \in Seq(Step) /\ Len(c) = 11 /\ c[11] = b
      /\ \A i \in 1..10 : c[i] = d[i]
    <2>1. Len(<<b>>) = 1 /\ <<b>>[1] = b
        OBVIOUS
    <2>2. /\ c \in Seq(Step) /\ Len(c) = Len(d) + Len(<<b>>)
          /\ \A i \in 1..(Len(d) + Len(<<b>>)) :
                c[i] = IF i <= Len(d) THEN d[i] ELSE <<b>>[i - Len(d)]
        BY <1>2, <1>4, ConcatProperties
    <2>. HIDE DEF c
    <2> QED
        BY <1>4, <2>1, <2>2
<1>. HIDE DEF c
<1>6. /\ c[1] = Write(s) /\ c[2] = x /\ c[3] = Do("admit") /\ c[4] = Do("count")
      /\ c[5] = Do("bill") /\ c[6] = Do("launch") /\ c[7] = Do("settle")
      /\ c[8] = Write("suspended") /\ c[9] = Do("count") /\ c[10] = Do("lateUnbill") /\ c[11] = b
    <2>1. c[1] = w[1] /\ c[2] = w[2]
        BY <1>4, <1>5
    <2>2. \A i \in 1..8 : c[i + 2] = StartContainer[i]
        BY <1>4, <1>5
    <2>3. /\ c[1 + 2] = StartContainer[1] /\ c[2 + 2] = StartContainer[2]
          /\ c[3 + 2] = StartContainer[3] /\ c[4 + 2] = StartContainer[4]
        BY <2>2
    <2>4. /\ c[5 + 2] = StartContainer[5] /\ c[6 + 2] = StartContainer[6]
          /\ c[7 + 2] = StartContainer[7] /\ c[8 + 2] = StartContainer[8]
        BY <2>2
    <2> QED
        BY <1>2, <1>3, <1>5, <2>1, <2>3, <2>4
<1>7. \A k \in 1..11 : /\ c[k].do # "destroy" /\ c[k] # Write("deleting")
                       /\ c[k].do = "launch" => k = 6
                       /\ k < 6 => c[k].do \notin {"launch", "settle"}
    <2>1. \A k \in 1..11 : \/ k = 1 \/ k = 2 \/ k = 3 \/ k = 4 \/ k = 5 \/ k = 6
                           \/ k = 7 \/ k = 8 \/ k = 9 \/ k = 10 \/ k = 11
        OBVIOUS
    <2>2. \A k \in PlainSteps : Do(k).do = k
        BY StepTypes
    <2>3. \A k \in 1..11 : c[k].do = "write" \/ c[k] # Write("deleting")
        BY <1>1
    <2>4. /\ c[1].do = "write" /\ c[2].do \in {"reload", "mark"} /\ c[3].do = "admit"
          /\ c[4].do = "count" /\ c[5].do = "bill" /\ c[6].do = "launch" /\ c[7].do = "settle"
          /\ c[8].do = "write" /\ c[9].do = "count" /\ c[10].do = "lateUnbill"
          /\ c[11].do \in {"clear", "clearIfSuspended"}
        BY <1>1, <1>6, <2>2 DEF PlainSteps
    <2>5. c[1] # Write("deleting") /\ c[8] # Write("deleting")
        BY <1>1, <1>6
    <2> QED
        BY <1>1, <2>1, <2>4, <2>5
<1>8. \A i \in 1..5 : c[6 - i] \in Before[i]
    <2>1. c[5] \in Before[1] /\ c[4] \in Before[2] /\ c[3] \in Before[3] /\ c[2] \in Before[4]
          /\ c[1] \in Before[5]
        BY <1>6 DEF Before
    <2>2. \A i \in 1..5 : \/ (i = 1 /\ 6 - i = 5) \/ (i = 2 /\ 6 - i = 4) \/ (i = 3 /\ 6 - i = 3)
                          \/ (i = 4 /\ 6 - i = 2) \/ (i = 5 /\ 6 - i = 1)
        OBVIOUS
    <2> QED
        BY <2>1, <2>2
<1>9. Prepared(c)
    <2>1. \A k \in 1..11 : c[k].do = "launch" =>
              \A i \in 1..5 : i < k => c[k - i] \in Before[i]
        BY <1>7, <1>8
    <2>2. \A k \in 1..11 : c[k].do = "launch" \/ c[k] = Write("deleting") =>
              \A j \in 1..(k - 1) : c[j].do \notin {"launch", "settle"}
        BY <1>7
    <2> QED
        BY <1>5, <1>7, <2>1, <2>2 DEF Prepared
<1> QED
    BY <1>5, <1>7, <1>9 DEF Whole, c, d, w

LEMMA ResumeIsPrepared ==
    ASSUME NEW s \in Live
    PROVE  Whole(Resume(s))
<1>1. Do("reload") \in {Do("reload")} \cup {Mark(t) : t \in Transitions}
    OBVIOUS
<1> QED
    BY <1>1, LaunchIsPrepared DEF Resume

LEMMA PlainMembers ==
    /\ \A k \in PlainSteps \ {"launch", "settle", "destroy"} : Do(k) \in Plain
    /\ \A t \in Transitions : Mark(t) \in Plain
    /\ \A s \in RowStates \ {"deleting"} : Write(s) \in Plain
    /\ Clear \in Plain
<1>1. Write("deleting").do = "write" /\ Write("deleting").arg = "deleting"
    BY DEF Write
<1>2. \A k \in PlainSteps \ {"launch", "settle", "destroy"} : Do(k) \in Plain
    BY <1>1, StepTypes DEF Plain, PlainSteps
<1>3. \A t \in Transitions : Mark(t) \in Plain
    BY <1>1, StepTypes DEF Plain
<1>4. \A s \in RowStates \ {"deleting"} : Write(s) \in Plain
    BY <1>1, StepTypes DEF Plain
<1>5. Clear \in Plain
    BY <1>1, StepTypes DEF Plain
<1> QED
    BY <1>2, <1>3, <1>4, <1>5

LEMMA PlainJoins == \A a, b \in Seq(Plain) : a \o b \in Seq(Plain)
BY ConcatProperties

\* The steps with which a handler frees the container.
LEMMA PlainParts ==
    /\ StopContainer \in Seq(Plain) /\ StopContainerSkipBilling \in Seq(Plain)
    /\ <<Clear>> \in Seq(Plain) /\ <<Do("import")>> \in Seq(Plain)
    /\ \A t \in Transitions : <<Mark(t)>> \in Seq(Plain)
BY PlainMembers DEF StopContainer, StopContainerSkipBilling, PlainSteps, RowStates

LEMMA StartProgramIsWhole ==
    ASSUME NEW s \in RowStates
    PROVE  Whole(StartProgram(s)) /\ Whole(RestartStackProgram(s))
<1>. DEFINE w == <<Write("running"), Mark("starting")>>
            c == <<Do("check")>>
<1>1. "running" \in Live /\ Mark("starting") \in {Do("reload")} \cup {Mark(t) : t \in Transitions}
    BY DEF Live, Transitions
<1>2. Do("check") \in Plain /\ Do("startFlows") \in Plain /\ Clear \in Plain
      /\ Mark("starting") \in Plain /\ Write("running") \in Plain
    BY PlainMembers DEF PlainSteps, Transitions, RowStates
<1>3. /\ w \in Seq(Step) /\ StartContainer \in Seq(Step) /\ <<Clear>> \in Seq(Step)
      /\ <<Do("clearIfSuspended")>> \in Seq(Step) /\ c \in Seq(Step)
    BY ProgramParts, StepTypes DEF PlainSteps, Transitions, RowStates
<1>4. <<Do("check"), Write("running"), Mark("starting")>> = c \o w
    <2>1. /\ Len(c \o w) = 3 /\ (c \o w)[1] = Do("check") /\ (c \o w)[2] = Write("running")
          /\ (c \o w)[3] = Mark("starting") /\ c \o w \in Seq(Step)
        BY <1>3, ConcatProperties
    <2>2. <<Do("check"), Write("running"), Mark("starting")>> \in Seq(Step)
        BY StepTypes DEF PlainSteps, Transitions, RowStates
    <2> QED
        BY <2>1, <2>2, SeqEqual
<1>5. Whole(w \o StartContainer \o <<Do("clearIfSuspended")>>) /\ Whole(w \o StartContainer \o <<Clear>>)
    BY <1>1, LaunchIsPrepared
<1>6. c \in Seq(Plain)
    BY <1>2
<1>7. ASSUME s = "suspended" PROVE Whole(StartProgram(s))
    <2>1. (c \o w) \o StartContainer \o <<Do("clearIfSuspended")>>
             = c \o (w \o StartContainer \o <<Do("clearIfSuspended")>>)
        <3>. HIDE DEF c, w
        <3>1. (c \o w) \o StartContainer = c \o (w \o StartContainer)
              /\ w \o StartContainer \in Seq(Step)
            BY <1>3, ConcatAssociative, Joins
        <3> QED
            BY <1>3, <3>1, ConcatAssociative
    <2>2. Whole((c \o w) \o StartContainer \o <<Do("clearIfSuspended")>>)
        BY <1>5, <1>6, <2>1, AfterPlain
    <2> QED
        BY <1>4, <1>7, <2>2 DEF StartProgram
<1>8. ASSUME s # "suspended" PROVE Whole(StartProgram(s))
    <2>1. <<Mark("starting"), Write("running"), Do("startFlows"), Clear>> \in Seq(Plain)
        BY <1>2
    <2> QED
        BY <1>8, <2>1, PlainIsWhole DEF StartProgram
<1>9. Whole(RestartStackProgram(s))
    <2>. DEFINE p == IF s = "suspended" THEN <<>>
                     ELSE <<Mark("suspending")>> \o StopContainer \o <<Clear>>
    <2>1. p \in Seq(Plain)
        <3>1. <<Mark("suspending")>> \o StopContainer \o <<Clear>> \in Seq(Plain)
            BY PlainParts, PlainJoins DEF Transitions
        <3>2. <<>> \in Seq(Plain)
            OBVIOUS
        <3> QED
            BY <3>1, <3>2
    <2>2. p \in Seq(Step)
        BY <2>1, PlainSequence
    <2>3. p \o w \o StartContainer \o <<Clear>> = p \o (w \o StartContainer \o <<Clear>>)
        <3>. HIDE DEF p, w
        <3>1. (p \o w) \o StartContainer = p \o (w \o StartContainer)
              /\ w \o StartContainer \in Seq(Step)
            BY <1>3, <2>2, ConcatAssociative, Joins
        <3> QED
            BY <1>3, <2>2, <3>1, ConcatAssociative
    <2>4. Whole(p \o w \o StartContainer \o <<Clear>>)
        BY <1>5, <2>1, <2>3, AfterPlain
    <2> QED
        BY <2>4 DEF RestartStackProgram
<1> QED
    BY <1>7, <1>8, <1>9

LEMMA DeleteProgramIsWhole ==
    ASSUME NEW s \in RowStates
    PROVE  Whole(DeleteProgram(s))
<1>1. /\ Do("driverRemove") \in Step /\ Do("destroy") \in Step /\ Do("count") \in Step
      /\ Do("unbill") \in Step /\ Write("deleting") \in Step
      /\ Do("driverRemove").do = "driverRemove" /\ Do("destroy").do = "destroy"
      /\ Do("count").do = "count" /\ Do("unbill").do = "unbill" /\ Write("deleting").do = "write"
    BY StepTypes DEF PlainSteps, RowStates
<1>2. CASE s = "suspended"
    <2>. DEFINE c == <<Do("driverRemove")>> \o <<>> \o <<Do("destroy")>>
    <2>1. /\ c \in Seq(Step) /\ Len(c) = 2 /\ c[1] = Do("driverRemove") /\ c[2] = Do("destroy")
        <3>1. <<Do("driverRemove")>> \o <<>> = <<Do("driverRemove")>>
            BY <1>1, ConcatEmptySeq
        <3>2. <<Do("driverRemove")>> \in Seq(Step) /\ <<Do("destroy")>> \in Seq(Step)
            BY <1>1
        <3> QED
            BY <3>1, <3>2, ConcatProperties
    <2>. HIDE DEF c
    <2>2. \A k \in 1..2 : k = 1 \/ k = 2
        OBVIOUS
    <2>3. Prepared(c)
        BY <1>1, <2>1, <2>2 DEF Prepared
    <2>4. Whole(c)
        BY <1>1, <2>1, <2>2, <2>3 DEF Whole
    <2> QED
        BY <1>2, <2>4 DEF DeleteProgram, c
<1>3. CASE s # "suspended"
    <2>. DEFINE a == <<Do("driverRemove")>>
                m == <<Write("deleting"), Do("count"), Do("unbill")>>
                z == <<Do("destroy")>>
                d == a \o m
                c == d \o z
    <2>1. /\ a \in Seq(Step) /\ m \in Seq(Step) /\ z \in Seq(Step)
          /\ Len(a) = 1 /\ Len(m) = 3 /\ Len(z) = 1 /\ a[1] = Do("driverRemove")
          /\ m[1] = Write("deleting") /\ m[2] = Do("count") /\ m[3] = Do("unbill")
          /\ z[1] = Do("destroy")
        BY <1>1
    <2>. HIDE DEF a, m, z
    <2>2. /\ d \in Seq(Step) /\ Len(d) = 4
          /\ d[1] = a[1] /\ d[2] = m[1] /\ d[3] = m[2] /\ d[4] = m[3]
        <3>1. /\ d \in Seq(Step) /\ Len(d) = Len(a) + Len(m)
              /\ \A i \in 1..(Len(a) + Len(m)) : d[i] = IF i <= Len(a) THEN a[i] ELSE m[i - Len(a)]
            BY <2>1, ConcatProperties
        <3>. HIDE DEF d
        <3> QED
            BY <2>1, <3>1
    <2>. HIDE DEF d
    <2>3. /\ c \in Seq(Step) /\ Len(c) = 5
          /\ c[1] = d[1] /\ c[2] = d[2] /\ c[3] = d[3] /\ c[4] = d[4] /\ c[5] = z[1]
        <3>1. /\ c \in Seq(Step) /\ Len(c) = Len(d) + Len(z)
              /\ \A i \in 1..(Len(d) + Len(z)) : c[i] = IF i <= Len(d) THEN d[i] ELSE z[i - Len(d)]
            BY <2>1, <2>2, ConcatProperties
        <3>. HIDE DEF c
        <3> QED
            BY <2>1, <2>2, <3>1
    <2>. HIDE DEF c
    <2>4. \A k \in 1..5 : k = 1 \/ k = 2 \/ k = 3 \/ k = 4 \/ k = 5
        OBVIOUS
    <2>5. /\ c[1].do = "driverRemove" /\ c[2] = Write("deleting") /\ c[3].do = "count"
          /\ c[4].do = "unbill" /\ c[5].do = "destroy"
        BY <1>1, <2>1, <2>2, <2>3
    <2>6. \A k \in 1..5 : /\ c[k].do # "launch"
                          /\ c[k].do = "destroy" => k = 5
                          /\ c[k] = Write("deleting") => k = 2
        BY <1>1, <2>4, <2>5
    <2>7. Prepared(c)
        <3>1. c[2 - 1].do = "driverRemove"
            BY <2>5
        <3> QED
            BY <2>3, <2>6, <3>1 DEF Prepared
    <2>8. Whole(c)
        BY <2>3, <2>6, <2>7 DEF Whole
    <2> QED
        BY <1>3, <2>8 DEF DeleteProgram, a, m, z, d, c
<1> QED
    BY <1>2, <1>3

\* A program that would put back 'deleting' stops the container before.
LEMMA DoomedAfter ==
    ASSUME NEW a \in Seq(Step), \A i \in 1..Len(a) : a[i].do \in {"mark", "write", "flagDeploy"},
           NEW b \in Seq(Step), Doomed(b)
    PROVE  Doomed(a \o b)
<1>1. Len(a) \in Nat /\ Len(b) \in Nat
    BY LenProperties
<1>2. PICK j \in 1..Len(b) : /\ b[j].do = "driverStop"
                             /\ \A i \in 1..(j - 1) : b[i].do \in {"mark", "write", "flagDeploy"}
    BY DEF Doomed
<1>3. /\ Len(a \o b) = Len(a) + Len(b)
      /\ \A i \in 1..(Len(a) + Len(b)) : (a \o b)[i] = IF i <= Len(a) THEN a[i] ELSE b[i - Len(a)]
    BY ConcatProperties
<1>. DEFINE c == a \o b
<1>. HIDE DEF c
<1>4. Len(c) = Len(a) + Len(b)
      /\ \A i \in 1..(Len(a) + Len(b)) : c[i] = IF i <= Len(a) THEN a[i] ELSE b[i - Len(a)]
    BY <1>3 DEF c
<1>5. Len(a) + j \in 1..Len(c) /\ c[Len(a) + j].do = "driverStop"
    <2>1. Len(a) + j \in 1..Len(c) /\ ~(Len(a) + j <= Len(a)) /\ (Len(a) + j) - Len(a) = j
        BY <1>1, <1>4
    <2> QED
        BY <1>2, <1>4, <2>1
<1>6. ASSUME NEW i \in 1..((Len(a) + j) - 1)
      PROVE  c[i].do \in {"mark", "write", "flagDeploy"}
    <2>1. CASE i <= Len(a)
        <3>1. i \in 1..Len(a) /\ c[i] = a[i]
            BY <1>1, <1>4, <2>1
        <3> QED
            BY <3>1
    <2>2. CASE ~(i <= Len(a))
        <3>1. i \in 1..(Len(a) + Len(b)) /\ i - Len(a) \in 1..(j - 1)
            BY <1>1, <2>2
        <3>2. c[i] = b[i - Len(a)]
            BY <1>4, <2>2, <3>1
        <3> QED
            BY <1>2, <3>1, <3>2
    <2> QED
        BY <2>1, <2>2
<1> QED
    BY <1>5, <1>6 DEF Doomed, c

LEMMA DoomedThen ==
    ASSUME NEW p \in Seq(Step), Doomed(p), NEW q \in Seq(Step)
    PROVE  Doomed(p \o q)
<1>1. Len(p) \in Nat /\ Len(q) \in Nat
    BY LenProperties
<1>2. Len(p \o q) = Len(p) + Len(q) /\ \A i \in 1..Len(p) : (p \o q)[i] = p[i]
    BY <1>1, ConcatProperties
<1>3. PICK j \in 1..Len(p) : /\ p[j].do = "driverStop"
                             /\ \A i \in 1..(j - 1) : p[i].do \in {"mark", "write", "flagDeploy"}
    BY DEF Doomed
<1>4. j \in 1..Len(p \o q) /\ \A i \in 1..(j - 1) : i \in 1..Len(p)
    BY <1>1, <1>2, <1>3
<1> QED
    BY <1>2, <1>3, <1>4 DEF Doomed

LEMMA StopIsDoomed == Doomed(StopContainer) /\ Doomed(StopContainerSkipBilling)
<1>1. Write("suspended").do = "write" /\ Do("driverStop").do = "driverStop"
    BY DEF Write, Do
<1>2. \A i \in 1..(2 - 1) : i = 1
    OBVIOUS
<1>3. /\ Len(StopContainer) = 4 /\ StopContainer[1] = Write("suspended")
      /\ StopContainer[2] = Do("driverStop")
      /\ Len(StopContainerSkipBilling) = 2 /\ StopContainerSkipBilling[1] = Write("suspended")
      /\ StopContainerSkipBilling[2] = Do("driverStop")
    BY DEF StopContainer, StopContainerSkipBilling
<1>4. 2 \in 1..4 /\ 2 \in 1..2
    OBVIOUS
<1> QED
    BY <1>1, <1>2, <1>3, <1>4 DEF Doomed

\* A container is stopped, things are done, and it is started again in its former state.
LEMMA Replacing ==
    ASSUME NEW s \in RowStates, s # "suspended", NEW t \in Transitions,
           NEW q \in {StopContainer, StopContainerSkipBilling}
    PROVE  /\ \/ Whole(<<Mark(t)>> \o q \o Resume(s)) \/ Doomed(<<Mark(t)>> \o q \o Resume(s))
           /\ \/ Whole(<<Mark(t)>> \o q \o <<Do("import")>> \o Resume(s))
              \/ Doomed(<<Mark(t)>> \o q \o <<Do("import")>> \o Resume(s))
           /\ \/ Whole(q \o <<Do("import")>> \o Resume(s))
              \/ Doomed(q \o <<Do("import")>> \o Resume(s))
           /\ s # "deleting" => /\ Whole(<<Mark(t)>> \o q \o Resume(s))
                                /\ Whole(<<Mark(t)>> \o q \o <<Do("import")>> \o Resume(s))
                                /\ Whole(q \o <<Do("import")>> \o Resume(s))
<1>. DEFINE m == <<Mark(t)>>
            i == <<Do("import")>>
<1>1. m \in Seq(Plain) /\ q \in Seq(Plain) /\ i \in Seq(Plain)
    BY PlainParts
<1>2. m \in Seq(Step) /\ q \in Seq(Step) /\ i \in Seq(Step) /\ Resume(s) \in Seq(Step)
    BY <1>1, PlainSequence, ProgramParts
<1>3. \A n \in 1..Len(m) : m[n].do \in {"mark", "write", "flagDeploy"}
    BY DEF Mark
<1>. HIDE DEF m, i
<1>4. /\ m \o q \in Seq(Plain) /\ m \o q \o i \in Seq(Plain) /\ q \o i \in Seq(Plain)
      /\ m \o q \in Seq(Step) /\ m \o q \o i \in Seq(Step) /\ q \o i \in Seq(Step)
    BY <1>1, PlainJoins, PlainSequence
<1>5. CASE s = "deleting"
    <2>1. Doomed(q)
        BY StopIsDoomed
    <2>2. Doomed(m \o q) /\ Doomed(q \o i)
        BY <1>2, <1>3, <2>1, DoomedAfter, DoomedThen
    <2>3. Doomed(m \o q \o i)
        BY <1>2, <1>4, <2>2, DoomedThen
    <2>4. Doomed(m \o q \o Resume(s)) /\ Doomed(m \o q \o i \o Resume(s)) /\ Doomed(q \o i \o Resume(s))
        BY <1>2, <1>4, <2>2, <2>3, DoomedThen
    <2> QED
        BY <1>5, <2>4 DEF m, i
<1>6. CASE s # "deleting"
    <2>1. Whole(Resume(s))
        BY <1>6, ResumeIsPrepared DEF RowStates, Live
    <2>2. Whole(m \o q \o Resume(s)) /\ Whole(m \o q \o i \o Resume(s)) /\ Whole(q \o i \o Resume(s))
        BY <1>4, <2>1, AfterPlain
    <2> QED
        BY <1>6, <2>2 DEF m, i
<1> QED
    BY <1>5, <1>6

LEMMA ReplacingPrograms ==
    ASSUME NEW s \in RowStates
    PROVE  /\ \A q \in {StopContainer, StopContainerSkipBilling} :
                  Whole(UpdateProgram(s, q)) \/ (s = "deleting" /\ Doomed(UpdateProgram(s, q)))
           /\ Whole(ExportProgram(s)) \/ (s = "deleting" /\ Doomed(ExportProgram(s)))
           /\ Whole(CustomHostnameProgram(s))
           /\ Whole(HAProgram(s)) \/ (s = "deleting" /\ Doomed(HAProgram(s)))
           /\ Whole(UpgradeStackProgram(s)) \/ (s = "deleting" /\ Doomed(UpgradeStackProgram(s)))
<1>1. /\ Mark("starting") \in Plain /\ Mark("importing") \in Plain /\ Do("import") \in Plain
      /\ Clear \in Plain /\ Do("flagDeploy") \in Plain
      /\ "starting" \in Transitions
    BY PlainMembers DEF PlainSteps, Transitions
<1>2. ASSUME NEW q \in {StopContainer, StopContainerSkipBilling}
      PROVE  Whole(UpdateProgram(s, q)) \/ (s = "deleting" /\ Doomed(UpdateProgram(s, q)))
    <2>1. CASE s = "suspended"
        <3>1. <<Mark("starting"), Do("import"), Clear>> \in Seq(Plain)
            BY <1>1
        <3> QED
            BY <2>1, <3>1, PlainIsWhole DEF UpdateProgram
    <2>2. CASE s # "suspended"
        BY <1>1, <2>2, Replacing DEF UpdateProgram
    <2> QED
        BY <2>1, <2>2
<1>3. Whole(ExportProgram(s)) \/ (s = "deleting" /\ Doomed(ExportProgram(s)))
    <2>. DEFINE m == <<Mark("importing"), Do("flagDeploy")>>
                z == <<Do("import"), Clear>>
                n == StopContainer \o <<Do("import")>> \o Resume(s)
    <2>1. m \in Seq(Plain) /\ z \in Seq(Plain)
        BY <1>1
    <2>2. m \in Seq(Step) /\ \A i \in 1..Len(m) : m[i].do \in {"mark", "write", "flagDeploy"}
        <3>1. Mark("importing").do = "mark" /\ Do("flagDeploy").do = "flagDeploy"
            BY DEF Mark, Do
        <3>2. Len(m) = 2 /\ m[1] = Mark("importing") /\ m[2] = Do("flagDeploy")
            OBVIOUS
        <3>3. \A i \in 1..2 : i = 1 \/ i = 2
            OBVIOUS
        <3> QED
            BY <2>1, <3>1, <3>2, <3>3, PlainSequence
    <2>3. CASE s = "suspended"
        BY <2>1, <2>3, PlainIsWhole, PlainJoins DEF ExportProgram
    <2>4. CASE s # "suspended"
        <3>1. n \in Seq(Step)
            BY <1>1, ProgramParts, Joins, PlainParts, PlainSequence
        <3>2. Whole(n) \/ (s = "deleting" /\ Doomed(n))
            BY <1>1, <2>4, Replacing
        <3>. HIDE DEF m, n
        <3>3. Whole(m \o n) \/ (s = "deleting" /\ Doomed(m \o n))
            BY <2>1, <2>2, <3>1, <3>2, AfterPlain, DoomedAfter
        <3> QED
            BY <2>4, <3>3 DEF ExportProgram, m, n
    <2> QED
        BY <2>3, <2>4
<1>4. Whole(CustomHostnameProgram(s))
    <2>. DEFINE m == <<Mark("starting")>>
    <2>1. m \in Seq(Plain) /\ m \in Seq(Step)
        <3>1. m \in Seq(Plain)
            BY <1>1
        <3>. HIDE DEF m
        <3> QED
            BY <3>1, PlainSequence
    <2>2. CASE s = "running"
        <3>1. StopContainerSkipBilling \in Seq(Plain) /\ Whole(Resume("running"))
            BY PlainParts, ResumeIsPrepared DEF Live
        <3>2. Whole(StopContainerSkipBilling \o Resume("running"))
            BY <3>1, AfterPlain
        <3>3. Whole(m \o (StopContainerSkipBilling \o Resume("running")))
            BY <2>1, <3>2, AfterPlain
        <3> QED
            BY <2>2, <3>3 DEF CustomHostnameProgram
    <2>3. CASE s # "running"
        <3>1. m \o <<>> = m
            BY <2>1, ConcatEmptySeq
        <3> QED
            BY <2>1, <2>3, <3>1, PlainIsWhole DEF CustomHostnameProgram
    <2> QED
        BY <2>2, <2>3
<1>5. Whole(<<>>)
    <2>1. <<>> \in Seq(Plain)
        OBVIOUS
    <2> QED
        BY <2>1, PlainIsWhole
<1>6. Whole(HAProgram(s)) \/ (s = "deleting" /\ Doomed(HAProgram(s)))
    BY <1>1, <1>5, Replacing DEF HAProgram
<1>7. Whole(UpgradeStackProgram(s)) \/ (s = "deleting" /\ Doomed(UpgradeStackProgram(s)))
    BY <1>1, <1>5, Replacing DEF UpgradeStackProgram
<1> QED
    BY <1>2, <1>3, <1>4, <1>6, <1>7

\* The programs that launch nothing.
LEMMA PlainPrograms ==
    ASSUME NEW s \in RowStates
    PROVE  /\ StopProgram(s) \in Seq(Plain) /\ RestartProgram(s) \in Seq(Plain)
           /\ SuspendProgram(s) \in Seq(Plain) /\ RollbackProgram(s) \in Seq(Plain)
           /\ DeployProgram(s) \in Seq(Plain) /\ ImportProgram(s) \in Seq(Plain)
           /\ ScheduledRestartProgram(s) \in Seq(Plain)
           /\ LicenseSuspendProgram(s) \in Seq(Plain) /\ BillingDeletedProgram(s) \in Seq(Plain)
           /\ <<Do("report")>> \in Seq(Plain) /\ <<Do("details"), Do("noteLatest")>> \in Seq(Plain)
<1>1. /\ \A k \in {"import", "flagDeploy", "reload", "restartFlows", "stopFlows", "bounce",
                    "unbillTeamless", "report", "details", "noteLatest"} : Do(k) \in Plain
      /\ Write("running") \in Plain /\ Write("stopped") \in Plain /\ Clear \in Plain
      /\ \A t \in {"stopping", "restarting", "suspending", "rollback", "importing"} : Mark(t) \in Plain
    BY PlainMembers DEF PlainSteps, RowStates, Transitions
<1>2. <<>> \in Seq(Plain)
    OBVIOUS
<1>3. StopProgram(s) \in Seq(Plain) /\ RestartProgram(s) \in Seq(Plain)
    BY <1>1, <1>2 DEF StopProgram, RestartProgram
<1>4. SuspendProgram(s) \in Seq(Plain) /\ LicenseSuspendProgram(s) \in Seq(Plain)
      /\ BillingDeletedProgram(s) \in Seq(Plain)
    <2>1. <<Mark("suspending")>> \in Seq(Plain) /\ <<Do("unbillTeamless"), Clear>> \in Seq(Plain)
        BY <1>1
    <2> QED
        BY <1>2, <2>1, PlainParts, PlainJoins
           DEF SuspendProgram, LicenseSuspendProgram, BillingDeletedProgram
<1>5. RollbackProgram(s) \in Seq(Plain) /\ DeployProgram(s) \in Seq(Plain)
      /\ ImportProgram(s) \in Seq(Plain)
    <2>1. /\ <<Mark("rollback"), Do("import")>> \in Seq(Plain)
          /\ <<Mark("restarting"), Do("restartFlows"), Do("bounce")>> \in Seq(Plain)
          /\ <<Mark("importing"), Do("flagDeploy"), Do("import")>> \in Seq(Plain)
          /\ <<Do("reload"), Do("restartFlows"), Clear, Do("bounce")>> \in Seq(Plain)
          /\ <<Mark("restarting"), Write("running"), Do("restartFlows"), Clear, Do("bounce")>> \in Seq(Plain)
        BY <1>1
    <2> QED
        BY <1>2, <2>1, PlainParts, PlainJoins DEF RollbackProgram, DeployProgram, ImportProgram
<1>6. ScheduledRestartProgram(s) \in Seq(Plain)
    BY <1>1, <1>2 DEF ScheduledRestartProgram
<1>7. <<Do("report")>> \in Seq(Plain) /\ <<Do("details"), Do("noteLatest")>> \in Seq(Plain)
    BY <1>1
<1> QED
    BY <1>3, <1>4, <1>5, <1>6, <1>7

LEMMA ProgramIsWhole ==
    ASSUME NEW o \in Ops, NEW s \in RowStates
    PROVE  Whole(Program(o, s)) \/ (s = "deleting" /\ Doomed(Program(o, s)))
<1>1. CASE o \in {"start", "restartStack", "delete", "update", "updateStack", "export",
                 "customHostname", "ha", "upgradeStack"}
    BY <1>1, StartProgramIsWhole, DeleteProgramIsWhole, ReplacingPrograms DEF Program
<1>2. CASE o \notin {"start", "restartStack", "delete", "update", "updateStack", "export",
                    "customHostname", "ha", "upgradeStack"}
    <2>1. Program(o, s) \in Seq(Plain)
        BY <1>2, PlainPrograms DEF Program
    <2> QED
        BY <2>1, PlainIsWhole
<1> QED
    BY <1>1, <1>2

-----------------------------------------------------------------------------
(* What a step does to the preparation *)

\* The handler breaks off: it has nothing left, or clears the transition, or destroys the row of a
\* container that is gone.
BreaksOff(r) ==
    /\ todo[r][1].do # "launch"
    /\ row' \in {row, "suspended"}
    /\ \/ todo'[r] \in {<<>>, <<Clear>>}
       \/ todo'[r] = <<Do("destroy")>> /\ box = "none"

\* The handler goes on, with the effect that its step has on the preparation of a launch.
GoesOn(r) ==
    /\ \E n \in {1, 2, 4} : /\ todo'[r] = Rest(todo[r], n)
                            /\ n = 2 => todo[r][1].do = "launch"
                            /\ n = 4 => todo[r][1].do = "settle"
    /\ row' = IF todo[r][1].do = "write" THEN todo[r][1].arg
              ELSE IF todo[r][1].do = "destroy" THEN "gone" ELSE row
    /\ counted'[r] = IF todo[r][1].do = "count" THEN row \in Live ELSE counted[r]
    /\ todo[r][1].do = "bill" /\ subscribed => billed' = counted[r]
    /\ todo[r][1].do = "driverRemove" => box' = "none"
    /\ todo[r][1].do = "driverStop" => box # "none"

\* What any step of a handler does.
Effects(r) ==
    /\ row' # "gone" => copy'[r] = row'
    /\ subscribed' = subscribed
    /\ box = "none" /\ todo[r][1].do # "launch" => box' = "none"
    /\ BreaksOff(r) \/ GoesOn(r)

\* Stripe does not refuse the quantity.
Accepted == "stripeUpdate" \notin Faults

LEMMA AdvanceHasEffects ==
    ASSUME TypeOK, NEW r \in Req, Accepted, copy[r] = row, row # "gone", Advance(r)
    PROVE  Effects(r)
<1>1. /\ todo \in [Req -> Seq(Step)] /\ counted \in [Req -> BOOLEAN]
      /\ copy \in [Req -> RowStates \cup {"none"}] /\ box \in BoxStates
    BY DEF TypeOK
<1>2. /\ \A n : todo' = [todo EXCEPT ![r] = Rest(@, n)] => todo'[r] = Rest(todo[r], n)
      /\ \A q : todo' = [todo EXCEPT ![r] = q] => todo'[r] = q
      /\ Proceed(r) => todo'[r] = Rest(todo[r], 1)
      /\ Throw(r) => todo'[r] \in {<<>>, <<Clear>>}
    BY <1>1 DEF Proceed, Throw, Handler
<1>3. \A s : Save(r, s) => copy'[r] = s /\ row' = s
    BY <1>1 DEF Save
<1>4. Recount(r) => (subscribed => billed' = counted[r])
    BY DEF Recount, Accepted
<1>. USE DEF AtStep, Effects
<1>5. CASE SetInflightState(r) \/ ClearInflightState(r) \/ ClearIfSuspended(r) \/ SetInDeploy(r)
    BY <1>2, <1>5 DEF SetInflightState, ClearInflightState, ClearIfSuspended, SetInDeploy, GoesOn
<1>6. CASE SaveState(r)
    BY <1>2, <1>3, <1>6 DEF SaveState, GoesOn
<1>7. CASE CheckStart(r)
    BY <1>2, <1>7 DEF CheckStart, GoesOn, BreaksOff, shared
<1>8. CASE AdmitStart(r)
    BY <1>2, <1>3, <1>8 DEF AdmitStart, GoesOn, BreaksOff
<1>9. CASE CountInstances(r)
    BY <1>1, <1>2, <1>9 DEF CountInstances, GoesOn, shared
<1>10. CASE AddProject(r)
    BY <1>2, <1>4, <1>10 DEF AddProject, GoesOn, BreaksOff
<1>11. CASE LaunchContainer(r)
    <2>1. todo'[r] = Rest(todo[r], 1) \/ todo'[r] = Rest(todo[r], 2)
        BY <1>2, <1>11 DEF LaunchContainer
    <2>2. /\ todo[r][1].do = "launch" /\ row' = row /\ counted' = counted /\ copy' = copy
          /\ subscribed' = subscribed
        BY <1>11 DEF LaunchContainer
    <2>3. GoesOn(r)
        BY <2>1, <2>2 DEF GoesOn
    <2> QED
        BY <2>2, <2>3
<1>12. CASE ContainerStarted(r)
    <2>1. todo'[r] = Rest(todo[r], 4) /\ 4 \in {1, 2, 4}
        BY <1>2, <1>12 DEF ContainerStarted
    <2>2. /\ todo[r][1].do = "settle" /\ row' = row /\ counted' = counted /\ copy' = copy
          /\ subscribed' = subscribed /\ box # "none"
        BY <1>12 DEF ContainerStarted
    <2>3. GoesOn(r)
        BY <2>1, <2>2 DEF GoesOn
    <2> QED
        BY <2>2, <2>3
<1>13. CASE ContainerStartFails(r)
    BY <1>2, <1>13 DEF ContainerStartFails, GoesOn
<1>14. CASE RemoveProject(r) \/ RemoveProjectTeamless(r)
    BY <1>2, <1>14 DEF RemoveProject, RemoveProjectTeamless, GoesOn, BreaksOff, shared
<1>15. CASE RemoveProjectLate(r)
    BY <1>2, <1>15 DEF RemoveProjectLate, LateHandler, GoesOn, BreaksOff
<1>16. CASE DriverStop(r)
    BY <1>2, <1>16 DEF DriverStop, GoesOn, BreaksOff
<1>17. CASE DriverRemove(r)
    BY <1>2, <1>17 DEF DriverRemove, GoesOn, BreaksOff
<1>18. CASE DestroyRow(r)
    BY <1>2, <1>18 DEF DestroyRow, GoesOn
<1>19. CASE ReloadCopy(r)
    BY <1>1, <1>2, <1>19 DEF ReloadCopy, GoesOn, shared
<1>20. CASE ImportData(r) \/ FlowsRefused(r)
    BY <1>2, <1>20 DEF ImportData, FlowsRefused, GoesOn, BreaksOff, shared
<1>21. CASE StartFlows(r) \/ StopFlows(r) \/ RestartFlows(r)
    BY <1>2, <1>21 DEF StartFlows, StopFlows, RestartFlows, GoesOn, BreaksOff, shared
<1>22. CASE FlowsRestarted(r) \/ LauncherReport(r) \/ NoteLatest(r)
    BY <1>2, <1>22 DEF FlowsRestarted, LauncherReport, NoteLatest, GoesOn
<1>23. CASE ReadDetails(r)
    BY <1>2, <1>23 DEF ReadDetails, GoesOn, BreaksOff, shared
<1>24. CASE ContainerStartLost(r)
    BY <1>2, <1>24 DEF ContainerStartLost, BreaksOff, shared
<1> QED
    BY <1>5, <1>6, <1>7, <1>8, <1>9, <1>10, <1>11, <1>12, <1>13, <1>14, <1>15, <1>16, <1>17, <1>18,
       <1>19, <1>20, <1>21, <1>22, <1>23, <1>24 DEF Advance

\* What is left of a prepared program is prepared.
LEMMA RestIsPrepared ==
    ASSUME NEW p \in Seq(Step), Prepared(p), NEW n \in Nat
    PROVE  Prepared(Rest(p, n))
<1>. DEFINE q == Rest(p, n)
<1>1. Len(p) \in Nat /\ Len(q) \in Nat /\ Len(q) = IF n <= Len(p) THEN Len(p) - n ELSE 0
    BY RestProperties, LenProperties
<1>2. \A i \in 1..Len(q) : q[i] = p[n + i]
    BY RestProperties
<1>. HIDE DEF q
<1>3. \A i \in 1..Len(q) : n + i \in 1..Len(p)
    BY <1>1
<1>4. ASSUME NEW k \in 1..Len(q), q[k].do = "launch", NEW i \in 1..5, i < k
      PROVE  q[k - i] \in Before[i]
    <2>1. n + k \in 1..Len(p) /\ p[n + k].do = "launch"
        BY <1>2, <1>3, <1>4
    <2>2. k - i \in 1..Len(q) /\ (n + k) - i = n + (k - i) /\ i < n + k
        BY <1>1, <1>4
    <2>3. p[(n + k) - i] \in Before[i]
        BY <2>1, <2>2 DEF Prepared
    <2> QED
        BY <1>2, <2>2, <2>3
<1>7. ASSUME NEW k \in 1..Len(q), q[k].do = "launch" \/ q[k] = Write("deleting"),
             NEW j \in 1..(k - 1)
      PROVE  q[j].do \notin {"launch", "settle"}
    <2>1. n + k \in 1..Len(p) /\ p[n + k] = q[k]
        BY <1>2, <1>3
    <2>2. j \in 1..Len(q) /\ n + j \in 1..((n + k) - 1)
        BY <1>1
    <2>3. p[n + j].do \notin {"launch", "settle"}
        BY <1>7, <2>1, <2>2 DEF Prepared
    <2> QED
        BY <1>2, <2>2, <2>3
<1>5. ASSUME NEW k \in 1..Len(q), q[k].do = "destroy"
      PROVE  k = Len(q)
    <2>1. n + k \in 1..Len(p) /\ p[n + k].do = "destroy"
        BY <1>2, <1>3, <1>5
    <2>2. n + k = Len(p)
        BY <2>1 DEF Prepared
    <2> QED
        BY <1>1, <2>2
<1>6. ASSUME NEW k \in 2..Len(q), q[k] = Write("deleting")
      PROVE  q[k - 1].do = "driverRemove"
    <2>1. k \in 1..Len(q) /\ k - 1 \in 1..Len(q) /\ n + (k - 1) = (n + k) - 1
        BY <1>1
    <2>2. n + k \in 2..Len(p) /\ p[n + k] = Write("deleting")
        BY <1>1, <1>2, <1>3, <1>6, <2>1
    <2>3. p[(n + k) - 1].do = "driverRemove"
        BY <2>2 DEF Prepared
    <2> QED
        BY <1>2, <2>1, <2>3
<1> QED
    BY <1>4, <1>5, <1>6, <1>7 DEF Prepared, q

\* So is what a handler that breaks off is left with.
LEMMA BreaksOffPrepared ==
    ASSUME NEW p \in {<<>>, <<Clear>>, <<Do("destroy")>>}
    PROVE  /\ Prepared(p) /\ \A k \in 1..Len(p) : p[k].do # "launch"
           /\ p # <<>> => p[1] # Write("deleting")
<1>1. /\ Clear.do = "clear" /\ Do("destroy").do = "destroy" /\ Write("deleting").do = "write"
    BY DEF Clear, Do, Write
<1>2. CASE p = <<>>
    BY <1>2 DEF Prepared
<1>3. CASE p \in {<<Clear>>, <<Do("destroy")>>}
    <2>1. Len(p) = 1 /\ p[1].do \in {"clear", "destroy"}
        BY <1>1, <1>3
    <2>2. p[1].do # "launch" /\ p[1] # Write("deleting")
        BY <1>1, <2>1
    <2>3. \A k \in 1..1 : k = 1
        OBVIOUS
    <2>4. \A k \in 2..1 : FALSE
        OBVIOUS
    <2> QED
        BY <2>1, <2>2, <2>3, <2>4 DEF Prepared
<1> QED
    BY <1>2, <1>3

\* A prepared handler that goes on has done one more step of the preparation.
LEMMA UnderwayGoesOn ==
    ASSUME TypeOK, TypeOK', NEW r \in Req, todo[r] # <<>>, row # "gone",
           Prepared(todo[r]), Underway(r), subscribed' = subscribed, GoesOn(r)
    PROVE  Prepared(todo'[r]) /\ Underway(r)'
<1>. DEFINE p == todo[r]
            q == todo'[r]
<1>1. p \in Seq(Step) /\ Len(p) \in Nat /\ Len(p) > 0
    BY EmptySeq, LenProperties DEF TypeOK
<1>2. PICK n \in {1, 2, 4} : /\ q = Rest(p, n)
                             /\ n = 2 => p[1].do = "launch"
                             /\ n = 4 => p[1].do = "settle"
    BY DEF GoesOn
<1>3. Len(q) \in Nat /\ (Len(q) = IF n <= Len(p) THEN Len(p) - n ELSE 0)
      /\ \A i \in 1..Len(q) : q[i] = p[n + i]
    BY <1>1, <1>2, RestProperties, LenProperties
<1>4. Prepared(q)
    BY <1>1, <1>2, RestIsPrepared
<1>5. ASSUME NEW k \in 1..Len(q), q[k].do = "launch" \/ q[k] = Write("deleting")
      PROVE  n = 1 /\ k + 1 \in 2..Len(p) /\ p[k + 1] = q[k]
    <2>1. n + k \in 2..Len(p) /\ p[n + k] = q[k] /\ 1 \in 1..((n + k) - 1)
        BY <1>1, <1>3
    <2>2. p[1].do \notin {"launch", "settle"}
        BY <1>5, <2>1 DEF Prepared
    <2>3. n = 1
        BY <1>2, <2>2
    <2> QED
        BY <2>1, <2>3
<1>6. ASSUME q # <<>>, q[1] = Write("deleting")
      PROVE  box' = "none"
    <2>1. 1 \in 1..Len(q)
        <3>1. q \in Seq(Step)
            BY <1>1, <1>2, RestProperties
        <3> QED
            BY <1>6, <3>1, EmptySeq, LenProperties
    <2>2. 1 + 1 \in 2..Len(p) /\ p[1 + 1] = Write("deleting")
        BY <1>5, <1>6, <2>1
    <2>3. p[(1 + 1) - 1].do = "driverRemove"
        BY <2>2 DEF Prepared
    <2> QED
        BY <2>3 DEF GoesOn
<1>7. ASSUME NEW k \in 1..Len(q), q[k].do = "launch"
      PROVE  /\ k <= 5 => row' \in Live
             /\ k <= 2 => counted'[r]
             /\ k = 1 => (subscribed' => billed')
    <2>1. k + 1 \in 2..Len(p) /\ p[k + 1].do = "launch" /\ k \in Nat
        BY <1>5, <1>7
    <2>2. k \in 1..5 => p[1] \in Before[k]
        <3>1. k \in 1..5 => p[(k + 1) - k] \in Before[k]
            BY <2>1 DEF Prepared
        <3>2. (k + 1) - k = 1
            BY <2>1
        <3> QED
            BY <3>1, <3>2
    <2>3. /\ k + 1 <= 5 => row \in Live
          /\ k + 1 <= 2 => counted[r]
        BY <2>1 DEF Underway
    <2>4. CASE k = 1
        <3>1. p[1].do = "bill"
            BY <2>2, <2>4 DEF Before, Do
        <3> QED
            BY <2>3, <2>4, <3>1 DEF GoesOn
    <2>5. CASE k = 2
        <3>1. p[1].do = "count"
            BY <2>2, <2>5 DEF Before, Do
        <3>2. counted'[r] = (row \in Live)
            BY <3>1 DEF GoesOn
        <3>3. row \in Live /\ row' = row
            BY <2>3, <2>5, <3>1 DEF GoesOn
        <3>4. counted'[r]
            BY <3>2, <3>3, Zenon
        <3> QED
            BY <2>5, <3>3, <3>4
    <2>6. CASE k = 3
        <3>1. p[1].do = "admit"
            BY <2>2, <2>6 DEF Before, Do
        <3> QED
            BY <2>3, <2>6, <3>1 DEF GoesOn
    <2>7. CASE k = 4
        <3>1. p[1].do \in {"reload", "mark"}
            BY <2>2, <2>7 DEF Before, Do, Mark
        <3> QED
            BY <2>3, <2>7, <3>1 DEF GoesOn
    <2>8. CASE k = 5
        <3>1. p[1].do = "write" /\ p[1].arg \in Live
            BY <2>2, <2>8 DEF Before, Write
        <3> QED
            BY <2>8, <3>1 DEF GoesOn
    <2> QED
        BY <2>1, <2>4, <2>5, <2>6, <2>7, <2>8
<1> QED
    BY <1>4, <1>6, <1>7 DEF Underway, q

\* A handler whose program is doomed goes on with it, in a container that stays gone, or breaks off.
LEMMA DoomedGoesOn ==
    ASSUME TypeOK, NEW r \in Req, todo[r] # <<>>, row # "gone", Doomed(todo[r]), box = "none",
           Effects(r)
    PROVE  /\ box' = "none" /\ row' # "gone"
           /\ GoesOn(r) => Doomed(todo'[r])
<1>. DEFINE p == todo[r]
<1>1. p \in Seq(Step) /\ Len(p) \in Nat /\ Len(p) > 0
    BY EmptySeq, LenProperties DEF TypeOK
<1>2. PICK j \in 1..Len(p) : /\ p[j].do = "driverStop"
                             /\ \A i \in 1..(j - 1) : p[i].do \in {"mark", "write", "flagDeploy"}
    BY DEF Doomed
<1>3. p[1].do \in {"mark", "write", "flagDeploy", "driverStop"}
    BY <1>1, <1>2
<1>4. box' = "none"
    BY <1>3 DEF Effects
<1>5. row' # "gone"
    <2>1. p[1] \in Step
        BY <1>1, ElementOfSeq
    <2>2. p[1].do = "write" => p[1].arg \in RowStates
        BY <2>1 DEF Step, PlainSteps
    <2> QED
        BY <1>3, <2>2 DEF Effects, BreaksOff, GoesOn, RowStates
<1>6. ASSUME GoesOn(r)
      PROVE  Doomed(todo'[r])
    <2>1. todo'[r] = Rest(p, 1)
        BY <1>3, <1>6 DEF GoesOn
    <2>2. j \in 2..Len(p)
        <3>1. p[1].do # "driverStop"
            BY <1>6 DEF GoesOn
        <3> QED
            BY <1>1, <1>2, <3>1
    <2>3. /\ Len(todo'[r]) = Len(p) - 1
          /\ \A i \in 1..Len(todo'[r]) : todo'[r][i] = p[1 + i]
        BY <1>1, <2>1, RestProperties
    <2>4. j - 1 \in 1..Len(todo'[r]) /\ 1 + (j - 1) = j
        BY <1>1, <2>2, <2>3
    <2>5. \A i \in 1..((j - 1) - 1) : i \in 1..Len(todo'[r]) /\ 1 + i \in 1..(j - 1)
        BY <1>1, <2>2, <2>3
    <2>6. todo'[r][j - 1].do = "driverStop"
        BY <1>2, <2>3, <2>4
    <2>7. \A i \in 1..((j - 1) - 1) : todo'[r][i].do \in {"mark", "write", "flagDeploy"}
        BY <1>2, <2>3, <2>5
    <2> QED
        BY <2>4, <2>6, <2>7 DEF Doomed
<1> QED
    BY <1>4, <1>5, <1>6

\* Each step of a handler keeps the invariant.
LEMMA AdvanceKeepsPaying ==
    ASSUME TypeOK, TypeOK', NEW r \in Req, Accepted, Paying(r), Advance(r)
    PROVE  Paying(r)'
<1>1. todo[r] # <<>>
    BY DEF Advance, AtStep, SetInflightState, ClearInflightState, ClearIfSuspended, SetInDeploy,
           SaveState, CheckStart, AdmitStart, CountInstances, AddProject, LaunchContainer,
           ContainerStarted, ContainerStartFails, ContainerStartLost, RemoveProject,
           RemoveProjectLate, RemoveProjectTeamless, DriverStop, DriverRemove, DestroyRow,
           ReloadCopy, ImportData, FlowsRefused, StartFlows, StopFlows, RestartFlows,
           FlowsRestarted, LauncherReport, ReadDetails, NoteLatest
<1>2. copy[r] = row /\ row # "gone" /\ (row = "deleting" => box = "none")
    BY <1>1 DEF Paying
<1>3. Effects(r)
    BY <1>2, AdvanceHasEffects
<1>4. ASSUME BreaksOff(r)
      PROVE  Prepared(todo'[r]) /\ Underway(r)'
    <2>. DEFINE q == todo'[r]
    <2>1. q \in {<<>>, <<Clear>>, <<Do("destroy")>>}
        BY <1>4 DEF BreaksOff
    <2>. HIDE DEF q
    <2>2. /\ Prepared(q) /\ \A k \in 1..Len(q) : q[k].do # "launch"
          /\ q # <<>> => q[1] # Write("deleting")
        BY <2>1, BreaksOffPrepared
    <2> QED
        BY <2>2 DEF Underway, q
<1>5. CASE box = "none" /\ Doomed(todo[r])
    <2>1. box' = "none" /\ row' # "gone" /\ (GoesOn(r) => Doomed(todo'[r]))
        BY <1>1, <1>2, <1>3, <1>5, DoomedGoesOn
    <2>2. copy'[r] = row' /\ (BreaksOff(r) \/ GoesOn(r))
        BY <1>3, <2>1 DEF Effects
    <2> QED
        BY <1>4, <2>1, <2>2 DEF Paying
<1>6. CASE Prepared(todo[r]) /\ Underway(r)
    <2>. DEFINE p == todo[r]
    <2>1. p \in Seq(Step) /\ 1 \in 1..Len(p) /\ p[1] \in Step
        BY <1>1, EmptySeq, LenProperties, ElementOfSeq DEF TypeOK
    <2>2. p[1].do = "write" => p[1] = Write(p[1].arg) /\ p[1].arg # "gone"
        BY <2>1 DEF Step, PlainSteps, Write, RowStates
    <2>3. subscribed' = subscribed /\ (BreaksOff(r) \/ GoesOn(r)) /\ (row' # "gone" => copy'[r] = row')
          /\ (box = "none" /\ p[1].do # "launch" => box' = "none")
        BY <1>3 DEF Effects
    <2>4. p[1].do = "launch" => row \in Live
        BY <1>6, <2>1 DEF Underway
    <2>5. row' = "deleting" => box' = "none"
        <3>1. CASE BreaksOff(r)
            BY <1>2, <2>3, <3>1 DEF BreaksOff
        <3>2. CASE GoesOn(r) /\ p[1].do = "write"
            <4>1. row' = p[1].arg
                BY <3>2 DEF GoesOn
            <4>2. p[1].arg = "deleting" => box = "none"
                BY <1>1, <1>6, <2>2, <3>2 DEF Underway
            <4> QED
                BY <2>3, <3>2, <4>1, <4>2
        <3>3. CASE GoesOn(r) /\ p[1].do # "write"
            <4>1. row' \in {row, "gone"}
                BY <3>3 DEF GoesOn
            <4> QED
                BY <1>2, <2>3, <2>4, <4>1 DEF Live
        <3> QED
            BY <2>3, <3>1, <3>2, <3>3
    <2>6. row' = "gone" => todo'[r] = <<>>
        <3>1. ASSUME row' = "gone" PROVE GoesOn(r) /\ p[1].do = "destroy"
            BY <1>2, <2>2, <2>3, <3>1 DEF BreaksOff, GoesOn
        <3>2. ASSUME GoesOn(r), p[1].do = "destroy" PROVE todo'[r] = <<>>
            <4>1. 1 = Len(p)
                BY <1>6, <2>1, <3>2 DEF Prepared
            <4>2. todo'[r] = Rest(p, 1)
                BY <3>2 DEF GoesOn
            <4>3. Rest(p, 1) \in Seq(Step) /\ Len(Rest(p, 1)) = 0
                BY <2>1, <4>1, RestProperties
            <4> QED
                BY <4>2, <4>3, EmptySeq
        <3> QED
            BY <3>1, <3>2
    <2>7. Prepared(todo'[r]) /\ Underway(r)'
        <3>1. ASSUME GoesOn(r) PROVE Prepared(todo'[r]) /\ Underway(r)'
            BY <1>1, <1>2, <1>6, <2>3, <3>1, UnderwayGoesOn
        <3> QED
            BY <1>4, <2>3, <3>1
    <2> QED
        BY <2>3, <2>5, <2>6, <2>7 DEF Paying
<1> QED
    BY <1>1, <1>5, <1>6 DEF Paying

LEMMA StartsPaying == Init => \A r \in Req : Paying(r)
<1>1. SUFFICES ASSUME Init, NEW r \in Req PROVE Paying(r)
    OBVIOUS
<1>2. row # "deleting" /\ todo[r] = <<>>
    BY <1>1, InitRowAssumption DEF Init
<1>3. Prepared(<<>>) /\ \A k \in 1..Len(<<>>) : FALSE
    BY DEF Prepared
<1> QED
    BY <1>2, <1>3 DEF Paying, Underway

\* A request sets out with a program prepared from its first step on, or doomed.
LEMMA RequestPays ==
    ASSUME TypeOK, NEW r \in Req, NEW o \in Ops, Paying(r), Receive(r, o)
    PROVE  Paying(r)'
<1>1. /\ row \in RowStates /\ row # "gone" /\ row' = row /\ box' = box
      /\ todo'[r] = Program(o, row) /\ copy'[r] = row /\ Program(o, row) # <<>>
    BY DEF Receive, TypeOK, shared
<1>2. row = "deleting" => box = "none"
    BY DEF Paying
<1>. DEFINE q == todo'[r]
<1>3. Whole(q) \/ (row = "deleting" /\ Doomed(q))
    BY <1>1, ProgramIsWhole
<1>4. CASE Whole(q)
    <2>1. Prepared(q) /\ \A k \in 1..Len(q) : q[k].do = "launch" => k > 5
        BY <1>4 DEF Whole
    <2>2. q # <<>> => q[1] # Write("deleting")
        BY <1>4 DEF Whole
    <2>3. Underway(r)'
        <3>1. \A k \in 1..Len(q) : k > 5 => ~(k <= 5) /\ ~(k <= 2) /\ k # 1
            OBVIOUS
        <3> QED
            BY <2>1, <2>2, <3>1 DEF Underway
    <2> QED
        BY <1>1, <1>2, <2>1, <2>3 DEF Paying
<1>5. CASE row = "deleting" /\ Doomed(q)
    BY <1>1, <1>2, <1>5 DEF Paying
<1> QED
    BY <1>3, <1>4, <1>5

LEMMA NextPays ==
    ASSUME NEW r, Req = {r}, Accepted, TypeOK, Paying(r), [Next]_vars
    PROVE  Paying(r)'
<1>1. TypeOK' /\ r \in Req
    BY NextType
<1>2. CASE \E q \in Req, o \in Ops : Receive(q, o)
    BY <1>1, <1>2, RequestPays
<1>3. CASE \E q \in Req : Advance(q)
    BY <1>1, <1>3, AdvanceKeepsPaying
<1>4. CASE BoxCrashes \/ SubscriptionDeleted \/ UNCHANGED vars
    <2>1. todo' = todo /\ row' = row /\ copy' = copy /\ counted' = counted
        BY <1>4 DEF BoxCrashes, SubscriptionDeleted, vars
    <2>2. box = "none" => box' = "none"
        BY <1>4 DEF BoxCrashes, SubscriptionDeleted, vars
    <2>3. (subscribed' = subscribed /\ billed' = billed) \/ ~subscribed'
        BY <1>4 DEF BoxCrashes, SubscriptionDeleted, vars
    <2>4. Underway(r) => Underway(r)'
        BY <2>1, <2>2, <2>3 DEF Underway
    <2> QED
        BY <2>1, <2>2, <2>4 DEF Paying
<1> QED
    BY <1>2, <1>3, <1>4 DEF Next

\* Only a launch brings the container to its start, and what is launched counts.
LEMMA LaunchIsPaid ==
    ASSUME NEW r, Req = {r}, TypeOK, Paying(r), [Next]_vars,
           box # "starting", box' = "starting", subscribed
    PROVE  billed
<1>1. LaunchContainer(r)
    BY DEF Next, Receive, BoxCrashes, SubscriptionDeleted, vars, shared, TypeOK, BoxStates, Advance,
           SetInflightState, ClearInflightState, ClearIfSuspended, SetInDeploy,
           SaveState, CheckStart, AdmitStart, CountInstances, AddProject,
           ContainerStarted, ContainerStartFails, ContainerStartLost, RemoveProject,
           RemoveProjectLate, RemoveProjectTeamless, DriverStop, DriverRemove, DestroyRow,
           ReloadCopy, ImportData, FlowsRefused, StartFlows, StopFlows, RestartFlows,
           FlowsRestarted, LauncherReport, ReadDetails, NoteLatest
<1>2. todo[r] # <<>> /\ todo[r][1].do = "launch" /\ todo[r] \in Seq(Step)
    BY <1>1 DEF LaunchContainer, AtStep, TypeOK
<1>3. 1 \in 1..Len(todo[r])
    BY <1>2, EmptySeq, LenProperties
<1>4. ~Doomed(todo[r])
    <2>1. ASSUME NEW j \in 1..Len(todo[r]), todo[r][j].do = "driverStop",
                 \A i \in 1..(j - 1) : todo[r][i].do \in {"mark", "write", "flagDeploy"}
          PROVE  FALSE
        <3>1. j # 1
            BY <1>2, <2>1
        <3>2. 1 \in 1..(j - 1)
            BY <1>2, <3>1, LenProperties
        <3> QED
            BY <1>2, <2>1, <3>2
    <2> QED
        BY <2>1 DEF Doomed
<1> QED
    BY <1>2, <1>3, <1>4 DEF Paying, Underway

\* No container is launched that the team does not pay for, whatever operations follow each other
\* and whatever throws between the recount and the start (addProject before driver.start).
THEOREM LaunchesArePaid ==
    ASSUME OneHandler, Accepted
    PROVE  Spec => NoFreeLaunch
<1>1. PICK r : Req = {r}
    BY DEF OneHandler
<1>2. Init => TypeOK /\ Paying(r)
    BY <1>1, InitType, StartsPaying
<1>3. TypeOK /\ Paying(r) /\ [Next]_vars => (TypeOK /\ Paying(r))'
    BY <1>1, NextType, NextPays
<1>4. TypeOK /\ Paying(r) /\ [Next]_vars =>
          [box # "starting" /\ box' = "starting" /\ subscribed => billed]_vars
    BY <1>1, LaunchIsPaid
<1> QED
    BY <1>2, <1>3, <1>4, PTL DEF Spec, NoFreeLaunch

=============================================================================
