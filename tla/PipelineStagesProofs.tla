------------------------ MODULE PipelineStagesProofs ------------------------
(***************************************************************************)
(* Proofs about PipelineStages, for any number of requests, stages and     *)
(* instances: links are between stages that exist and lead to stages       *)
(* created later, so that sortStages comes to an end; as long as additions *)
(* go behind the last stage, the list it makes holds every stage, and      *)
(* groups come last; an instance is held once.                             *)
(***************************************************************************)
EXTENDS PipelineStages, WellFoundedInduction, FiniteSetTheorems, SequenceTheorems, TLAPS

Handler == [op : {"none", "add", "update", "delete"},
            step : {"idle", "read", "check", "commit", "detach", "use", "attach"},
            stage : 0..MaxStages, after : 0..MaxStages, content : Content, before : 0..MaxStages]

\* What a request to delete a stage has read: its link led to a later stage, and the stage found
\* before it is an earlier one.
ReadForward(q) ==
    /\ q.step # "idle" => q.stage \in Stage /\ (q.after # None => q.after > q.stage)
    /\ q.step = "commit" /\ q.before # None => q.before < q.stage

Requests ==
    /\ req \in [Req -> Handler]
    /\ \A r \in Req : req[r].op = "update" /\ req[r].step # "idle" => req[r].stage \in Stage
    /\ \A r \in Req : req[r].op = "delete" => ReadForward(req[r])

Inv == TypeOK /\ Requests /\ LinksGoForward

-----------------------------------------------------------------------------
(* sortStages *)

\* A non-empty set of naturals has a least element.
LEMMA LeastNat ==
    ASSUME NEW T, T \subseteq Nat, T # {}
    PROVE  \E n \in T : \A m \in T : n <= m
<1>. DEFINE Less == {ss \in Nat \X Nat : ss[1] < ss[2]}
<1>1. IsWellFoundedOn(Less, Nat)
    BY NatLessThanWellFounded, Zenon DEF OpToRel
<1>. HIDE DEF Less
<1>2. PICK n \in T : \A m \in T : ~(<<m, n>> \in Less)
    BY <1>1, WFMin, Zenon
<1>3. \A m \in T : ~(m < n)
    BY <1>2 DEF Less
<1> QED
    BY <1>3

\* The least of the bounds of a set of stages is one of them.
LEMMA GreatestIsOne ==
    ASSUME NEW S, S \subseteq Stage, S # {}
    PROVE  Greatest(S) \in S /\ \A other \in S : other <= Greatest(S)
<1>. DEFINE Bounds == {n \in Nat : \A s \in S : s <= n}
<1>1. MaxStages \in Bounds
    BY BoundsAssumption DEF Stage
<1>2. PICK n \in Bounds : \A m \in Bounds : n <= m
    <2>. HIDE DEF Bounds
    <2>1. Bounds \subseteq Nat /\ Bounds # {}
        BY <1>1 DEF Bounds
    <2> QED
        BY <2>1, LeastNat, Zenon
<1>3. n \in S
    <2>1. SUFFICES ASSUME n \notin S PROVE FALSE
        OBVIOUS
    <2>2. \A s \in S : s \in Nat /\ 1 <= s /\ s <= n /\ s # n
        BY <1>2, <2>1, BoundsAssumption DEF Stage
    <2>3. n - 1 \in Bounds
        BY <1>2, <2>2
    <2> QED
        BY <1>2, <2>3
<1>4. \E s \in S : \A other \in S : other <= s
    BY <1>2, <1>3
<1> QED
    BY <1>4 DEF Greatest

\* The stages found by LastStage and Before; what Before finds points to the stage.
LEMMA Pointing ==
    ASSUME TypeOK
    PROVE  /\ LastStage \in stages \cup {None}
           /\ \A s : /\ Before(s) \in stages \cup {None}
                     /\ Before(s) # None => next[Before(s)] = s
<1>1. stages \subseteq Stage
    BY BoundsAssumption DEF TypeOK, Stage
<1>2. LastStage \in stages \cup {None}
    <2>. DEFINE ends == {s \in stages : next[s] = None}
    <2>1. ends # {} => Greatest(ends) \in ends
        BY <1>1, GreatestIsOne
    <2> QED
        BY <2>1 DEF LastStage
<1>3. ASSUME NEW s
      PROVE  Before(s) \in stages \cup {None} /\ (Before(s) # None => next[Before(s)] = s)
    <2>. DEFINE pointing == {p \in stages : next[p] = s}
    <2>1. pointing # {} => Greatest(pointing) \in pointing
        BY <1>1, GreatestIsOne
    <2> QED
        BY <2>1 DEF Before
<1> QED
    BY <1>2, <1>3

\* The recursion along the links is well-founded, however far it goes.
LEMMA Recursion ==
    \A n \in Nat : \E g :
        g = [k \in 0..n |-> IF k = 0 THEN LastStage ELSE Before(g[k - 1])]
<1>. DEFINE Solves(g, n) == g = [k \in 0..n |-> IF k = 0 THEN LastStage ELSE Before(g[k - 1])]
            Without == {n \in Nat : ~\E g : Solves(g, n)}
<1>1. SUFFICES ASSUME Without # {} PROVE FALSE
    OBVIOUS
<1>2. PICK n \in Without : \A m \in Without : n <= m
    <2>1. Without \subseteq Nat
        OBVIOUS
    <2>. HIDE DEF Without
    <2> QED
        BY <1>1, <2>1, LeastNat, Zenon
<1>3. CASE n = 0
    <2>1. Solves([k \in 0..0 |-> LastStage], 0)
        OBVIOUS
    <2> QED
        BY <1>2, <1>3, <2>1
<1>4. CASE n # 0
    <2>1. n \in Nat /\ n - 1 \in Nat /\ n - 1 \notin Without
        <3>1. n \in Nat
            BY <1>2
        <3>. HIDE DEF Without
        <3> QED
            BY <1>2, <1>4, <3>1
    <2>2. PICK g : Solves(g, n - 1)
        BY <2>1
    <2>3. DEFINE h == [k \in 0..n |-> IF k = 0 THEN LastStage ELSE Before(g[k - 1])]
    <2>4. \A k \in 0..(n - 1) : h[k] = g[k]
        BY <2>1, <2>2
    <2>5. ASSUME NEW k \in 0..n, k # 0
          PROVE  h[k - 1] = g[k - 1]
        <3>1. k - 1 \in 0..(n - 1)
            BY <2>1, <2>5
        <3>. HIDE DEF h
        <3> QED
            BY <2>4, <3>1
    <2>6. Solves(h, n)
        BY <2>5
    <2> QED
        BY <1>2, <2>6
<1> QED
    BY <1>3, <1>4

LEMMA StagesAreFinite ==
    ASSUME TypeOK
    PROVE  IsFiniteSet(stages) /\ Cardinality(stages) \in Nat
<1>1. IsFiniteSet(1..created) /\ stages \subseteq 1..created
    BY FS_Interval, BoundsAssumption DEF TypeOK
<1> QED
    BY <1>1, FS_Subset, FS_CardinalityType

LEMMA BackStep ==
    ASSUME TypeOK
    PROVE  /\ DOMAIN Back = 0..Cardinality(stages) /\ Back[0] = LastStage
           /\ \A n \in 0..Cardinality(stages) : n # 0 => Back[n] = Before(Back[n - 1])
<1>. DEFINE N == Cardinality(stages)
<1>1. N \in Nat
    BY StagesAreFinite
<1>. HIDE DEF N
<1>2. \E g : g = [k \in 0..N |-> IF k = 0 THEN LastStage ELSE Before(g[k - 1])]
    BY <1>1, Recursion
<1>3. Back = [k \in 0..N |-> IF k = 0 THEN LastStage ELSE Before(Back[k - 1])]
    BY <1>2, Zenon DEF Back, N
<1> QED
    BY <1>1, <1>3 DEF N

\* In the list, a stage that is not the first is preceded by one that points to it.
LEMMA PrecededByPointing ==
    ASSUME TypeOK, NEW s, Listed(s), Position(s) > 1
    PROVE  LET b == Ordered[Position(s) - 1]
           IN b \in stages \cup {None} /\ (b # None => next[b] = s)
<1>. DEFINE N == Cardinality(stages)
            Found == {n \in DOMAIN Back : Back[n] # None}
            L == Cardinality(Found)
            i == Position(s)
<1>1. i \in DOMAIN Ordered /\ Ordered[i] = s
    BY DEF Listed, Position
<1>2. CASE N = 1
    <2>1. DOMAIN Ordered = {1}
        BY <1>2 DEF Ordered
    <2> QED
        BY <1>1, <2>1
<1>3. CASE N # 1
    <2>1. Ordered = [j \in 1..L |-> Back[L - j]]
        BY <1>3 DEF Ordered
    <2>2. N \in Nat /\ L \in Nat /\ L <= N + 1
        <3>1. N \in Nat
            BY StagesAreFinite
        <3>2. Found \subseteq 0..N
            BY BackStep
        <3>3. IsFiniteSet(0..N) /\ Cardinality(0..N) = N + 1
            BY <3>1, FS_Interval
        <3>4. IsFiniteSet(Found) /\ L <= N + 1
            BY <3>2, <3>3, FS_Subset
        <3> QED
            BY <3>1, <3>4, FS_CardinalityType
    <2>. HIDE DEF L, N
    <2>3. i \in 1..L /\ i - 1 \in 1..L
        BY <1>1, <2>1, <2>2
    <2>4. Ordered[i] = Back[L - i] /\ Ordered[i - 1] = Back[L - (i - 1)]
        BY <2>1, <2>3
    <2>5. L - (i - 1) \in 0..N /\ L - (i - 1) # 0 /\ (L - (i - 1)) - 1 = L - i
        BY <2>2, <2>3
    <2>6. Ordered[i - 1] = Before(s)
        BY <1>1, <2>4, <2>5, BackStep DEF N
    <2> QED
        BY <2>6, Pointing
<1> QED
    BY <1>2, <1>3

\* No two stages link to the same one, or to none.
SingleFile == \A p, q \in stages : next[p] = next[q] => p = q

\* The list holds every stage, in the order of their creation, each linked to the one after it.
SortedList ==
    /\ Ordered \in Seq(stages) /\ Len(Ordered) = Cardinality(stages)
    /\ DOMAIN Ordered = 1..Len(Ordered)
    /\ \A i, j \in 1..Len(Ordered) : i < j => Ordered[i] < Ordered[j]
    /\ \A s \in stages : \E i \in 1..Len(Ordered) : Ordered[i] = s
    /\ \A i \in 2..Len(Ordered) : next[Ordered[i - 1]] = Ordered[i]

\* The walk back from the last stage meets every stage once, in the order of their ids.
LEMMA WalkBack ==
    ASSUME TypeOK, LinksGoForward, SingleFile
    PROVE  LET N == Cardinality(stages)
           IN  /\ N \in Nat /\ {n \in DOMAIN Back : Back[n] # None} = 0..(N - 1)
               /\ \A n \in 0..(N - 1) : Back[n] \in stages
               /\ \A m, n \in 0..(N - 1) : m < n => Back[n] < Back[m]
               /\ \A n \in 1..(N - 1) : next[Back[n]] = Back[n - 1]
               /\ \A s \in stages : \E n \in 0..(N - 1) : Back[n] = s
<1>. DEFINE N == Cardinality(stages)
            Found == {n \in DOMAIN Back : Back[n] # None}
<1>1. N \in Nat /\ IsFiniteSet(stages) /\ stages \subseteq Stage /\ None \notin Stage
    BY StagesAreFinite, BoundsAssumption DEF TypeOK, Stage, None
<1>0. \A s \in stages \cup {None} : s \in Nat
    BY <1>1, BoundsAssumption DEF Stage, None
<1>2. DOMAIN Back = 0..N /\ Back[0] = LastStage
      /\ \A n \in 1..N : Back[n] = Before(Back[n - 1])
    BY <1>1, BackStep
<1>. HIDE DEF N
<1>3. \A n \in 0..N : Back[n] \in stages \cup {None}
    BY <1>1, <1>2, Pointing
<1>4. ASSUME NEW n \in 1..N, Back[n] # None
      PROVE  Back[n - 1] # None /\ next[Back[n]] = Back[n - 1] /\ Back[n] < Back[n - 1]
    <2>1. Back[n] = Before(Back[n - 1]) /\ Back[n - 1] # None
        BY <1>2, <1>4 DEF Before
    <2>2. next[Back[n]] = Back[n - 1] /\ Back[n] \in stages
        BY <1>3, <1>4, <2>1, Pointing
    <2> QED
        BY <2>1, <2>2 DEF LinksGoForward
<1>5. \A m, n \in 0..N : m < n /\ Back[n] # None => Back[m] # None /\ Back[n] < Back[m]
    <2>. DEFINE Wrong == {n \in 0..N : \E m \in 0..N : /\ m < n /\ Back[n] # None
                                                     /\ ~(Back[m] # None /\ Back[n] < Back[m])}
    <2>1. SUFFICES ASSUME Wrong # {} PROVE FALSE
        OBVIOUS
    <2>2. PICK n \in Wrong : \A k \in Wrong : n <= k
        <3>1. Wrong \subseteq Nat
            BY <1>1
        <3>. HIDE DEF Wrong
        <3> QED
            BY <2>1, <3>1, LeastNat, Zenon
    <2>3. PICK m \in 0..N : m < n /\ Back[n] # None /\ ~(Back[m] # None /\ Back[n] < Back[m])
        BY <2>2
    <2>4. n \in 1..N /\ n - 1 \in 0..N /\ m <= n - 1
        BY <1>1, <2>2, <2>3
    <2>5. Back[n - 1] # None /\ Back[n] < Back[n - 1]
        BY <1>4, <2>3, <2>4
    <2>6. m < n - 1
        BY <1>1, <2>3, <2>4, <2>5
    <2>7. n - 1 \notin Wrong
        <3>. HIDE DEF Wrong
        <3> QED
            BY <1>1, <2>2, <2>4
    <2>8. Back[m] # None /\ Back[n - 1] < Back[m]
        BY <2>4, <2>5, <2>6, <2>7
    <2>9. Back[n] \in Nat /\ Back[n - 1] \in Nat /\ Back[m] \in Nat
        <3>1. n \in 0..N
            BY <2>2
        <3>2. Back[n] \in stages \cup {None} /\ Back[n - 1] \in stages \cup {None}
              /\ Back[m] \in stages \cup {None}
            BY <1>3, <2>3, <2>4, <3>1
        <3> QED
            BY <1>0, <3>2
    <2> QED
        BY <2>3, <2>5, <2>8, <2>9
<1>6. IsFiniteSet(Found) /\ Cardinality(Found) <= N
    <2>. DEFINE f == [n \in Found |-> Back[n]]
    <2>1. f \in [Found -> stages]
        BY <1>2, <1>3
    <2>2. \A m, n \in Found : f[m] = f[n] => m = n
        <3>1. \A m, n \in Found : m < n => Back[n] < Back[m]
            BY <1>2, <1>5
        <3>2. \A n \in Found : Back[n] \in Nat
            BY <1>0, <1>2, <1>3
        <3>3. \A m, n \in Found : m < n => Back[n] # Back[m]
            BY <3>1, <3>2
        <3> QED
            BY <1>1, <1>2, <3>3
    <2>3. f \in Injection(Found, stages)
        BY <2>1, <2>2 DEF Injection, IsInjective
    <2>. HIDE DEF f, Found
    <2> QED
        BY <1>1, <2>3, FS_Injection DEF N
<1>7. Found \subseteq 0..(N - 1)
    <2>1. SUFFICES ASSUME N \in Found PROVE FALSE
        BY <1>1, <1>2
    <2>2. 0..N \subseteq Found
        BY <1>1, <1>2, <1>5, <2>1
    <2>3. Cardinality(0..N) = N + 1
        BY <1>1, FS_Interval
    <2>4. Cardinality(0..N) <= Cardinality(Found) /\ Cardinality(Found) \in Nat
        BY <1>6, <2>2, FS_Subset, FS_CardinalityType
    <2>. HIDE DEF Found
    <2> QED
        BY <1>1, <1>6, <2>3, <2>4
<1>8. \A s \in stages : \E n \in Found : Back[n] = s
    <2>. DEFINE Missing == {s \in stages : ~\E n \in Found : Back[n] = s}
    <2>1. SUFFICES ASSUME Missing # {} PROVE FALSE
        OBVIOUS
    <2>2. PICK p \in Missing : \A s \in Missing : s <= p
        <3>1. Missing \subseteq Stage
            BY <1>1
        <3>. HIDE DEF Missing
        <3> QED
            BY <2>1, <3>1, GreatestIsOne
    <2>3. p \in stages /\ p \in Stage /\ p # None
        BY <1>1, <2>2
    <2>4. CASE next[p] = None
        <3>1. {s \in stages : next[s] = None} = {p}
            BY <2>3, <2>4 DEF SingleFile
        <3>2. Greatest({p}) = p
            BY <2>3, GreatestIsOne
        <3>3. LastStage = p
            BY <3>1, <3>2 DEF LastStage
        <3> QED
            BY <1>1, <1>2, <2>2, <2>3, <3>3
    <2>5. CASE next[p] # None
        <3>. DEFINE q == next[p]
        <3>1. q \in stages /\ q > p
            BY <2>3, <2>5 DEF TypeOK, LinksGoForward
        <3>2. q \notin Missing
            <4>1. p \in Nat /\ q \in Nat
                BY <1>0, <2>3, <3>1
            <4>2. ~(q <= p)
                BY <3>1, <4>1
            <4>. HIDE DEF Missing, q
            <4> QED
                BY <2>2, <4>2
        <3>3. PICK n \in Found : Back[n] = q
            BY <3>1, <3>2
        <3>4. n \in 0..(N - 1) /\ n + 1 \in 1..N /\ (n + 1) - 1 = n
            BY <1>1, <1>7, <3>3
        <3>5. {s \in stages : next[s] = q} = {p}
            BY <2>3 DEF SingleFile
        <3>6. Greatest({p}) = p
            BY <2>3, GreatestIsOne
        <3>7. Before(q) = p
            BY <2>5, <3>5, <3>6 DEF Before
        <3>8. Back[n + 1] = p
            BY <1>2, <3>3, <3>4, <3>7
        <3>9. n + 1 \in Found
            BY <1>1, <1>2, <2>3, <3>4, <3>8
        <3> QED
            BY <2>2, <3>8, <3>9
    <2> QED
        BY <2>4, <2>5
<1>9. Found = 0..(N - 1)
    <2>. DEFINE f == [n \in Found |-> Back[n]]
    <2>1. f \in Surjection(Found, stages)
        BY <1>2, <1>3, <1>8 DEF Surjection
    <2>. HIDE DEF f
    <2>2. N <= Cardinality(Found) /\ Cardinality(Found) \in Nat
        <3>. HIDE DEF Found
        <3> QED
            BY <1>6, <2>1, FS_Surjection, FS_CardinalityType DEF N
    <2>3. IsFiniteSet(0..(N - 1)) /\ Cardinality(0..(N - 1)) = N
        BY <1>1, FS_Interval
    <2>. HIDE DEF Found
    <2>4. Cardinality(Found) = Cardinality(0..(N - 1))
        BY <1>1, <1>6, <2>2, <2>3
    <2> QED
        BY <1>7, <2>3, <2>4, FS_Subset, Zenon
<1>10. \A n \in 0..(N - 1) : Back[n] \in stages
    <2>1. \A n \in Found : Back[n] \in stages
        BY <1>2, <1>3
    <2>. HIDE DEF Found
    <2> QED
        BY <1>9, <2>1
<1>11. \A m, n \in 0..(N - 1) : m < n => Back[n] < Back[m]
    BY <1>1, <1>5, <1>10
<1>12. \A n \in 1..(N - 1) : next[Back[n]] = Back[n - 1]
    <2>1. \A n \in 1..(N - 1) : n \in 1..N /\ Back[n] # None
        BY <1>1, <1>10
    <2> QED
        BY <1>4, <2>1
<1>13. \A s \in stages : \E n \in 0..(N - 1) : Back[n] = s
    <2>. HIDE DEF Found
    <2> QED
        BY <1>8, <1>9
<1> QED
    BY <1>1, <1>9, <1>10, <1>11, <1>12, <1>13 DEF N

LEMMA ListIsSorted ==
    ASSUME TypeOK, LinksGoForward, SingleFile
    PROVE  SortedList
<1>. DEFINE N == Cardinality(stages)
            L == Cardinality({n \in DOMAIN Back : Back[n] # None})
<1>1. /\ N \in Nat /\ {n \in DOMAIN Back : Back[n] # None} = 0..(N - 1)
      /\ \A n \in 0..(N - 1) : Back[n] \in stages
      /\ \A m, n \in 0..(N - 1) : m < n => Back[n] < Back[m]
      /\ \A n \in 1..(N - 1) : next[Back[n]] = Back[n - 1]
      /\ \A s \in stages : \E n \in 0..(N - 1) : Back[n] = s
    BY WalkBack
<1>2. L = N
    <2>1. Cardinality(0..(N - 1)) = N
        <3>1. N \in Nat
            BY <1>1
        <3>. HIDE DEF N
        <3> QED
            BY <3>1, FS_Interval
    <2>2. L = Cardinality(0..(N - 1))
        BY <1>1, Zenon
    <2>. HIDE DEF L, N
    <2> QED
        BY <2>1, <2>2
<1>3. Ordered = IF N = 1 THEN <<CHOOSE s \in stages : TRUE>> ELSE [i \in 1..L |-> Back[L - i]]
    BY DEF Ordered
<1>. HIDE DEF N, L
<1>4. /\ DOMAIN Ordered = 1..N /\ Len(Ordered) = N /\ Ordered \in Seq(stages)
      /\ \A i \in 1..N : Ordered[i] = Back[N - i]
    <2>1. CASE N = 1
        <3>. DEFINE c == CHOOSE s \in stages : TRUE
        <3>1. \A s \in stages : s = Back[0]
            BY <1>1, <2>1
        <3>2. Back[0] \in stages
            BY <1>1, <2>1
        <3>3. c \in stages /\ c = Back[0]
            BY <3>1, <3>2
        <3>. HIDE DEF c
        <3> QED
            BY <1>3, <2>1, <3>3 DEF c
    <2>2. CASE N # 1
        <3>1. Ordered = [i \in 1..N |-> Back[N - i]]
            BY <1>2, <1>3, <2>2
        <3>2. \A i \in 1..N : Back[N - i] \in stages
            BY <1>1
        <3> QED
            BY <1>1, <3>1, <3>2
    <2> QED
        BY <2>1, <2>2
<1>5. \A i, j \in 1..N : i < j => Ordered[i] < Ordered[j]
    <2>1. SUFFICES ASSUME NEW i \in 1..N, NEW j \in 1..N, i < j
          PROVE  Ordered[i] < Ordered[j]
        OBVIOUS
    <2>2. N - j \in 0..(N - 1) /\ N - i \in 0..(N - 1) /\ N - j < N - i
        BY <1>1, <2>1
    <2>3. Back[N - i] < Back[N - j]
        BY <1>1, <2>2
    <2> QED
        BY <1>4, <2>3
<1>6. \A s \in stages : \E i \in 1..N : Ordered[i] = s
    <2>1. ASSUME NEW s \in stages
          PROVE  \E i \in 1..N : Ordered[i] = s
        <3>1. PICK n \in 0..(N - 1) : Back[n] = s
            BY <1>1
        <3>2. N - n \in 1..N /\ N - (N - n) = n
            BY <1>1
        <3> QED
            BY <1>4, <3>1, <3>2
    <2> QED
        BY <2>1
<1>7. \A i \in 2..N : next[Ordered[i - 1]] = Ordered[i]
    <2>1. ASSUME NEW i \in 2..N
          PROVE  next[Ordered[i - 1]] = Ordered[i]
        <3>1. N - (i - 1) \in 1..(N - 1) /\ (N - (i - 1)) - 1 = N - i
            BY <1>1
        <3>2. next[Back[N - (i - 1)]] = Back[N - i]
            BY <1>1, <3>1
        <3> QED
            BY <1>1, <1>4, <3>2
    <2> QED
        BY <2>1
<1> QED
    BY <1>4, <1>5, <1>6, <1>7 DEF SortedList, N

-----------------------------------------------------------------------------
(* The invariant is preserved *)

LEMMA StagesAreStage ==
    ASSUME TypeOK
    PROVE  stages \subseteq Stage /\ next \in [Stage -> 0..MaxStages]
<1>1. stages \subseteq 1..MaxStages /\ stages \cup {0} \subseteq 0..MaxStages
    BY BoundsAssumption DEF TypeOK
<1> QED
    BY <1>1 DEF TypeOK, Stage, None

LEMMA IdleIsHandler == Idle \in Handler
BY BoundsAssumption DEF Idle, Handler, Content, None

\* A handler changes its own slot only.
LEMMA SlotChanges ==
    ASSUME Requests, NEW r \in Req, NEW h \in Handler, req' = [req EXCEPT ![r] = h],
           h.op = "update" /\ h.step # "idle" => h.stage \in Stage,
           h.op = "delete" => ReadForward(h)
    PROVE  Requests'
BY DEF Requests, ReadForward

LEMMA HandlerEnds ==
    ASSUME Requests, NEW r \in Req, End(r)
    PROVE  Requests'
<1>1. Idle.op = "none"
    BY DEF Idle
<1> QED
    BY <1>1, IdleIsHandler, SlotChanges DEF End

LEMMA HandlerContinues ==
    ASSUME Requests, NEW r \in Req, req[r].step # "idle",
           NEW step \in {"check", "detach", "use", "attach"}, Continue(r, step)
    PROVE  Requests'
<1>. DEFINE h == [req[r] EXCEPT !.step = step]
<1>1. req[r] \in Handler
    BY DEF Requests
<1>2. h \in Handler /\ h.op = req[r].op /\ h.step = step
      /\ h.stage = req[r].stage /\ h.after = req[r].after
    BY <1>1 DEF Handler
<1>3. h.op = "update" /\ h.step # "idle" => h.stage \in Stage
    BY <1>2 DEF Requests
<1>4. h.op = "delete" => ReadForward(h)
    BY <1>2 DEF Requests, ReadForward
<1>5. req' = [req EXCEPT ![r] = h]
    BY DEF Continue
<1>. HIDE DEF h
<1> QED
    BY <1>2, <1>3, <1>4, <1>5, SlotChanges

LEMMA NothingWritten ==
    ASSUME TypeOK, LinksGoForward, Unwritten
    PROVE  TypeOK' /\ LinksGoForward'
BY DEF TypeOK, LinksGoForward, Unwritten

LEMMA AddKeeps ==
    ASSUME Inv, NEW r \in Req, BeginAdd(r) \/ DecideAdd(r) \/ CheckAdd(r) \/ CommitAdd(r)
    PROVE  Inv'
<1>. USE DEF Inv
<1>1. CASE BeginAdd(r)
    <2>1. PICK c \in Content \ {Empty}, source \in stages \cup {None} :
                Begin(r, [Idle EXCEPT !.op = "add", !.step = "read", !.content = c,
                                      !.before = source])
        BY <1>1 DEF BeginAdd
    <2>. DEFINE h == [Idle EXCEPT !.op = "add", !.step = "read", !.content = c,
                                  !.before = source]
    <2>2. source \in 0..MaxStages
        BY StagesAreStage, BoundsAssumption DEF Stage, None
    <2>3. h \in Handler /\ h.op = "add"
        BY <2>2, IdleIsHandler DEF Idle, Handler
    <2>4. req' = [req EXCEPT ![r] = h] /\ Unwritten
        BY <2>1 DEF Begin
    <2>. HIDE DEF h
    <2>5. Requests'
        BY <2>3, <2>4, SlotChanges
    <2> QED
        BY <2>4, <2>5, NothingWritten
<1>2. CASE DecideAdd(r)
    <2>1. Requests'
        BY <1>2, HandlerEnds, HandlerContinues DEF DecideAdd, At
    <2> QED
        BY <1>2, <2>1, NothingWritten DEF DecideAdd
<1>3. CASE CheckAdd(r)
    <2>1. Unwritten /\ req[r].step = "check" /\ (End(r) \/ \E s \in {"commit"} : Continue(r, s))
        BY <1>3 DEF CheckAdd, At
    <2>2. CASE End(r)
        BY <2>1, <2>2, HandlerEnds, NothingWritten
    <2>3. CASE Continue(r, "commit")
        <3>. DEFINE h == [req[r] EXCEPT !.step = "commit"]
        <3>1. req[r] \in Handler /\ req[r].op = "add"
            BY <1>3 DEF Requests, CheckAdd, At
        <3>2. h \in Handler /\ h.op = "add"
            BY <3>1 DEF Handler
        <3>3. req' = [req EXCEPT ![r] = h]
            BY <2>3 DEF Continue
        <3>. HIDE DEF h
        <3>4. Requests'
            BY <3>2, <3>3, SlotChanges
        <3> QED
            BY <2>1, <3>4, NothingWritten
    <2> QED
        BY <2>1, <2>2, <2>3
<1>4. CASE CommitAdd(r)
    <2>. DEFINE q == req[r]
                new == created + 1
    <2>1. /\ created' = new /\ stages' = stages \cup {new}
          /\ content' = [content EXCEPT ![new] = q.content]
          /\ next' = IF q.before \in stages THEN [next EXCEPT ![q.before] = new] ELSE next
          /\ created < MaxStages
        BY <1>4 DEF CommitAdd
    <2>2. q.content \in Content
        BY DEF Requests, Handler
    <2>3. new \in Stage /\ new \in 1..MaxStages /\ \A s \in stages : s < new
        BY <2>1, BoundsAssumption DEF TypeOK, Stage
    <2>. HIDE DEF q
    <2>4. created' \in 0..MaxStages /\ stages' \subseteq 1..created'
        BY <2>1, <2>3 DEF TypeOK
    <2>5. next' \in [Stage -> stages' \cup {None}] /\ content' \in [Stage -> Content]
        BY <2>1, <2>2, <2>3 DEF TypeOK
    <2>6. \A s \in Stage \ stages' : next'[s] = None /\ content'[s] = Empty
        BY <2>1, <2>2, <2>3 DEF TypeOK
    <2>7. LinksGoForward'
        <3>1. next[new] = None
            BY <2>3 DEF TypeOK
        <3>2. stages \subseteq Stage
            BY StagesAreStage
        <3>3. \A s \in stages' : next'[s] # None => next'[s] > s
            <4>1. CASE q.before \in stages
                BY <2>1, <2>3, <3>1, <3>2, <4>1 DEF LinksGoForward, TypeOK
            <4>2. CASE q.before \notin stages
                BY <2>1, <3>1, <4>2 DEF LinksGoForward
            <4> QED
                BY <4>1, <4>2
        <3> QED
            BY <3>3 DEF LinksGoForward
    <2>8. Requests' /\ strayed' \in BOOLEAN
        BY <1>4, HandlerEnds DEF CommitAdd
    <2> QED
        BY <2>4, <2>5, <2>6, <2>7, <2>8 DEF TypeOK
<1> QED
    BY <1>1, <1>2, <1>3, <1>4

LEMMA UpdateKeeps ==
    ASSUME Inv, NEW r \in Req,
           BeginUpdate(r) \/ DecideUpdate(r) \/ Detach(r) \/ CheckUse(r) \/ Attach(r)
    PROVE  Inv'
<1>. USE DEF Inv
<1>1. CASE BeginUpdate(r)
    <2>1. PICK s \in stages, c \in Content :
                Begin(r, [Idle EXCEPT !.op = "update", !.step = "read", !.stage = s, !.content = c])
        BY <1>1 DEF BeginUpdate
    <2>. DEFINE h == [Idle EXCEPT !.op = "update", !.step = "read", !.stage = s, !.content = c]
    <2>2. s \in Stage /\ s \in 0..MaxStages
        BY StagesAreStage, BoundsAssumption DEF Stage
    <2>3. h \in Handler /\ h.op = "update" /\ h.stage \in Stage
        BY <2>2, IdleIsHandler DEF Idle, Handler
    <2>4. req' = [req EXCEPT ![r] = h] /\ Unwritten
        BY <2>1 DEF Begin
    <2>. HIDE DEF h
    <2>5. Requests'
        BY <2>3, <2>4, SlotChanges
    <2> QED
        BY <2>4, <2>5, NothingWritten
<1>2. CASE DecideUpdate(r)
    <2>1. Requests'
        BY <1>2, HandlerEnds, HandlerContinues DEF DecideUpdate, At
    <2> QED
        BY <1>2, <2>1, NothingWritten DEF DecideUpdate
<1>3. CASE Detach(r)
    <2>1. content' = content \/ content' = [content EXCEPT ![req[r].stage] = Empty]
        BY <1>3 DEF Detach
    <2>2. UNCHANGED <<created, stages, next, strayed>>
        BY <1>3 DEF Detach
    <2>3. TypeOK' /\ LinksGoForward'
        BY <2>1, <2>2 DEF TypeOK, LinksGoForward, Content
    <2>4. Requests'
        BY <1>3, HandlerContinues DEF Detach, At
    <2> QED
        BY <2>3, <2>4
<1>4. CASE CheckUse(r)
    <2>1. Requests'
        BY <1>4, HandlerEnds, HandlerContinues DEF CheckUse, At
    <2> QED
        BY <1>4, <2>1, NothingWritten DEF CheckUse
<1>5. CASE Attach(r)
    <2>. DEFINE q == req[r]
    <2>1. q.content \in Content
        BY DEF Requests, Handler
    <2>2. content' = content \/ (q.stage \in stages /\ content' = [content EXCEPT ![q.stage] = q.content])
        BY <1>5 DEF Attach
    <2>3. UNCHANGED <<created, stages, next, strayed>>
        BY <1>5 DEF Attach
    <2>. HIDE DEF q
    <2>4. TypeOK' /\ LinksGoForward'
        BY <2>1, <2>2, <2>3, StagesAreStage DEF TypeOK, LinksGoForward
    <2>5. Requests'
        BY <1>5, HandlerEnds DEF Attach
    <2> QED
        BY <2>4, <2>5
<1> QED
    BY <1>1, <1>2, <1>3, <1>4, <1>5

LEMMA DeleteKeeps ==
    ASSUME Inv, NEW r \in Req, BeginDelete(r) \/ DecideDelete(r) \/ CommitDelete(r)
    PROVE  Inv'
<1>. USE DEF Inv
<1>1. CASE BeginDelete(r)
    <2>1. PICK s \in stages :
                Begin(r, [Idle EXCEPT !.op = "delete", !.step = "read", !.stage = s, !.after = next[s]])
        BY <1>1 DEF BeginDelete
    <2>. DEFINE h == [Idle EXCEPT !.op = "delete", !.step = "read", !.stage = s, !.after = next[s]]
    <2>2. s \in Stage /\ s \in 0..MaxStages /\ next[s] \in 0..MaxStages
        BY StagesAreStage, BoundsAssumption DEF Stage
    <2>3. h \in Handler /\ h.op = "delete" /\ h.step = "read" /\ h.stage = s /\ h.after = next[s]
        BY <2>2, IdleIsHandler DEF Idle, Handler
    <2>4. req' = [req EXCEPT ![r] = h] /\ Unwritten
        BY <2>1 DEF Begin
    <2>. HIDE DEF h
    <2>5. ReadForward(h)
        BY <2>2, <2>3 DEF ReadForward, LinksGoForward
    <2>6. Requests'
        BY <2>3, <2>4, <2>5, SlotChanges
    <2> QED
        BY <2>4, <2>6, NothingWritten
<1>2. CASE DecideDelete(r)
    <2>. DEFINE q == req[r]
                b == IF Listed(q.stage) /\ Position(q.stage) > 1
                     THEN Ordered[Position(q.stage) - 1] ELSE None
                h == [q EXCEPT !.step = "commit", !.before = b]
    <2>1. Unwritten /\ (End(r) \/ req' = [req EXCEPT ![r] = h])
        BY <1>2 DEF DecideDelete
    <2>2. CASE End(r)
        BY <2>1, <2>2, HandlerEnds, NothingWritten
    <2>3. CASE req' = [req EXCEPT ![r] = h]
        <3>1. b \in stages \cup {None} /\ (b # None => next[b] = q.stage)
            BY PrecededByPointing
        <3>2. q \in Handler /\ q.op = "delete" /\ q.step = "read" /\ ReadForward(q)
            BY <1>2 DEF Requests, DecideDelete, At
        <3>. HIDE DEF b, q
        <3>3. b \in 0..MaxStages
            BY <3>1, StagesAreStage, BoundsAssumption DEF Stage, None
        <3>4. b # None => b < q.stage
            BY <3>1, <3>2, StagesAreStage DEF LinksGoForward, ReadForward, Stage, None
        <3>5. h \in Handler /\ h.op = "delete" /\ h.stage = q.stage /\ h.after = q.after
              /\ h.before = b
            BY <3>2, <3>3 DEF Handler
        <3>6. ReadForward(h)
            BY <3>2, <3>4, <3>5 DEF ReadForward
        <3>. HIDE DEF h
        <3>7. Requests'
            BY <2>3, <3>5, <3>6, SlotChanges
        <3> QED
            BY <2>1, <3>7, NothingWritten
    <2> QED
        BY <2>1, <2>2, <2>3
<1>3. CASE CommitDelete(r)
    <2>. DEFINE q == req[r]
    <2>1. Requests'
        BY <1>3, HandlerEnds DEF CommitDelete
    <2>2. CASE Unwritten
        BY <2>1, <2>2, NothingWritten
    <2>3. CASE ~Unwritten
        <3>1. /\ ~(q.before \in stages /\ q.after \notin stages \cup {None})
              /\ stages' = stages \ {q.stage} /\ next' = Relinked(q)
              /\ content' = [content EXCEPT ![q.stage] = Empty] /\ UNCHANGED <<created, strayed>>
            BY <1>3, <2>3 DEF CommitDelete
        <3>2. q.stage \in Stage /\ ReadForward(q) /\ q.step = "commit" /\ q \in Handler
            BY <1>3 DEF Requests, CommitDelete, At, ReadForward
        <3>. HIDE DEF q
        <3>. DEFINE link(p) == IF p = q.before /\ p \in stages THEN q.after ELSE next[p]
        <3>3. ASSUME NEW p \in Stage
              PROVE  next'[p] = IF p = q.stage \/ link(p) = q.stage THEN None ELSE link(p)
            BY <3>1 DEF Relinked, Cleared
        <3>4. next' \in [Stage -> stages' \cup {None}]
            <4>1. \A p \in Stage : next'[p] \in stages' \cup {None}
                BY <3>1, <3>3 DEF TypeOK
            <4>2. next' = [p \in Stage |-> next'[p]]
                BY <3>1 DEF Relinked, Cleared
            <4> QED
                BY <4>1, <4>2
        <3>5. \A s \in Stage \ stages' : next'[s] = None /\ content'[s] = Empty
            BY <3>1, <3>2, <3>3 DEF TypeOK
        <3>6. \A s \in stages' : next'[s] # None => next'[s] > s
            <4>1. SUFFICES ASSUME NEW s \in stages', next'[s] # None PROVE next'[s] > s
                OBVIOUS
            <4>2. s \in Stage /\ s \in stages /\ next'[s] = link(s)
                BY <3>1, <3>3, <4>1, StagesAreStage
            <4>3. CASE s = q.before
                <5>1. s < q.stage /\ q.after # None /\ q.after > q.stage
                    BY <3>2, <4>1, <4>2, <4>3 DEF ReadForward, Stage, None
                <5> QED
                    BY <3>2, <4>2, <4>3, <5>1, BoundsAssumption DEF Handler, Stage
            <4>4. CASE s # q.before
                BY <4>1, <4>2, <4>4 DEF LinksGoForward
            <4> QED
                BY <4>3, <4>4
        <3>7. content' \in [Stage -> Content] /\ created' \in 0..MaxStages
              /\ stages' \subseteq 1..created' /\ strayed' \in BOOLEAN
            BY <3>1 DEF TypeOK, Content
        <3> QED
            BY <2>1, <3>4, <3>5, <3>6, <3>7 DEF TypeOK, LinksGoForward
    <2> QED
        BY <2>2, <2>3
<1> QED
    BY <1>1, <1>2, <1>3

LEMMA Inductive ==
    Spec => []Inv
<1>1. Init => Inv
    <2>1. SUFFICES ASSUME Init PROVE Inv
        OBVIOUS
    <2>2. TypeOK /\ LinksGoForward
        <3>1. created = 0 /\ stages = {} /\ strayed = FALSE /\ 0 \in 0..MaxStages
            BY <2>1, BoundsAssumption DEF Init
        <3>2. next \in [Stage -> stages \cup {None}] /\ content \in [Stage -> Content]
            BY <2>1 DEF Init, Content
        <3>3. \A s \in Stage : next[s] = None /\ content[s] = Empty
            BY <2>1 DEF Init
        <3> QED
            BY <2>1, <3>1, <3>2, <3>3 DEF Init, TypeOK, LinksGoForward
    <2>3. Requests
        BY <2>1, IdleIsHandler DEF Init, Requests, Idle
    <2> QED
        BY <2>2, <2>3 DEF Inv
<1>2. Inv /\ [Next]_vars => Inv'
    <2>1. ASSUME Inv, Next PROVE Inv'
        BY <2>1, AddKeeps, UpdateKeeps, DeleteKeeps DEF Next
    <2>2. ASSUME Inv, UNCHANGED vars PROVE Inv'
        BY <2>2 DEF vars, Inv, TypeOK, Requests, ReadForward, LinksGoForward
    <2> QED
        BY <2>1, <2>2
<1> QED
    BY <1>1, <1>2, PTL DEF Spec

-----------------------------------------------------------------------------
(* The list holds every stage, as long as it only grows at its end and no two requests that change
   it overlap *)

Working(r) == req[r].step # "idle"

\* Additions go behind the last stage, and no two requests that change the list overlap; or even no
\* two requests.
Orderly == overlap # "list" /\ ~strayed
Tidy == overlap = "none" /\ ~strayed

ListAlone ==
    \A r, o \in Req : /\ Working(r) /\ req[r].op \in ListChanging
                      /\ Working(o) /\ req[o].op \in ListChanging
                      => r = o

\* What a request that deletes a stage has read of the list still holds: where the stage leads to,
\* and which stage leads to it.
ListRead(q) ==
    /\ q.op = "delete" /\ q.step # "idle" => q.stage \in stages /\ q.after = next[q.stage]
    /\ q.op = "delete" /\ q.step = "commit" =>
            /\ q.before \in stages \cup {None}
            /\ \A p \in stages : next[p] = q.stage <=> p = q.before

ListInv == Orderly => /\ ListAlone /\ SingleFile
                      /\ \A r \in Req : ListRead(req[r])

\* What a request that begins says of the others.
LEMMA BeginsAlone ==
    ASSUME NEW r \in Req, NEW h, Begin(r, h)
    PROVE  /\ ~Working(r) /\ req' = [req EXCEPT ![r] = h] /\ Unwritten
           /\ Orderly' =>
                /\ Orderly
                /\ h.op \in ListChanging =>
                        \A o \in Req \ {r} : Working(o) => req[o].op \notin ListChanging
           /\ overlap' = "none" => overlap = "none" /\ \A o \in Req \ {r} : ~Working(o)
           /\ Tidy' => Tidy
<1>. DEFINE others == {req[o].op : o \in {p \in Req \ {r} : req[p].step # "idle"}}
<1>1. /\ req[r].step = "idle" /\ req' = [req EXCEPT ![r] = h] /\ Unwritten
      /\ overlap' = IF h.op \in ListChanging /\ others \cap ListChanging # {} THEN "list"
                    ELSE IF others # {} /\ overlap = "none" THEN "update" ELSE overlap
    BY Zenon DEF Begin
<1>2. \A o \in Req \ {r} : Working(o) => req[o].op \in others
    BY DEF Working
<1>. HIDE DEF others
<1>3. ASSUME overlap' # "list"
      PROVE  /\ overlap # "list"
             /\ h.op \in ListChanging => others \cap ListChanging = {}
    BY <1>1, <1>3
<1>4. ASSUME overlap' = "none"
      PROVE  overlap = "none" /\ others = {}
    BY <1>1, <1>4
<1>5. strayed' = strayed
    BY <1>1 DEF Unwritten
<1> QED
    BY <1>1, <1>2, <1>3, <1>4, <1>5 DEF Working, Orderly, Tidy

\* A step that leaves the list as it is.
LEMMA ListStays ==
    ASSUME Inv, ListInv, NEW r \in Req, NEW h, req' = [req EXCEPT ![r] = h],
           UNCHANGED <<stages, next>>, Orderly' => Orderly,
           /\ Orderly' /\ h.op \in ListChanging /\ h.step # "idle"
           => \A o \in Req \ {r} : Working(o) => req[o].op \notin ListChanging,
           Orderly' => ListRead(h)
    PROVE  ListInv'
<1>1. SUFFICES ASSUME Orderly'
               PROVE  ListAlone' /\ SingleFile' /\ \A o \in Req : ListRead(req[o])'
    BY Zenon DEF ListInv
<1>2. ListAlone /\ SingleFile /\ \A o \in Req : ListRead(req[o])
    BY <1>1 DEF ListInv
<1>3. req'[r] = h /\ \A o \in Req \ {r} : req'[o] = req[o]
    BY DEF Inv, Requests
<1>4. ListAlone'
    BY <1>1, <1>2, <1>3 DEF ListAlone, Working
<1>5. SingleFile'
    BY <1>2 DEF SingleFile
<1>7. ASSUME NEW o \in Req PROVE ListRead(req[o])'
    <2>1. ListRead(req'[o])
        BY <1>1, <1>2, <1>3
    <2> QED
        BY <2>1 DEF ListRead
<1> QED
    BY <1>4, <1>5, <1>7

LEMMA IdleReads == ListRead(Idle) /\ Idle.op = "none" /\ Idle.step = "idle"
BY DEF ListRead, Idle

LEMMA ListStaysAtEnd ==
    ASSUME Inv, ListInv, NEW r \in Req, End(r), UNCHANGED <<stages, next, strayed>>
    PROVE  ListInv'
BY IdleReads, ListStays DEF End, ListChanging, Orderly

LEMMA ListStaysInStep ==
    ASSUME Inv, ListInv, NEW r \in Req, Working(r),
           NEW step \in {"check", "detach", "use", "attach", "commit"}, Continue(r, step),
           req[r].op = "delete" => step # "commit",
           UNCHANGED <<stages, next, strayed>>
    PROVE  ListInv'
<1>. DEFINE h == [req[r] EXCEPT !.step = step]
<1>1. req[r] \in Handler
    BY DEF Inv, Requests
<1>2. /\ h.op = req[r].op /\ h.step = step /\ h.stage = req[r].stage
      /\ h.after = req[r].after /\ h.before = req[r].before
    BY <1>1 DEF Handler
<1>3. req' = [req EXCEPT ![r] = h] /\ overlap' = overlap
    BY DEF Continue
<1>. HIDE DEF h
<1>4. Orderly => ListAlone /\ ListRead(req[r])
    BY DEF ListInv
<1>5. Orderly /\ h.op \in ListChanging
      => \A o \in Req \ {r} : Working(o) => req[o].op \notin ListChanging
    BY <1>2, <1>4 DEF ListAlone
<1>6. Orderly => ListRead(h)
    BY <1>2, <1>4 DEF ListRead, Working
<1> QED
    BY <1>3, <1>5, <1>6, ListStays DEF Orderly

\* The list has an end as soon as there is a stage, and links end there.
LEMMA ListEnds ==
    ASSUME TypeOK, LinksGoForward
    PROVE  /\ LastStage = None => stages = {}
           /\ LastStage # None => LastStage \in stages /\ next[LastStage] = None
<1>. DEFINE ends == {s \in stages : next[s] = None}
<1>1. stages \subseteq Stage /\ None \notin Stage /\ \A s \in Stage : s \in Nat
    BY StagesAreStage, BoundsAssumption DEF Stage, None
<1>2. ends # {} => Greatest(ends) \in ends
    BY <1>1, GreatestIsOne
<1>3. stages # {} => ends # {}
    <2>1. SUFFICES ASSUME stages # {} PROVE Greatest(stages) \in ends
        OBVIOUS
    <2>. DEFINE g == Greatest(stages)
    <2>2. g \in stages /\ \A s \in stages : s <= g
        BY <1>1, <2>1, GreatestIsOne
    <2>. HIDE DEF g
    <2>3. next[g] \in stages => next[g] > g /\ next[g] <= g /\ g \in Nat /\ next[g] \in Nat
        BY <1>1, <2>2 DEF LinksGoForward
    <2>4. next[g] \in stages \cup {None}
        BY <1>1, <2>2 DEF TypeOK
    <2> QED
        BY <2>2, <2>3, <2>4 DEF g
<1>4. LastStage = IF ends = {} THEN None ELSE Greatest(ends)
    BY DEF LastStage
<1> QED
    BY <1>1, <1>2, <1>3, <1>4

\* A step that changes the list, made by the only request that does.
LEMMA ListChanges ==
    ASSUME Inv, ListInv, NEW r \in Req, Working(r), req[r].op \in ListChanging, End(r),
           Orderly' => Orderly /\ SingleFile'
    PROVE  ListInv'
<1>1. SUFFICES ASSUME Orderly
               PROVE  ListAlone' /\ \A o \in Req : ListRead(req[o])'
    BY Zenon DEF ListInv
<1>2. \A o \in Req \ {r} : Working(o) => req[o].op \notin ListChanging
    BY <1>1 DEF ListInv, ListAlone
<1>3. req'[r] = Idle /\ \A o \in Req \ {r} : req'[o] = req[o]
    BY DEF Inv, Requests, End
<1>4. \A o \in Req : req'[o].step # "idle" => req'[o].op \notin ListChanging
    BY <1>2, <1>3, IdleReads DEF Working
<1>5. ListAlone'
    BY <1>4 DEF ListAlone, Working
<1>6. ASSUME NEW o \in Req PROVE ListRead(req[o])'
    BY <1>4 DEF ListRead, ListChanging
<1> QED
    BY <1>5, <1>6

LEMMA ListAfterAdd ==
    ASSUME Inv, ListInv, NEW r \in Req, CommitAdd(r)
    PROVE  ListInv'
<1>. DEFINE q == req[r]
            new == created + 1
<1>1. /\ created' = new /\ stages' = stages \cup {new}
      /\ next' = IF q.before \in stages THEN [next EXCEPT ![q.before] = new] ELSE next
      /\ q.op = "add" /\ q.step = "commit" /\ End(r)
      /\ strayed' = (strayed \/ q.before # LastStage)
    BY DEF CommitAdd, At
<1>2. created \in Nat /\ new \in Stage /\ new \notin stages /\ new # None /\ None \notin stages
    BY BoundsAssumption DEF CommitAdd, Inv, TypeOK, Stage, None
<1>3. next \in [Stage -> stages \cup {None}] /\ next[new] = None /\ stages \subseteq Stage
    BY <1>2, StagesAreStage DEF Inv, TypeOK
<1>4. ASSUME Orderly' PROVE Orderly /\ SingleFile'
    <2>0. Orderly /\ q.before = LastStage
        BY <1>1, <1>4 DEF Orderly, End
    <2>1. SingleFile /\ q.before = LastStage
        BY <2>0 DEF ListInv
    <2>. HIDE DEF q, new
    <2>2. CASE LastStage = None
        <3>1. stages' = {new}
            BY <1>1, <2>2, ListEnds DEF Inv
        <3> QED
            BY <2>0, <3>1 DEF SingleFile
    <2>3. CASE LastStage # None
        <3>1. LastStage \in stages /\ next[LastStage] = None
            BY <2>3, ListEnds DEF Inv
        <3>2. next'[LastStage] = new /\ next'[new] = None
            BY <1>1, <1>2, <1>3, <2>1, <3>1
        <3>3. \A p \in stages \ {LastStage} : next'[p] = next[p] /\ next[p] \in stages
            BY <1>1, <1>3, <2>1, <3>1 DEF SingleFile
        <3> QED
            BY <1>1, <1>2, <2>0, <2>1, <3>2, <3>3 DEF SingleFile
    <2> QED
        BY <2>2, <2>3
<1>5. Working(r) /\ q.op \in ListChanging
    BY <1>1 DEF Working, ListChanging
<1> QED
    BY <1>1, <1>4, <1>5, ListChanges

LEMMA ListAfterDelete ==
    ASSUME Inv, ListInv, NEW r \in Req, CommitDelete(r)
    PROVE  ListInv'
<1>. DEFINE q == req[r]
<1>1. q.op = "delete" /\ q.step = "commit" /\ End(r)
    BY DEF CommitDelete, At
<1>2. CASE Unwritten
    BY <1>1, <1>2, ListStaysAtEnd DEF Unwritten
<1>3. CASE ~Unwritten
    <2>1. stages' = stages \ {q.stage} /\ next' = Relinked(q) /\ strayed' = strayed
        BY <1>3 DEF CommitDelete
    <2>2. ASSUME Orderly PROVE SingleFile'
        <3>1. /\ SingleFile /\ q.stage \in stages /\ q.after = next[q.stage]
              /\ \A p \in stages : next[p] = q.stage <=> p = q.before
            BY <1>1, <2>2 DEF ListInv, ListRead
        <3>2. stages \subseteq Stage /\ \A s \in stages : s \in Nat /\ s # None
            BY StagesAreStage, BoundsAssumption DEF Inv, Stage, None
        <3>. HIDE DEF q
        <3>3. next[q.stage] # q.stage
            <4>1. q.stage \in Nat /\ q.stage # None
                BY <3>1, <3>2
            <4>2. next[q.stage] # None => next[q.stage] > q.stage
                BY <3>1 DEF Inv, LinksGoForward
            <4> QED
                BY <4>1, <4>2
        <3>4. \A p \in stages' : next'[p] = IF p = q.before THEN next[q.stage] ELSE next[p]
            BY <2>1, <3>1, <3>2, <3>3 DEF Relinked, Cleared
        <3> QED
            BY <2>1, <3>1, <3>4 DEF SingleFile
    <2>3. Working(r) /\ q.op \in ListChanging
        BY <1>1 DEF Working, ListChanging
    <2> QED
        BY <1>1, <2>1, <2>2, <2>3, ListChanges DEF End, Orderly
<1> QED
    BY <1>2, <1>3

\* The stage that leads to the deleted one is found in the list.
LEMMA ListOnDecideDelete ==
    ASSUME Inv, ListInv, NEW r \in Req, DecideDelete(r)
    PROVE  ListInv'
<1>. DEFINE q == req[r]
            b == IF Listed(q.stage) /\ Position(q.stage) > 1
                 THEN Ordered[Position(q.stage) - 1] ELSE None
            h == [q EXCEPT !.step = "commit", !.before = b]
<1>1. /\ Unwritten /\ q.op = "delete" /\ q.step = "read"
      /\ (End(r) \/ (req' = [req EXCEPT ![r] = h] /\ overlap' = overlap))
    BY DEF DecideDelete, At
<1>2. CASE End(r)
    BY <1>1, <1>2, ListStaysAtEnd DEF Unwritten
<1>3. CASE req' = [req EXCEPT ![r] = h] /\ overlap' = overlap
    <2>1. /\ h.op = "delete" /\ h.step = "commit" /\ h.stage = q.stage /\ h.after = q.after
          /\ h.before = b
        BY <1>1 DEF Inv, Requests, Handler
    <2>2. Orderly => /\ ListAlone /\ SingleFile
                              /\ q.stage \in stages /\ q.after = next[q.stage]
        BY <1>1 DEF ListInv, ListRead
    <2>3. ASSUME Orderly
          PROVE  /\ b \in stages \cup {None}
                 /\ \A p \in stages : next[p] = q.stage <=> p = b
        <3>1. SortedList
            BY <2>2, <2>3, ListIsSorted DEF Inv
        <3>. DEFINE i == Position(q.stage)
        <3>2. Listed(q.stage) /\ i \in 1..Len(Ordered) /\ Ordered[i] = q.stage
            BY <2>2, <2>3, <3>1 DEF SortedList, Listed, Position
        <3>3. Len(Ordered) \in Nat /\ \A s \in stages : s \in Nat /\ s # None
            BY <3>1, StagesAreStage, BoundsAssumption DEF SortedList, Inv, Stage, None
        <3>4. CASE i > 1
            <4>1. b = Ordered[i - 1] /\ i \in 2..Len(Ordered) /\ i - 1 \in 1..Len(Ordered)
                BY <3>2, <3>3, <3>4
            <4>. HIDE DEF b, i, q
            <4>2. b \in stages
                BY <3>1, <4>1 DEF SortedList
            <4>3. next[b] = q.stage
                BY <3>1, <3>2, <4>1 DEF SortedList
            <4> QED
                BY <2>2, <2>3, <4>2, <4>3 DEF SingleFile
        <3>5. CASE ~(i > 1)
            <4>1. b = None /\ i = 1
                BY <3>2, <3>3, <3>5
            <4>. HIDE DEF b, i, q
            <4>2. ASSUME NEW p \in stages PROVE next[p] # q.stage
                <5>1. PICK j \in 1..Len(Ordered) : Ordered[j] = p
                    BY <3>1 DEF SortedList
                <5>2. j = 1 \/ Ordered[1] < Ordered[j]
                    BY <3>1, <3>2, <3>3, <4>1, <5>1 DEF SortedList
                <5>3. q.stage <= p
                    BY <2>2, <2>3, <3>2, <3>3, <4>1, <5>1, <5>2
                <5>4. next[p] # None => next[p] > p
                    BY DEF Inv, LinksGoForward
                <5> QED
                    BY <2>2, <2>3, <3>3, <5>3, <5>4
            <4> QED
                BY <3>3, <4>1, <4>2
        <3> QED
            BY <3>4, <3>5
    <2>4. Orderly /\ h.op \in ListChanging
          => \A o \in Req \ {r} : Working(o) => req[o].op \notin ListChanging
        BY <1>1, <2>2 DEF ListAlone, ListChanging, Working
    <2>. HIDE DEF h, b
    <2>5. Orderly => ListRead(h)
        BY <2>1, <2>2, <2>3 DEF ListRead
    <2> QED
        BY <1>1, <1>3, <2>4, <2>5, ListStays DEF Unwritten, Orderly
<1> QED
    BY <1>1, <1>2, <1>3

LEMMA ListKept ==
    ASSUME Inv, ListInv, Next
    PROVE  ListInv'
<1>1. PICK r \in Req :
        \/ BeginAdd(r) \/ DecideAdd(r) \/ CheckAdd(r) \/ CommitAdd(r)
        \/ BeginUpdate(r) \/ DecideUpdate(r) \/ Detach(r) \/ CheckUse(r) \/ Attach(r)
        \/ BeginDelete(r) \/ DecideDelete(r) \/ CommitDelete(r)
    BY DEF Next
<1>2. CASE BeginAdd(r)
    <2>1. PICK c \in Content \ {Empty}, source \in stages \cup {None} :
                Begin(r, [Idle EXCEPT !.op = "add", !.step = "read", !.content = c,
                                      !.before = source])
        BY <1>2 DEF BeginAdd
    <2>. DEFINE h == [Idle EXCEPT !.op = "add", !.step = "read", !.content = c,
                                  !.before = source]
    <2>2. ListRead(h)
        BY DEF ListRead, Idle
    <2>. HIDE DEF h
    <2>3. Begin(r, h)
        BY <2>1 DEF h
    <2> QED
        BY <2>2, <2>3, BeginsAlone, ListStays DEF Unwritten
<1>3. CASE BeginUpdate(r)
    <2>1. PICK s \in stages, c \in Content :
                Begin(r, [Idle EXCEPT !.op = "update", !.step = "read", !.stage = s, !.content = c])
        BY <1>3 DEF BeginUpdate
    <2>. DEFINE h == [Idle EXCEPT !.op = "update", !.step = "read", !.stage = s, !.content = c]
    <2>2. ListRead(h)
        BY DEF ListRead, Idle
    <2>. HIDE DEF h
    <2>3. Begin(r, h)
        BY <2>1 DEF h
    <2> QED
        BY <2>2, <2>3, BeginsAlone, ListStays DEF Unwritten
<1>4. CASE BeginDelete(r)
    <2>1. PICK s \in stages :
                Begin(r, [Idle EXCEPT !.op = "delete", !.step = "read", !.stage = s, !.after = next[s]])
        BY <1>4 DEF BeginDelete
    <2>. DEFINE h == [Idle EXCEPT !.op = "delete", !.step = "read", !.stage = s, !.after = next[s]]
    <2>2. ListRead(h)
        BY DEF ListRead, Idle
    <2>. HIDE DEF h
    <2>3. Begin(r, h)
        BY <2>1 DEF h
    <2> QED
        BY <2>2, <2>3, BeginsAlone, ListStays DEF Unwritten
<1>5. CASE DecideAdd(r)
    BY <1>5, ListStaysAtEnd, ListStaysInStep DEF DecideAdd, At, Working, Unwritten
<1>6. CASE CheckAdd(r)
    BY <1>6, ListStaysAtEnd, ListStaysInStep DEF CheckAdd, At, Working, Unwritten
<1>7. CASE DecideUpdate(r)
    BY <1>7, ListStaysAtEnd, ListStaysInStep DEF DecideUpdate, At, Working, Unwritten
<1>8. CASE Detach(r)
    BY <1>8, ListStaysInStep DEF Detach, At, Working
<1>9. CASE CheckUse(r)
    BY <1>9, ListStaysAtEnd, ListStaysInStep DEF CheckUse, At, Working, Unwritten
<1>10. CASE Attach(r)
    BY <1>10, ListStaysAtEnd DEF Attach
<1> QED
    BY <1>1, <1>2, <1>3, <1>4, <1>5, <1>6, <1>7, <1>8, <1>9, <1>10,
       ListAfterAdd, ListAfterDelete, ListOnDecideDelete

LEMMA ListInductive ==
    Spec => [](Inv /\ ListInv)
<1>1. Init => ListInv
    BY IdleReads DEF Init, ListInv, ListAlone, Working, SingleFile
<1>2. Inv /\ ListInv /\ [Next]_vars => ListInv'
    <2>1. ASSUME Inv, ListInv, UNCHANGED vars PROVE ListInv'
        BY <2>1 DEF vars, ListInv, Orderly, ListAlone, Working, SingleFile, ListRead
    <2> QED
        BY <2>1, ListKept
<1> QED
    BY <1>1, <1>2, Inductive, PTL DEF Spec

-----------------------------------------------------------------------------
(* What is before a stage in the list, and what is after it *)

\* Where a stage is in the list, and the lists of the stages before and after it.
LEMMA AroundStage ==
    ASSUME TypeOK, SortedList, NEW s \in stages
    PROVE  LET i == Position(s)
               n == Len(Ordered)
           IN  /\ n \in Nat /\ i \in 1..n /\ Ordered[i] = s
               /\ Prior(s) \in Seq(stages) /\ Len(Prior(s)) = i - 1
               /\ \A k \in 1..(i - 1) : Prior(s)[k] = Ordered[k]
               /\ Later(s) \in Seq(stages) /\ Len(Later(s)) = n - i
               /\ \A k \in 1..(n - i) : Later(s)[k] = Ordered[i + k]
<1>. DEFINE i == Position(s)
            n == Len(Ordered)
<1>1. Listed(s) /\ i \in 1..n /\ Ordered[i] = s
    BY DEF SortedList, Listed, Position
<1>2. n \in Nat /\ Ordered \in Seq(stages)
    BY DEF SortedList
<1>3. Prior(s) = SubSeq(Ordered, 1, i - 1) /\ Later(s) = SubSeq(Ordered, i + 1, n)
    BY <1>1 DEF Prior, Later
<1>. HIDE DEF i, n
<1>4. \A k \in 1..n : Ordered[k] \in stages
    BY <1>2, ElementOfSeq DEF n
<1>5. /\ Prior(s) \in Seq(stages) /\ Len(Prior(s)) = i - 1
      /\ \A k \in 1..(i - 1) : Prior(s)[k] = Ordered[k]
    <2>1. 1 \in Int /\ i - 1 \in Int /\ \A k \in 1..(i - 1) : k \in 1..n /\ 1 + k - 1 = k
        BY <1>1, <1>2
    <2>2. \A k \in 1..(i - 1) : Ordered[k] \in stages
        BY <1>4, <2>1
    <2>3. /\ Prior(s) \in Seq(stages)
          /\ Len(Prior(s)) = IF 1 <= i - 1 THEN (i - 1) - 1 + 1 ELSE 0
          /\ \A k \in 1..((i - 1) - 1 + 1) : Prior(s)[k] = Ordered[1 + k - 1]
        BY <1>3, <2>1, <2>2, SubSeqProperties
    <2> QED
        BY <1>1, <1>2, <2>1, <2>3
<1>6. /\ Later(s) \in Seq(stages) /\ Len(Later(s)) = n - i
      /\ \A k \in 1..(n - i) : Later(s)[k] = Ordered[i + k]
    <2>1. i + 1 \in Int /\ n \in Int /\ \A k \in (i + 1)..n : k \in 1..n
        BY <1>1, <1>2
    <2>2. \A k \in (i + 1)..n : Ordered[k] \in stages
        BY <1>4, <2>1
    <2>3. /\ Later(s) \in Seq(stages)
          /\ Len(Later(s)) = IF i + 1 <= n THEN n - (i + 1) + 1 ELSE 0
          /\ \A k \in 1..(n - (i + 1) + 1) : Later(s)[k] = Ordered[(i + 1) + k - 1]
        BY <1>3, <2>1, <2>2, SubSeqProperties
    <2>4. \A k \in 1..(n - i) : (i + 1) + k - 1 = i + k
        BY <1>1, <1>2
    <2> QED
        BY <1>1, <1>2, <2>3, <2>4
<1> QED
    BY <1>1, <1>2, <1>5, <1>6 DEF i, n

\* Places in the list go by the ids of the stages.
LEMMA PlaceOf ==
    ASSUME TypeOK, SortedList, NEW s \in stages, NEW t \in stages
    PROVE  /\ t < s <=> \E k \in 1..(Position(s) - 1) : Ordered[k] = t
           /\ t > s <=> \E k \in 1..(Len(Ordered) - Position(s)) : Ordered[Position(s) + k] = t
<1>. DEFINE i == Position(s)
            n == Len(Ordered)
<1>1. n \in Nat /\ i \in 1..n /\ Ordered[i] = s
    BY AroundStage
<1>2. \A j, k \in 1..n : j < k => Ordered[j] < Ordered[k]
    BY DEF SortedList
<1>3. PICK j \in 1..n : Ordered[j] = t
    BY DEF SortedList
<1>4. s \in Nat /\ t \in Nat
    BY StagesAreStage, BoundsAssumption DEF Stage
<1>. HIDE DEF i, n
<1>5. (j < i => t < s) /\ (j > i => t > s) /\ (j = i => t = s)
    BY <1>1, <1>2, <1>3
<1>6. (t < s <=> j < i) /\ (t > s <=> j > i)
    BY <1>1, <1>3, <1>4, <1>5
<1>7. ASSUME NEW k \in 1..n, Ordered[k] = t PROVE k = j
    <2>1. (k < j => Ordered[k] < Ordered[j]) /\ (j < k => Ordered[j] < Ordered[k])
        BY <1>2
    <2> QED
        BY <1>1, <1>3, <1>4, <1>7, <2>1
<1>8. t < s <=> \E k \in 1..(i - 1) : Ordered[k] = t
    BY <1>1, <1>3, <1>6, <1>7
<1>9. t > s <=> \E k \in 1..(n - i) : Ordered[i + k] = t
    <2>1. ASSUME t > s PROVE \E k \in 1..(n - i) : Ordered[i + k] = t
        <3>1. j - i \in 1..(n - i) /\ i + (j - i) = j
            BY <1>1, <1>6, <2>1
        <3> QED
            BY <1>3, <3>1
    <2>2. ASSUME NEW k \in 1..(n - i), Ordered[i + k] = t PROVE t > s
        <3>1. i + k \in 1..n /\ i + k > i
            BY <1>1
        <3>2. i + k = j
            BY <1>7, <2>2, <3>1
        <3> QED
            BY <1>6, <3>1, <3>2
    <2> QED
        BY <2>1, <2>2
<1> QED
    BY <1>8, <1>9 DEF i, n

\* Whether there is a stage that holds one of some things, in the list, before a stage or after it.
LEMMA HoldsSomewhere ==
    ASSUME TypeOK, SortedList, NEW S
    PROVE  /\ Holds(Ordered, S) <=> \E t \in stages : content[t] \in S
           /\ \A s \in stages :
                /\ Holds(Prior(s), S) <=> \E t \in stages : t < s /\ content[t] \in S
                /\ Holds(Later(s), S) <=> \E t \in stages : t > s /\ content[t] \in S
<1>1. \A k \in 1..Len(Ordered) : Ordered[k] \in stages
    BY ElementOfSeq DEF SortedList
<1>2. Holds(Ordered, S) <=> \E t \in stages : content[t] \in S
    BY <1>1 DEF SortedList, Holds
<1>3. ASSUME NEW s \in stages
      PROVE  Holds(Prior(s), S) <=> \E t \in stages : t < s /\ content[t] \in S
    <2>. DEFINE i == Position(s)
    <2>1. /\ i \in 1..Len(Ordered) /\ Prior(s) \in Seq(stages) /\ Len(Prior(s)) = i - 1
          /\ \A k \in 1..(i - 1) : Prior(s)[k] = Ordered[k]
        BY AroundStage
    <2>2. DOMAIN Prior(s) = 1..(i - 1) /\ \A k \in 1..(i - 1) : Prior(s)[k] \in stages
        BY <2>1, LenProperties, ElementOfSeq
    <2>3. \A t \in stages : t < s <=> \E k \in 1..(i - 1) : Ordered[k] = t
        BY PlaceOf
    <2>. HIDE DEF i
    <2> QED
        BY <2>1, <2>2, <2>3 DEF Holds
<1>4. ASSUME NEW s \in stages
      PROVE  Holds(Later(s), S) <=> \E t \in stages : t > s /\ content[t] \in S
    <2>. DEFINE i == Position(s)
                m == Len(Ordered) - i
    <2>1. /\ i \in 1..Len(Ordered) /\ Later(s) \in Seq(stages) /\ Len(Later(s)) = m
          /\ \A k \in 1..m : Later(s)[k] = Ordered[i + k]
        BY AroundStage
    <2>2. DOMAIN Later(s) = 1..m /\ \A k \in 1..m : Later(s)[k] \in stages
        BY <2>1, LenProperties, ElementOfSeq
    <2>3. \A t \in stages : t > s <=> \E k \in 1..m : Ordered[i + k] = t
        BY PlaceOf
    <2>4. Len(Ordered) \in Nat
        BY DEF SortedList
    <2>. HIDE DEF i, m
    <2>5. \A t \in stages : t > s <=> \E k \in 1..m : Later(s)[k] = t
        BY <2>1, <2>3, <2>4
    <2> QED
        BY <2>2, <2>5 DEF Holds
<1> QED
    BY <1>2, <1>3, <1>4

\* The first of the stages left when one is deleted is the least of them.
LEMMA FirstLeft ==
    ASSUME TypeOK, SortedList, NEW s \in stages, NEW t \in stages \ {s}
    PROVE  LET left == Prior(s) \o Later(s)
           IN  /\ left # <<>> /\ 1 \in DOMAIN left
               /\ left[1] \in stages \ {s} /\ left[1] <= t
<1>. DEFINE i == Position(s)
            n == Len(Ordered)
            left == Prior(s) \o Later(s)
<1>1. /\ n \in Nat /\ i \in 1..n /\ Ordered[i] = s
      /\ Prior(s) \in Seq(stages) /\ Len(Prior(s)) = i - 1
      /\ \A k \in 1..(i - 1) : Prior(s)[k] = Ordered[k]
      /\ Later(s) \in Seq(stages) /\ Len(Later(s)) = n - i
      /\ \A k \in 1..(n - i) : Later(s)[k] = Ordered[i + k]
    BY AroundStage
<1>2. \A j, k \in 1..n : j < k => Ordered[j] < Ordered[k]
    BY DEF SortedList
<1>3. PICK j \in 1..n : Ordered[j] = t
    BY DEF SortedList
<1>4. \A x \in stages : x \in Nat
    BY StagesAreStage, BoundsAssumption DEF Stage
<1>5. /\ left \in Seq(stages) /\ Len(left) = Len(Prior(s)) + Len(Later(s))
      /\ \A k \in 1..(Len(Prior(s)) + Len(Later(s))) :
            left[k] = IF k <= Len(Prior(s)) THEN Prior(s)[k] ELSE Later(s)[k - Len(Prior(s))]
    BY <1>1, ConcatProperties
<1>. HIDE DEF i, n, left
<1>6. j # i
    BY <1>1, <1>3
<1>7. Len(left) = n - 1 /\ n - 1 >= 1 /\ 1 \in 1..(Len(Prior(s)) + Len(Later(s)))
    BY <1>1, <1>3, <1>5, <1>6
<1>8. left # <<>> /\ 1 \in DOMAIN left /\ left[1] \in stages
    BY <1>5, <1>7, LenProperties, ElementOfSeq, EmptySeq
<1>9. PICK k \in 1..n : left[1] = Ordered[k] /\ k # i /\ k <= j
    <2>1. CASE i > 1
        <3>1. left[1] = Ordered[1]
            BY <1>1, <1>5, <1>7, <2>1
        <3> QED
            BY <1>1, <1>3, <2>1, <3>1
    <2>2. CASE i = 1
        <3>1. left[1] = Ordered[2] /\ 2 \in 1..n
            BY <1>1, <1>5, <1>7, <2>2
        <3> QED
            BY <1>1, <1>3, <1>6, <2>2, <3>1
    <2> QED
        BY <1>1, <2>1, <2>2
<1>10. left[1] <= t
    BY <1>2, <1>3, <1>4, <1>8, <1>9
<1>11. left[1] # s
    <2>1. k < i \/ i < k
        BY <1>1, <1>9
    <2>2. Ordered[k] < Ordered[i] \/ Ordered[i] < Ordered[k]
        BY <1>1, <1>2, <1>9, <2>1
    <2> QED
        BY <1>1, <1>4, <1>8, <1>9, <2>2
<1> QED
    BY <1>8, <1>10, <1>11 DEF left

-----------------------------------------------------------------------------
(* Groups come last, with one request at a time and additions behind the last stage *)

\* No instance comes after a group, and no group is first, in the order of the ids.
GroupLast(S, holds) ==
    /\ \A s, t \in S : s < t /\ holds[s] = Group => holds[t] \notin Instance
    /\ \A s \in S : holds[s] = Group => \E p \in S : p < s

\* A stage may come to hold something new: after all the others, or at its place.
FitsLast(c) ==
    /\ c = Group => stages # {}
    /\ c \in Instance => \A s \in stages : content[s] # Group

FitsAt(s, c) ==
    /\ c = Group => /\ \E p \in stages : p < s
                    /\ \A t \in stages : t > s => content[t] \notin Instance
    /\ c \in Instance => \A p \in stages : p < s => content[p] # Group

\* What a request has checked still holds.
Checked(q) ==
    /\ q.op = "add" /\ q.step \in {"check", "commit"} => FitsLast(q.content)
    /\ q.op = "update" /\ q.step # "idle" => q.stage \in stages
    /\ q.op = "update" /\ q.step \in {"detach", "use", "attach"} => FitsAt(q.stage, q.content)
    /\ q.op = "delete" /\ q.step = "commit" => GroupLast(stages \ {q.stage}, content)

OneAtATime == \A r, o \in Req : Working(r) /\ Working(o) => r = o

OrderInv ==
    Tidy => /\ OneAtATime /\ GroupLast(stages, content)
            /\ \A r \in Req : Checked(req[r])

LEMMA IdleIsChecked == Checked(Idle) /\ Idle.step = "idle"
BY DEF Checked, Idle

LEMMA KindsDiffer ==
    Group \notin Instance /\ Git \notin Instance /\ Empty \notin Instance
    /\ Group # Git /\ Group # Empty /\ Git # Empty
BY ContentAssumption DEF Group, Git, Empty

\* A step of the only request there is.
LEMMA OneStep ==
    ASSUME Inv, OrderInv, NEW r \in Req, NEW h, req' = [req EXCEPT ![r] = h],
           Tidy' =>
                /\ Tidy /\ \A o \in Req \ {r} : ~Working(o)
                /\ GroupLast(stages, content)' /\ Checked(h)'
    PROVE  OrderInv'
<1>1. SUFFICES ASSUME Tidy'
               PROVE  OneAtATime' /\ \A o \in Req : Checked(req[o])'
    BY Zenon DEF OrderInv
<1>2. req'[r] = h /\ \A o \in Req \ {r} : req'[o] = req[o] /\ req'[o].step = "idle"
    BY <1>1 DEF Inv, Requests, Working
<1>3. OneAtATime'
    BY <1>2 DEF OneAtATime, Working
<1>4. ASSUME NEW o \in Req PROVE Checked(req[o])'
    <2>1. CASE o = r
        <3>1. Checked(h)'
            BY <1>1
        <3> QED
            BY <1>2, <2>1, <3>1 DEF Checked
    <2>2. CASE o # r
        BY <1>2, <2>2 DEF Checked
    <2> QED
        BY <2>1, <2>2
<1> QED
    BY <1>3, <1>4

LEMMA NobodyElse ==
    ASSUME OrderInv, Tidy, NEW r \in Req, Working(r)
    PROVE  /\ \A o \in Req \ {r} : ~Working(o)
           /\ GroupLast(stages, content) /\ Checked(req[r])
BY DEF OrderInv, OneAtATime

\* A request that ends, or goes on, without changing what stages hold.
LEMMA OrderAtEnd ==
    ASSUME Inv, OrderInv, NEW r \in Req, Working(r), End(r),
           Tidy' => Tidy /\ GroupLast(stages, content)'
    PROVE  OrderInv'
<1>1. req' = [req EXCEPT ![r] = Idle]
    BY DEF End
<1>2. Checked(Idle)'
    BY DEF Checked, Idle
<1> QED
    BY <1>1, <1>2, NobodyElse, OneStep

LEMMA NothingHeldAnew ==
    ASSUME Unwritten
    PROVE  /\ GroupLast(stages, content) => GroupLast(stages, content)'
           /\ \A q : Checked(q) => Checked(q)'
BY DEF Unwritten, GroupLast, Checked, FitsLast, FitsAt

\* The slot of a request that goes on with its next step.
LEMMA NextStep ==
    ASSUME Inv, NEW r \in Req, NEW step, Continue(r, step)
    PROVE  \E h : /\ req' = [req EXCEPT ![r] = h] /\ overlap' = overlap
                  /\ h.op = req[r].op /\ h.step = step /\ h.stage = req[r].stage
                  /\ h.content = req[r].content
<1>. DEFINE h == [req[r] EXCEPT !.step = step]
<1>1. req[r] \in Handler
    BY DEF Inv, Requests
<1>2. h.op = req[r].op /\ h.step = step /\ h.stage = req[r].stage /\ h.content = req[r].content
    BY <1>1 DEF Handler
<1>3. req' = [req EXCEPT ![r] = h] /\ overlap' = overlap
    BY DEF Continue
<1> QED
    BY <1>2, <1>3

\* The three operations begin.
LEMMA OrderOnBegin ==
    ASSUME Inv, OrderInv, NEW r \in Req, BeginAdd(r) \/ BeginUpdate(r) \/ BeginDelete(r)
    PROVE  OrderInv'
<1>1. ASSUME NEW h, Begin(r, h), Checked(h) PROVE OrderInv'
    <2>3. /\ req' = [req EXCEPT ![r] = h] /\ Unwritten /\ (Tidy' => Tidy)
          /\ overlap' = "none" => \A o \in Req \ {r} : ~Working(o)
        BY <1>1, BeginsAlone, Zenon
    <2>1. Tidy' => Tidy /\ \A o \in Req \ {r} : ~Working(o)
        BY <2>3 DEF Tidy
    <2>2. Tidy => GroupLast(stages, content)
        BY DEF OrderInv
    <2> QED
        BY <1>1, <2>1, <2>2, <2>3, NothingHeldAnew, OneStep
<1>2. CASE BeginAdd(r)
    <2>1. PICK c \in Content \ {Empty}, source \in stages \cup {None} :
                Begin(r, [Idle EXCEPT !.op = "add", !.step = "read", !.content = c,
                                      !.before = source])
        BY <1>2 DEF BeginAdd
    <2>. DEFINE h == [Idle EXCEPT !.op = "add", !.step = "read", !.content = c,
                                  !.before = source]
    <2>2. Checked(h)
        BY DEF Checked, Idle
    <2>. HIDE DEF h
    <2> QED
        BY <1>1, <2>1, <2>2 DEF h
<1>3. CASE BeginUpdate(r)
    <2>1. PICK s \in stages, c \in Content :
                Begin(r, [Idle EXCEPT !.op = "update", !.step = "read", !.stage = s, !.content = c])
        BY <1>3 DEF BeginUpdate
    <2>. DEFINE h == [Idle EXCEPT !.op = "update", !.step = "read", !.stage = s, !.content = c]
    <2>2. Checked(h)
        BY DEF Checked, Idle
    <2>. HIDE DEF h
    <2> QED
        BY <1>1, <2>1, <2>2 DEF h
<1>4. CASE BeginDelete(r)
    <2>1. PICK s \in stages :
                Begin(r, [Idle EXCEPT !.op = "delete", !.step = "read", !.stage = s, !.after = next[s]])
        BY <1>4 DEF BeginDelete
    <2>. DEFINE h == [Idle EXCEPT !.op = "delete", !.step = "read", !.stage = s, !.after = next[s]]
    <2>2. Checked(h)
        BY DEF Checked, Idle
    <2>. HIDE DEF h
    <2> QED
        BY <1>1, <2>1, <2>2 DEF h
<1> QED
    BY <1>2, <1>3, <1>4

LEMMA OrderOnAdd ==
    ASSUME Inv, ListInv, OrderInv, NEW r \in Req, DecideAdd(r) \/ CheckAdd(r) \/ CommitAdd(r)
    PROVE  OrderInv'
<1>. DEFINE q == req[r]
<1>1. Working(r) /\ q.op = "add"
    BY DEF DecideAdd, CheckAdd, CommitAdd, At, Working
<1>2. Tidy => /\ \A o \in Req \ {r} : ~Working(o)
              /\ GroupLast(stages, content) /\ Checked(q)
    BY <1>1, NobodyElse
<1>3. ASSUME Unwritten, End(r) PROVE OrderInv'
    BY <1>1, <1>2, <1>3, OrderAtEnd, NothingHeldAnew DEF Unwritten, End, Tidy
<1>4. ASSUME Unwritten, NEW step \in {"check", "commit"}, Continue(r, step),
             Tidy => FitsLast(q.content)
      PROVE  OrderInv'
    <2>1. PICK h : /\ req' = [req EXCEPT ![r] = h] /\ overlap' = overlap
                   /\ h.op = "add" /\ h.step = step /\ h.content = q.content
        BY <1>1, <1>4, NextStep
    <2>2. Tidy => Checked(h)
        BY <1>4, <2>1 DEF Checked
    <2> QED
        BY <1>2, <1>4, <2>1, <2>2, NothingHeldAnew, OneStep DEF Unwritten, Tidy
<1>5. CASE DecideAdd(r)
    <2>1. Unwritten /\ (IF AddRefused(q) THEN End(r) ELSE Continue(r, "check"))
        BY <1>5 DEF DecideAdd
    <2>2. ASSUME Tidy, ~AddRefused(q) PROVE FitsLast(q.content)
        <3>1. SortedList
            BY <2>2, ListIsSorted DEF ListInv, Inv, Orderly, Tidy
        <3>2. Holds(Ordered, {Group}) <=> \E t \in stages : content[t] \in {Group}
            BY <3>1, HoldsSomewhere DEF Inv
        <3> QED
            BY <2>2, <3>2 DEF AddRefused, FitsLast
    <2> QED
        BY <1>3, <1>4, <2>1, <2>2
<1>6. CASE CheckAdd(r)
    <2>1. /\ Unwritten /\ q.step = "check"
          /\ End(r) \/ Continue(r, "commit")
        BY <1>6 DEF CheckAdd, At
    <2>2. Tidy => FitsLast(q.content)
        BY <1>1, <1>2, <2>1 DEF Checked
    <2> QED
        BY <1>3, <1>4, <2>1, <2>2
<1>7. CASE CommitAdd(r)
    <2>. DEFINE new == created + 1
    <2>1. /\ stages' = stages \cup {new} /\ content' = [content EXCEPT ![new] = q.content]
          /\ End(r) /\ q.step = "commit" /\ (~strayed' => ~strayed)
        BY <1>7 DEF CommitAdd, At
    <2>2. new \in Stage /\ content \in [Stage -> Content] /\ stages \subseteq Stage
          /\ (\A s \in stages : s < new) /\ new \notin stages
        BY <1>7, StagesAreStage, BoundsAssumption DEF CommitAdd, Inv, TypeOK, Stage
    <2>3. content'[new] = q.content /\ \A s \in stages : content'[s] = content[s]
        BY <2>1, <2>2
    <2>4. ASSUME Tidy PROVE GroupLast(stages, content)'
        <3>1. GroupLast(stages, content) /\ FitsLast(q.content)
            BY <1>1, <1>2, <2>1, <2>4 DEF Checked
        <3>2. \A s \in stages' : s \in Nat
            BY <2>1, <2>2, BoundsAssumption DEF Stage
        <3>. HIDE DEF q, new
        <3>4. \A s, t \in stages' : s < t /\ content'[s] = Group => content'[t] \notin Instance
            <4>1. SUFFICES ASSUME NEW s \in stages', NEW t \in stages', s < t,
                                  content'[s] = Group
                           PROVE  content'[t] \notin Instance
                OBVIOUS
            <4>2. s \in stages
                <5>1. s = new => t < s \/ t = s
                    BY <2>1, <2>2
                <5> QED
                    BY <2>1, <3>2, <4>1, <5>1
            <4> QED
                BY <2>1, <2>3, <3>1, <4>1, <4>2 DEF FitsLast, GroupLast
        <3>5. \A s \in stages' : content'[s] = Group => \E p \in stages' : p < s
            BY <2>1, <2>2, <2>3, <3>1 DEF FitsLast, GroupLast
        <3> QED
            BY <3>4, <3>5 DEF GroupLast
    <2> QED
        BY <1>1, <2>1, <2>4, OrderAtEnd DEF End, Tidy
<1> QED
    BY <1>5, <1>6, <1>7

\* What the update of a stage checks, in terms of the ids of the stages.
LEMMA UpdateFits ==
    ASSUME TypeOK, SortedList, NEW q, q.stage \in stages, ~UpdateRefused(q)
    PROVE  FitsAt(q.stage, q.content)
<1>. DEFINE s == q.stage
            i == Position(s)
<1>1. CASE q.content = Group
    <2>1. Ordered[1] # s /\ ~Holds(Later(s), Content \ {Group})
        BY <1>1, KindsDiffer DEF UpdateRefused
    <2>2. Len(Ordered) \in Nat /\ i \in 1..Len(Ordered) /\ Ordered[i] = s
        BY AroundStage
    <2>. HIDE DEF i, s
    <2>3. 1 \in 1..Len(Ordered) /\ i # 1 /\ 1 < i
        BY <2>1, <2>2
    <2>4. Ordered[1] < s /\ Ordered[1] \in stages
        BY <2>2, <2>3, ElementOfSeq DEF SortedList
    <2>5. \A t \in stages : t > s => content[t] \notin Content \ {Group}
        BY <2>1, HoldsSomewhere DEF s
    <2>6. Instance \subseteq Content \ {Group}
        BY KindsDiffer DEF Content
    <2> QED
        BY <1>1, <2>4, <2>5, <2>6, KindsDiffer DEF FitsAt, s
<1>2. CASE q.content \in Instance
    <2>1. ~Holds(Prior(s), {Group})
        BY <1>2, KindsDiffer DEF UpdateRefused
    <2>2. \A p \in stages : p < s => content[p] \notin {Group}
        BY <2>1, HoldsSomewhere
    <2> QED
        BY <1>2, <2>2, KindsDiffer DEF FitsAt
<1>3. CASE q.content # Group /\ q.content \notin Instance
    BY <1>3 DEF FitsAt
<1> QED
    BY <1>1, <1>2, <1>3

LEMMA OrderOnUpdate ==
    ASSUME Inv, ListInv, OrderInv, NEW r \in Req,
           DecideUpdate(r) \/ Detach(r) \/ CheckUse(r) \/ Attach(r)
    PROVE  OrderInv'
<1>. DEFINE q == req[r]
<1>1. Working(r) /\ q.op = "update"
    BY DEF DecideUpdate, Detach, CheckUse, Attach, At, Working
<1>2. Tidy => /\ \A o \in Req \ {r} : ~Working(o)
              /\ GroupLast(stages, content) /\ Checked(q)
              /\ q.stage \in stages
    BY <1>1, NobodyElse DEF Checked, Working
<1>3. ASSUME Unwritten, End(r) PROVE OrderInv'
    BY <1>1, <1>2, <1>3, OrderAtEnd, NothingHeldAnew DEF Unwritten, End, Tidy
<1>4. ASSUME Unwritten, NEW step \in {"detach", "attach"}, Continue(r, step),
             Tidy => FitsAt(q.stage, q.content)
      PROVE  OrderInv'
    <2>1. PICK h : /\ req' = [req EXCEPT ![r] = h] /\ overlap' = overlap
                   /\ h.op = "update" /\ h.step = step /\ h.stage = q.stage
                   /\ h.content = q.content
        BY <1>1, <1>4, NextStep
    <2>2. Tidy => Checked(h)
        BY <1>2, <1>4, <2>1 DEF Checked
    <2> QED
        BY <1>2, <1>4, <2>1, <2>2, NothingHeldAnew, OneStep DEF Unwritten, Tidy
<1>5. CASE DecideUpdate(r)
    <2>1. Unwritten /\ (IF UpdateRefused(q) THEN End(r) ELSE Continue(r, "detach"))
        BY <1>5 DEF DecideUpdate
    <2>2. ASSUME Tidy, ~UpdateRefused(q) PROVE FitsAt(q.stage, q.content)
        BY <1>2, <2>2, ListIsSorted, UpdateFits DEF ListInv, Inv, Orderly, Tidy
    <2> QED
        BY <1>3, <1>4, <2>1, <2>2
<1>6. CASE CheckUse(r)
    <2>1. /\ Unwritten /\ q.step = "use"
          /\ End(r) \/ Continue(r, "attach")
        BY <1>6 DEF CheckUse, At
    <2>2. Tidy => FitsAt(q.stage, q.content)
        BY <1>1, <1>2, <2>1 DEF Checked
    <2> QED
        BY <1>3, <1>4, <2>1, <2>2
<1>7. CASE Detach(r)
    <2>1. /\ content' = content \/ content' = [content EXCEPT ![q.stage] = Empty]
          /\ Continue(r, "use") /\ UNCHANGED <<stages, strayed>> /\ q.step = "detach"
        BY <1>7 DEF Detach, At
    <2>2. content \in [Stage -> Content]
        BY DEF Inv, TypeOK
    <2>3. \A s \in stages : content'[s] = content[s] \/ content'[s] = Empty
        BY <2>1, <2>2, StagesAreStage DEF Inv
    <2>4. PICK h : /\ req' = [req EXCEPT ![r] = h] /\ overlap' = overlap
                   /\ h.op = "update" /\ h.step = "use" /\ h.stage = q.stage
                   /\ h.content = q.content
        BY <1>1, <2>1, NextStep
    <2>5. ASSUME Tidy
          PROVE  GroupLast(stages, content)' /\ Checked(h)'
        <3>1. /\ GroupLast(stages, content)
              /\ FitsAt(q.stage, q.content) /\ q.stage \in stages
            BY <1>1, <1>2, <2>1, <2>5 DEF Checked
        <3>. HIDE DEF q
        <3>3. GroupLast(stages, content)'
            BY <2>1, <2>3, <3>1, KindsDiffer DEF GroupLast
        <3>4. FitsAt(h.stage, h.content)'
            BY <2>1, <2>3, <2>4, <3>1, KindsDiffer DEF FitsAt
        <3> QED
            BY <2>1, <2>4, <3>1, <3>3, <3>4 DEF Checked
    <2> QED
        BY <1>2, <2>1, <2>4, <2>5, OneStep DEF Tidy
<1>8. CASE Attach(r)
    <2>1. /\ End(r) /\ UNCHANGED <<stages, strayed>> /\ q.step = "attach"
          /\ content' = content \/ content' = [content EXCEPT ![q.stage] = q.content]
        BY <1>8 DEF Attach, At
    <2>2. content \in [Stage -> Content]
        BY DEF Inv, TypeOK
    <2>3. ASSUME Tidy PROVE GroupLast(stages, content)'
        <3>1. /\ GroupLast(stages, content) /\ q.stage \in stages
              /\ FitsAt(q.stage, q.content)
            BY <1>1, <1>2, <2>1, <2>3 DEF Checked
        <3>2. CASE content' = content
            BY <2>1, <3>1, <3>2 DEF GroupLast
        <3>3. CASE content' = [content EXCEPT ![q.stage] = q.content]
            <4>1. /\ content'[q.stage] = q.content
                  /\ \A s \in stages \ {q.stage} : content'[s] = content[s]
                BY <2>2, <3>1, <3>3, StagesAreStage DEF Inv
            <4>2. \A s \in stages : s \in Nat
                BY StagesAreStage, BoundsAssumption DEF Inv, Stage
            <4>. HIDE DEF q
            <4>4. \A s, t \in stages : s < t /\ content'[s] = Group => content'[t] \notin Instance
                BY <3>1, <4>1, <4>2, KindsDiffer DEF GroupLast, FitsAt
            <4>5. \A s \in stages : content'[s] = Group => \E p \in stages : p < s
                BY <3>1, <4>1 DEF GroupLast, FitsAt
            <4> QED
                BY <2>1, <4>4, <4>5 DEF GroupLast
        <3> QED
            BY <2>1, <3>2, <3>3
    <2> QED
        BY <1>1, <2>1, <2>3, OrderAtEnd DEF End, Tidy
<1> QED
    BY <1>5, <1>6, <1>7, <1>8

\* The stages left when one is deleted are checked as a whole.
LEMMA DeleteFits ==
    ASSUME TypeOK, SortedList, GroupLast(stages, content), NEW q, q.stage \in stages,
           ~DeleteRefused(q)
    PROVE  GroupLast(stages \ {q.stage}, content)
<1>. DEFINE left == Prior(q.stage) \o Later(q.stage)
            contents == [i \in DOMAIN left |-> content[left[i]]]
<1>1. left # <<>> => contents[1] # Group
    BY DEF DeleteRefused, Valid
<1>2. ASSUME NEW t \in stages \ {q.stage}, content[t] = Group
      PROVE  \E p \in stages \ {q.stage} : p < t
    <2>1. left # <<>> /\ 1 \in DOMAIN left /\ left[1] \in stages \ {q.stage} /\ left[1] <= t
        BY FirstLeft
    <2>. HIDE DEF left
    <2>2. content[left[1]] # Group
        BY <1>1, <2>1
    <2>3. left[1] # t
        BY <1>2, <2>2
    <2>4. left[1] \in Nat /\ t \in Nat
        BY <2>1, StagesAreStage, BoundsAssumption DEF Stage
    <2> QED
        BY <2>1, <2>3, <2>4
<1> QED
    BY <1>2 DEF GroupLast

LEMMA OrderOnDelete ==
    ASSUME Inv, ListInv, OrderInv, NEW r \in Req, DecideDelete(r) \/ CommitDelete(r)
    PROVE  OrderInv'
<1>. DEFINE q == req[r]
<1>1. Working(r) /\ q.op = "delete"
    BY DEF DecideDelete, CommitDelete, At, Working
<1>2. Tidy => /\ \A o \in Req \ {r} : ~Working(o)
              /\ GroupLast(stages, content) /\ Checked(q)
    BY <1>1, NobodyElse
<1>3. ASSUME Unwritten, End(r) PROVE OrderInv'
    BY <1>1, <1>2, <1>3, OrderAtEnd, NothingHeldAnew DEF Unwritten, End, Tidy
<1>4. CASE DecideDelete(r)
    <2>. DEFINE b == IF Listed(q.stage) /\ Position(q.stage) > 1
                     THEN Ordered[Position(q.stage) - 1] ELSE None
                h == [q EXCEPT !.step = "commit", !.before = b]
    <2>1. /\ Unwritten
          /\ IF DeleteRefused(q) THEN End(r)
             ELSE req' = [req EXCEPT ![r] = h] /\ overlap' = overlap
        BY <1>4 DEF DecideDelete
    <2>2. CASE DeleteRefused(q)
        BY <1>3, <2>1, <2>2
    <2>3. CASE ~DeleteRefused(q)
        <3>1. h.op = "delete" /\ h.step = "commit" /\ h.stage = q.stage
            BY <1>1 DEF Inv, Requests, Handler
        <3>2. ASSUME Tidy PROVE GroupLast(stages \ {q.stage}, content)
            <4>1. SortedList
                BY <3>2, ListIsSorted DEF ListInv, Inv, Orderly, Tidy
            <4>2. q.stage \in stages
                BY <1>1, <3>2 DEF ListInv, ListRead, Working, Orderly, Tidy
            <4> QED
                BY <1>2, <2>3, <3>2, <4>1, <4>2, DeleteFits DEF Inv
        <3>. HIDE DEF h
        <3>3. Tidy => Checked(h)
            BY <3>1, <3>2 DEF Checked
        <3>4. req' = [req EXCEPT ![r] = h] /\ overlap' = overlap
            BY <2>1, <2>3
        <3> QED
            BY <1>2, <2>1, <3>3, <3>4, NothingHeldAnew, OneStep DEF Unwritten, Tidy
    <2> QED
        BY <2>2, <2>3
<1>5. CASE CommitDelete(r)
    <2>1. End(r) /\ q.step = "commit"
        BY <1>5 DEF CommitDelete, At
    <2>2. CASE Unwritten
        BY <1>3, <2>1, <2>2
    <2>3. CASE ~Unwritten
        <3>1. /\ stages' = stages \ {q.stage} /\ content' = [content EXCEPT ![q.stage] = Empty]
              /\ strayed' = strayed
            BY <1>5, <2>3 DEF CommitDelete
        <3>2. content \in [Stage -> Content] /\ stages \subseteq Stage
            BY StagesAreStage DEF Inv, TypeOK
        <3>3. \A s \in stages' : s \in stages \ {q.stage} /\ content'[s] = content[s]
            BY <3>1, <3>2
        <3>4. ASSUME Tidy PROVE GroupLast(stages, content)'
            <4>1. GroupLast(stages \ {q.stage}, content)
                BY <1>1, <1>2, <2>1, <3>4 DEF Checked
            <4>. HIDE DEF q
            <4> QED
                BY <3>1, <3>3, <4>1 DEF GroupLast
        <3> QED
            BY <1>1, <2>1, <3>1, <3>4, OrderAtEnd DEF End, Tidy
    <2> QED
        BY <2>2, <2>3
<1> QED
    BY <1>4, <1>5

LEMMA OrderInductive ==
    Spec => [](Inv /\ ListInv /\ OrderInv)
<1>1. Init => OrderInv
    BY IdleIsChecked DEF Init, OrderInv, OneAtATime, Working, GroupLast
<1>2. Inv /\ ListInv /\ OrderInv /\ [Next]_vars => OrderInv'
    <2>1. ASSUME Inv, ListInv, OrderInv, Next PROVE OrderInv'
        BY <2>1, OrderOnBegin, OrderOnAdd, OrderOnUpdate, OrderOnDelete DEF Next
    <2>2. ASSUME OrderInv, UNCHANGED vars PROVE OrderInv'
        BY <2>2 DEF vars, OrderInv, Tidy, OneAtATime, Working, GroupLast, Checked, FitsLast, FitsAt
    <2> QED
        BY <2>1, <2>2
<1> QED
    BY <1>1, <1>2, ListInductive, PTL DEF Spec

-----------------------------------------------------------------------------
(* An instance is held once, with one request at a time, wherever stages are added *)

Once == \A s, t \in stages : content[s] \in Instance /\ content[s] = content[t] => s = t

\* What a stage is to hold has not come into use since it was checked.
Free(q) == q.step = "attach" \/ (q.op = "add" /\ q.step = "commit") => ~InUse(q.content)

OnceInv == overlap = "none" => OneAtATime /\ Once /\ \A r \in Req : Free(req[r])

LEMMA OnceStep ==
    ASSUME Inv, OnceInv, NEW r \in Req, NEW h, req' = [req EXCEPT ![r] = h],
           overlap' = "none" =>
                /\ overlap = "none" /\ \A o \in Req \ {r} : ~Working(o)
                /\ Once' /\ Free(h)'
    PROVE  OnceInv'
<1>1. SUFFICES ASSUME overlap' = "none"
               PROVE  OneAtATime' /\ \A o \in Req : Free(req[o])'
    BY Zenon DEF OnceInv
<1>2. req'[r] = h /\ \A o \in Req \ {r} : req'[o] = req[o] /\ req'[o].step = "idle"
    BY <1>1 DEF Inv, Requests, Working
<1>3. OneAtATime'
    BY <1>2 DEF OneAtATime, Working
<1>4. ASSUME NEW o \in Req PROVE Free(req[o])'
    <2>1. CASE o = r
        <3>1. Free(h)'
            BY <1>1
        <3> QED
            BY <1>2, <2>1, <3>1 DEF Free
    <2>2. CASE o # r
        BY <1>2, <2>2 DEF Free
    <2> QED
        BY <2>1, <2>2
<1> QED
    BY <1>3, <1>4

\* A request begins, or a step of it writes nothing.
LEMMA OnceUnwritten ==
    ASSUME Inv, OnceInv, NEW r \in Req, NEW h, req' = [req EXCEPT ![r] = h], Unwritten,
           overlap' = "none" => overlap = "none" /\ \A o \in Req \ {r} : ~Working(o),
           overlap = "none" => Free(h)
    PROVE  OnceInv'
<1>1. (Once => Once') /\ (Free(h) => Free(h)')
    BY DEF Unwritten, Once, Free, InUse
<1>2. overlap = "none" => Once
    BY DEF OnceInv
<1> QED
    BY <1>1, <1>2, OnceStep

LEMMA OnceOnBegin ==
    ASSUME Inv, OnceInv, NEW r \in Req, BeginAdd(r) \/ BeginUpdate(r) \/ BeginDelete(r)
    PROVE  OnceInv'
<1>1. ASSUME NEW h, Begin(r, h), h.step = "read" PROVE OnceInv'
    <2>1. Free(h)
        BY <1>1 DEF Free
    <2> QED
        BY <1>1, <2>1, BeginsAlone, OnceUnwritten, Zenon
<1>2. CASE BeginAdd(r)
    <2>1. PICK c \in Content \ {Empty}, source \in stages \cup {None} :
                Begin(r, [Idle EXCEPT !.op = "add", !.step = "read", !.content = c,
                                      !.before = source])
        BY <1>2 DEF BeginAdd
    <2>. DEFINE h == [Idle EXCEPT !.op = "add", !.step = "read", !.content = c,
                                  !.before = source]
    <2>2. h.step = "read"
        BY DEF Idle
    <2>. HIDE DEF h
    <2> QED
        BY <1>1, <2>1, <2>2 DEF h
<1>3. CASE BeginUpdate(r)
    <2>1. PICK s \in stages, c \in Content :
                Begin(r, [Idle EXCEPT !.op = "update", !.step = "read", !.stage = s, !.content = c])
        BY <1>3 DEF BeginUpdate
    <2>. DEFINE h == [Idle EXCEPT !.op = "update", !.step = "read", !.stage = s, !.content = c]
    <2>2. h.step = "read"
        BY DEF Idle
    <2>. HIDE DEF h
    <2> QED
        BY <1>1, <2>1, <2>2 DEF h
<1>4. CASE BeginDelete(r)
    <2>1. PICK s \in stages :
                Begin(r, [Idle EXCEPT !.op = "delete", !.step = "read", !.stage = s, !.after = next[s]])
        BY <1>4 DEF BeginDelete
    <2>. DEFINE h == [Idle EXCEPT !.op = "delete", !.step = "read", !.stage = s, !.after = next[s]]
    <2>2. h.step = "read"
        BY DEF Idle
    <2>. HIDE DEF h
    <2> QED
        BY <1>1, <2>1, <2>2 DEF h
<1> QED
    BY <1>2, <1>3, <1>4

LEMMA OnceInStep ==
    ASSUME Inv, OnceInv, NEW r \in Req, Working(r), Unwritten,
           \/ End(r)
           \/ \E step \in {"check", "commit", "detach", "attach"} :
                    /\ Continue(r, step)
                    /\ step \in {"attach", "commit"} => ~InUse(req[r].content)
           \/ DecideDelete(r)
    PROVE  OnceInv'
<1>1. overlap = "none" => \A o \in Req \ {r} : ~Working(o)
    BY DEF OnceInv, OneAtATime
<1>2. CASE End(r)
    <2>1. Free(Idle)
        BY DEF Free, Idle
    <2> QED
        BY <1>1, <1>2, <2>1, OnceUnwritten DEF End
<1>3. ASSUME NEW step \in {"check", "commit", "detach", "attach"}, Continue(r, step),
             step \in {"attach", "commit"} => ~InUse(req[r].content)
      PROVE  OnceInv'
    <2>1. PICK h : /\ req' = [req EXCEPT ![r] = h] /\ overlap' = overlap
                   /\ h.op = req[r].op /\ h.step = step /\ h.content = req[r].content
        BY <1>3, NextStep
    <2>2. Free(h)
        BY <1>3, <2>1 DEF Free
    <2> QED
        BY <1>1, <2>1, <2>2, OnceUnwritten
<1>4. CASE DecideDelete(r) /\ ~End(r)
    <2>. DEFINE q == req[r]
                b == IF Listed(q.stage) /\ Position(q.stage) > 1
                     THEN Ordered[Position(q.stage) - 1] ELSE None
                h == [q EXCEPT !.step = "commit", !.before = b]
    <2>1. req' = [req EXCEPT ![r] = h] /\ overlap' = overlap /\ q.op = "delete"
        BY <1>4 DEF DecideDelete, At
    <2>2. h.op = "delete" /\ h.step = "commit"
        BY <2>1 DEF Inv, Requests, Handler
    <2>. HIDE DEF h
    <2>3. Free(h)
        BY <2>2 DEF Free
    <2> QED
        BY <1>1, <2>1, <2>3, OnceUnwritten
<1> QED
    BY <1>2, <1>3, <1>4

\* The steps that change what stages hold.
LEMMA OnceOnWrite ==
    ASSUME Inv, OnceInv, NEW r \in Req,
           CommitAdd(r) \/ Detach(r) \/ Attach(r) \/ (CommitDelete(r) /\ ~Unwritten)
    PROVE  OnceInv'
<1>. DEFINE q == req[r]
<1>1. Working(r)
    BY DEF CommitAdd, Detach, Attach, CommitDelete, At, Working
<1>2. overlap = "none" => Once /\ Free(q) /\ \A o \in Req \ {r} : ~Working(o)
    BY <1>1 DEF OnceInv, OneAtATime
<1>3. content \in [Stage -> Content] /\ stages \subseteq Stage
    BY StagesAreStage DEF Inv, TypeOK
<1>4. ASSUME End(r), overlap = "none" => Once' PROVE OnceInv'
    <2>1. Free(Idle)'
        BY DEF Free, Idle
    <2> QED
        BY <1>2, <1>4, <2>1, OnceStep DEF End
<1>5. CASE CommitAdd(r)
    <2>. DEFINE new == created + 1
    <2>1. /\ stages' = stages \cup {new} /\ content' = [content EXCEPT ![new] = q.content]
          /\ End(r) /\ q.op = "add" /\ q.step = "commit"
        BY <1>5 DEF CommitAdd, At
    <2>2. new \in Stage /\ new \notin stages
        BY <1>5, BoundsAssumption DEF CommitAdd, Inv, TypeOK, Stage
    <2>3. content'[new] = q.content /\ \A s \in stages : content'[s] = content[s]
        BY <1>3, <2>1, <2>2
    <2>4. overlap = "none" => Once /\ ~InUse(q.content)
        BY <1>2, <2>1 DEF Free
    <2>. HIDE DEF q, new
    <2>5. overlap = "none" => Once'
        BY <2>1, <2>3, <2>4 DEF Once, InUse
    <2> QED
        BY <1>4, <2>1, <2>5
<1>6. CASE Detach(r)
    <2>1. /\ content' = content \/ content' = [content EXCEPT ![q.stage] = Empty]
          /\ Continue(r, "use") /\ stages' = stages
        BY <1>6 DEF Detach
    <2>2. \A s \in stages : content'[s] = content[s] \/ content'[s] = Empty
        BY <1>3, <2>1
    <2>3. PICK h : /\ req' = [req EXCEPT ![r] = h] /\ overlap' = overlap
                   /\ h.op = q.op /\ h.step = "use"
        BY <2>1, NextStep
    <2>4. Free(h)'
        BY <2>3 DEF Free
    <2>. HIDE DEF q
    <2>5. overlap = "none" => Once'
        BY <1>2, <2>1, <2>2, KindsDiffer DEF Once
    <2> QED
        BY <1>2, <2>3, <2>4, <2>5, OnceStep
<1>7. CASE Attach(r)
    <2>1. /\ End(r) /\ stages' = stages /\ q.step = "attach"
          /\ content' = content \/ content' = [content EXCEPT ![q.stage] = q.content]
        BY <1>7 DEF Attach, At
    <2>2. overlap = "none" => Once /\ ~InUse(q.content)
        BY <1>2, <2>1 DEF Free
    <2>3. \A s \in stages : content'[s] = content[s] \/ (s = q.stage /\ content'[s] = q.content)
        BY <1>3, <2>1
    <2>. HIDE DEF q
    <2>4. overlap = "none" => Once'
        BY <2>1, <2>2, <2>3 DEF Once, InUse
    <2> QED
        BY <1>4, <2>1, <2>4
<1>8. CASE CommitDelete(r) /\ ~Unwritten
    <2>1. /\ stages' = stages \ {q.stage} /\ content' = [content EXCEPT ![q.stage] = Empty]
          /\ End(r)
        BY <1>8 DEF CommitDelete
    <2>2. \A s \in stages' : s \in stages /\ content'[s] = content[s]
        BY <1>3, <2>1
    <2>. HIDE DEF q
    <2>3. overlap = "none" => Once'
        BY <1>2, <2>1, <2>2 DEF Once
    <2> QED
        BY <1>4, <2>1, <2>3
<1> QED
    BY <1>5, <1>6, <1>7, <1>8

LEMMA OnceInductive ==
    Spec => []OnceInv
<1>1. Init => OnceInv
    BY DEF Init, OnceInv, OneAtATime, Working, Once, Free, Idle
<1>2. ASSUME Inv, OnceInv, Next PROVE OnceInv'
    <2>1. PICK r \in Req :
            \/ BeginAdd(r) \/ DecideAdd(r) \/ CheckAdd(r) \/ CommitAdd(r)
            \/ BeginUpdate(r) \/ DecideUpdate(r) \/ Detach(r) \/ CheckUse(r) \/ Attach(r)
            \/ BeginDelete(r) \/ DecideDelete(r) \/ CommitDelete(r)
        BY <1>2 DEF Next
    <2>2. CASE DecideAdd(r)
        BY <1>2, <2>2, OnceInStep DEF DecideAdd, At, Working
    <2>3. CASE CheckAdd(r)
        BY <1>2, <2>3, OnceInStep DEF CheckAdd, At, Working
    <2>4. CASE DecideUpdate(r)
        BY <1>2, <2>4, OnceInStep DEF DecideUpdate, At, Working
    <2>5. CASE CheckUse(r)
        BY <1>2, <2>5, OnceInStep DEF CheckUse, At, Working
    <2>6. CASE DecideDelete(r)
        BY <1>2, <2>6, OnceInStep DEF DecideDelete, At, Working
    <2>7. CASE CommitDelete(r) /\ Unwritten
        BY <1>2, <2>7, OnceInStep DEF CommitDelete, At, Working
    <2> QED
        BY <1>2, <2>1, <2>2, <2>3, <2>4, <2>5, <2>6, <2>7, OnceOnBegin, OnceOnWrite
<1>3. ASSUME OnceInv, UNCHANGED vars PROVE OnceInv'
    BY <1>3 DEF vars, OnceInv, OneAtATime, Working, Once, Free, InUse
<1> QED
    BY <1>1, <1>2, <1>3, Inductive, PTL DEF Spec

-----------------------------------------------------------------------------
(* The theorems *)

\* Links are between stages that exist, and a stage that was deleted holds nothing, whichever
\* requests overlap (addPipelineStage, updatePipelineStage, deletePipelineStage).
THEOREM TypeCorrect == Spec => []TypeOK
BY Inductive, PTL DEF Inv

\* A stage only ever links to one created after it, so that sortStages never goes round, whichever
\* requests overlap and however many stages there are.
THEOREM NoCircle == Spec => []LinksGoForward
BY Inductive, PTL DEF Inv

\* The list that users see and deploy along (sortStages) holds every stage of the pipeline once, as
\* long as stages are added behind the last one (`source` of addPipelineStage, as the user interface
\* sets it) and no two requests that add or delete stages overlap: deleting a stage links the one
\* before it to the one after it.
THEOREM ListIsWhole == Spec => []OneList
<1>1. ASSUME Inv, ListInv PROVE OneList
    <2>1. SUFFICES ASSUME Orderly
                   PROVE  /\ Len(Ordered) = Cardinality(stages)
                          /\ {Ordered[i] : i \in DOMAIN Ordered} = stages
        BY DEF OneList, Orderly
    <2>2. SortedList
        BY <1>1, <2>1, ListIsSorted DEF Inv, ListInv
    <2> QED
        BY <2>2 DEF SortedList
<1> QED
    BY <1>1, ListInductive, PTL

\* With one request at a time, and stages added behind the last one (`source` of addPipelineStage),
\* no instance comes after a device group and no group is first
\* (validateStages, and what addPipelineStage, updatePipelineStage and deletePipelineStage check
\* themselves), however many stages there are and whatever was added, changed and deleted.
THEOREM GroupsAreLast == Spec => []GroupsComeLast
<1>1. ASSUME Inv, ListInv, OrderInv PROVE GroupsComeLast
    <2>1. SUFFICES ASSUME Tidy
                   PROVE  /\ Ordered # <<>> => content[Ordered[1]] # Group
                          /\ \A i, j \in DOMAIN Ordered :
                                i < j /\ content[Ordered[i]] = Group
                                => content[Ordered[j]] \notin Instance
        BY DEF GroupsComeLast, Tidy
    <2>2. SortedList /\ GroupLast(stages, content)
        BY <1>1, <2>1, ListIsSorted DEF Inv, ListInv, OrderInv, Orderly, Tidy
    <2>3. /\ DOMAIN Ordered = 1..Len(Ordered) /\ Len(Ordered) \in Nat
          /\ \A i \in 1..Len(Ordered) : Ordered[i] \in stages
          /\ \A i, j \in 1..Len(Ordered) : i < j => Ordered[i] < Ordered[j]
        BY <2>2, ElementOfSeq DEF SortedList
    <2>4. ASSUME NEW i \in DOMAIN Ordered, NEW j \in DOMAIN Ordered, i < j,
                 content[Ordered[i]] = Group
          PROVE  content[Ordered[j]] \notin Instance
        BY <2>2, <2>3, <2>4 DEF GroupLast
    <2>5. ASSUME Ordered # <<>>, content[Ordered[1]] = Group PROVE FALSE
        <3>1. 1 \in 1..Len(Ordered)
            BY <2>2, <2>3, <2>5, EmptySeq DEF SortedList
        <3>2. PICK p \in stages : p < Ordered[1]
            BY <2>2, <2>3, <2>5, <3>1 DEF GroupLast
        <3>3. PICK k \in 1..Len(Ordered) : Ordered[k] = p
            BY <2>2 DEF SortedList
        <3>4. k = 1 \/ Ordered[1] < Ordered[k]
            BY <2>3, <3>1
        <3>5. p \in Nat /\ Ordered[1] \in Nat
            BY <1>1, <2>3, <3>1, StagesAreStage, BoundsAssumption DEF Inv, Stage
        <3> QED
            BY <3>2, <3>3, <3>4, <3>5
    <2> QED
        BY <2>4, <2>5
<1> QED
    BY <1>1, OrderInductive, PTL

\* With one request at a time an instance is held by one stage of the pipeline at most, although a
\* request that changes a stage empties it first and fills it later, not in a transaction, and
\* wherever stages are added.
THEOREM HeldByOne == Spec => []HeldOnce
<1>1. OnceInv => HeldOnce
    BY DEF OnceInv, HeldOnce, Once
<1> QED
    BY <1>1, OnceInductive, PTL
=============================================================================
