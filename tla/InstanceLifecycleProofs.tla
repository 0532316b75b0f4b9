----------------------- MODULE InstanceLifecycleProofs -----------------------
(***************************************************************************)
(* Theorems of InstanceLifecycle, for every number of handlers, every set  *)
(* of operations and every set of faults.                                  *)
(***************************************************************************)
EXTENDS InstanceLifecycle, SequenceTheorems, TLAPS

-----------------------------------------------------------------------------
(* What a handler has left is a program *)

\* What is left after some steps is a program, shifted by that many steps.
LEMMA RestProperties ==
    ASSUME NEW p \in Seq(Step), NEW n \in Nat
    PROVE  /\ Rest(p, n) \in Seq(Step)
           /\ Len(Rest(p, n)) = IF n <= Len(p) THEN Len(p) - n ELSE 0
           /\ \A i \in 1..Len(Rest(p, n)) : Rest(p, n)[i] = p[n + i]
<1>1. /\ Len(p) \in Nat
      /\ \A i \in 1..Len(p) : p[i] \in Step
  BY LenProperties
<1>2. \A i \in (n + 1)..Len(p) : p[i] \in Step
  BY <1>1
<1>3. /\ SubSeq(p, n + 1, Len(p)) \in Seq(Step)
      /\ Len(SubSeq(p, n + 1, Len(p))) =
            IF n + 1 <= Len(p) THEN Len(p) - (n + 1) + 1 ELSE 0
      /\ \A i \in 1 .. Len(p) - (n + 1) + 1 :
            SubSeq(p, n + 1, Len(p))[i] = p[n + 1 + i - 1]
  BY <1>1, <1>2, SubSeqProperties
<1> QED BY <1>1, <1>3 DEF Rest

\* Every handler's program is made of marks, writes and plain steps; only liveState
\* reads the details of the container and notes what they say.
LEMMA ProgramOver ==
    ASSUME NEW o, NEW s \in RowStates, NEW S,
           \A t \in Transitions : Mark(t) \in S,
           \A t \in RowStates : Write(t) \in S,
           \A k \in PlainSteps \ {"details", "noteLatest"} : Do(k) \in S,
           o \in OpNames \ {"liveState"} \/ {Do("details"), Do("noteLatest")} \subseteq S
    PROVE  Program(o, s) \in Seq(S)
<1>1. Clear \in S
  BY DEF Clear, PlainSteps
<1>2. \A a, b \in Seq(S) : a \o b \in Seq(S)
  BY ConcatProperties
<1> USE <1>1, <1>2 DEF PlainSteps, RowStates, Transitions
<1>3. /\ StartContainer \in Seq(S)
      /\ StopContainer \in Seq(S)
      /\ StopContainerSkipBilling \in Seq(S)
  BY DEF StartContainer, StopContainer, StopContainerSkipBilling
<1>4. \A t \in RowStates : Resume(t) \in Seq(S)
  BY <1>3 DEF Resume
<1>5. StartProgram(s) \in Seq(S)
  BY <1>3 DEF StartProgram
<1>6. StopProgram(s) \in Seq(S) /\ RestartProgram(s) \in Seq(S)
  BY DEF StopProgram, RestartProgram
<1>7. SuspendProgram(s) \in Seq(S)
  BY <1>3 DEF SuspendProgram
<1>8. RollbackProgram(s) \in Seq(S)
  BY DEF RollbackProgram
<1>9. RestartStackProgram(s) \in Seq(S)
  <2>1. <<Mark("suspending")>> \o StopContainer \o <<Clear>> \in Seq(S)
    BY <1>3
  <2> QED BY <1>3, <2>1 DEF RestartStackProgram
<1>10. \A q \in {StopContainer, StopContainerSkipBilling} :
          UpdateProgram(s, q) \in Seq(S)
  BY <1>3, <1>4 DEF UpdateProgram
<1>11. ExportProgram(s) \in Seq(S)
  BY <1>3, <1>4 DEF ExportProgram
<1>12. DeleteProgram(s) \in Seq(S)
  BY DEF DeleteProgram
<1>13. DeployProgram(s) \in Seq(S) /\ ImportProgram(s) \in Seq(S)
  BY DEF DeployProgram, ImportProgram
<1>14. CustomHostnameProgram(s) \in Seq(S)
  BY <1>3, <1>4 DEF CustomHostnameProgram
<1>15. HAProgram(s) \in Seq(S) /\ UpgradeStackProgram(s) \in Seq(S)
  <2>1. /\ <<Mark("starting")>> \o StopContainerSkipBilling \in Seq(S)
        /\ <<Do("import")>> \in Seq(S)
    BY <1>3
  <2>2. <<Mark("starting")>> \o StopContainerSkipBilling \o <<Do("import")>> \in Seq(S)
    BY <2>1
  <2> QED BY <1>4, <2>1, <2>2 DEF HAProgram, UpgradeStackProgram
<1>16. ScheduledRestartProgram(s) \in Seq(S)
  BY DEF ScheduledRestartProgram
<1>17. LicenseSuspendProgram(s) \in Seq(S)
  BY <1>3 DEF LicenseSuspendProgram
<1>18. BillingDeletedProgram(s) \in Seq(S)
  BY <1>3 DEF BillingDeletedProgram
<1>19. <<Do("report")>> \in Seq(S)
  OBVIOUS
<1>20. o \notin OpNames \ {"liveState"} => <<Do("details"), Do("noteLatest")>> \in Seq(S)
  OBVIOUS
<1> QED
  BY <1>5, <1>6, <1>7, <1>8, <1>9, <1>10, <1>11, <1>12, <1>13, <1>14, <1>15,
     <1>16, <1>17, <1>18, <1>19, <1>20 DEF Program, OpNames

LEMMA ProgramType ==
    ASSUME NEW o, NEW s \in RowStates
    PROVE  Program(o, s) \in Seq(Step)
<1>1. /\ \A t \in Transitions : Mark(t) \in Step
      /\ \A t \in RowStates : Write(t) \in Step
      /\ \A k \in PlainSteps : Do(k) \in Step
  BY DEF Step, Mark, Write, Do, PlainSteps
<1>2. {Do("details"), Do("noteLatest")} \subseteq Step
  BY <1>1 DEF PlainSteps
<1> QED
  BY <1>1, <1>2, ProgramOver

-----------------------------------------------------------------------------
(* Type correctness *)

\* A step that advances a handler, or replaces what it has left, keeps todo a
\* function to programs.
LEMMA TodoType ==
    ASSUME todo \in [Req -> Seq(Step)], NEW r \in Req
    PROVE  /\ \A n \in Nat : Rest(todo[r], n) \in Seq(Step)
           /\ <<>> \in Seq(Step)
           /\ Handler(op[r]) \in Seq(Step)
           /\ LateHandler(op[r]) \in Seq(Step)
           /\ <<Do("destroy")>> \in Seq(Step)
           /\ todo[r] # <<>> => todo[r][1] \in Step
<1>1. \A n \in Nat : Rest(todo[r], n) \in Seq(Step)
  BY RestProperties
<1>2. Clear \in Step /\ Do("destroy") \in Step
  BY DEF Step, PlainSteps, Do, Clear
<1>3. todo[r] \in Seq(Step)
  OBVIOUS
<1> QED BY <1>1, <1>2, <1>3 DEF Handler, LateHandler

\* What a client is shown is a state some part of the system can be in.
LEMMA EffectiveType ==
    ASSUME NEW t \in Transitions \cup {"none"}, NEW l \in BoxStates \cup {"unknown"},
           NEW s \in RowStates \cup {"none"}
    PROVE  Effective(t, l, s) \in RowStates \cup Transitions \cup BoxStates \cup {"unknown"}
BY DEF Effective, BoxStates

\* A recount leaves a truth value.
LEMMA RecountType ==
    ASSUME NEW r \in Req, counted \in [Req -> BOOLEAN], billed \in BOOLEAN, Recount(r)
    PROVE  billed' \in BOOLEAN
BY DEF Recount

\* The first state has the types.
LEMMA InitType == Init => TypeOK
<1> USE DEF TypeOK
<1> SUFFICES ASSUME Init PROVE TypeOK
  OBVIOUS
<1>1. InitRow \in RowStates /\ InitRow \in BoxStates /\ "none" \in BoxStates
  BY InitRowAssumption DEF RowStates, BoxStates
<1>2. deploying \in BOOLEAN /\ billed \in BOOLEAN /\ subscribed \in BOOLEAN
  <2>0. deploying = FALSE /\ billed = (InitRow \in Live) /\ subscribed = TRUE
    BY DEF Init
  <2>1. (InitRow \in Live) \in BOOLEAN
    OBVIOUS
  <2> QED BY <2>0, <2>1, Zenon
<1>3. todo \in [Req -> Seq(Step)]
  <2>1. <<>> \in Seq(Step)
    OBVIOUS
  <2> QED BY <2>1 DEF Init
<1>4. served \in 0..MaxOps
  BY MaxOpsAssumption DEF Init
<1> QED BY <1>1, <1>2, <1>3, <1>4 DEF Init

\* Every step keeps the types.
LEMMA NextType == TypeOK /\ [Next]_vars => TypeOK'
<1> USE DEF TypeOK
<1> SUFFICES ASSUME TypeOK, [Next]_vars PROVE TypeOK'
  OBVIOUS
<1> USE DEF shared
<1>1. ASSUME NEW r \in Req, NEW o \in Ops, Receive(r, o) PROVE TypeOK'
  <2>1. row \in RowStates
    BY <1>1 DEF Receive
  <2>2. Program(o, row) \in Seq(Step)
    BY <2>1, ProgramType
  <2> QED BY <1>1, <2>1, <2>2, MaxOpsAssumption DEF Receive, BoxStates
<1>2. ASSUME NEW r \in Req, Advance(r) PROVE TypeOK'
  <2> DEFINE next == todo[r][1]
  <2>0. /\ \A n \in Nat : Rest(todo[r], n) \in Seq(Step)
        /\ <<>> \in Seq(Step)
        /\ Handler(op[r]) \in Seq(Step)
        /\ LateHandler(op[r]) \in Seq(Step)
        /\ <<Do("destroy")>> \in Seq(Step)
        /\ todo[r] # <<>> => next \in Step
    BY TodoType
  <2>a. \A t \in Transitions \cup {"none"}, l \in BoxStates \cup {"unknown"} :
          Effective(t, l, copy[r])
              \in RowStates \cup Transitions \cup BoxStates \cup {"unknown"}
    BY EffectiveType
  <2>b. \A v \in BoxStates : UpdateLatest(r, v) =>
          /\ latest' \in BoxStates \cup {"unknown"}
          /\ inflight' \in Transitions \cup {"none"}
          /\ deploying' \in BOOLEAN
          /\ published' \in RowStates \cup Transitions \cup BoxStates \cup {"unknown"}
    <3> SUFFICES ASSUME NEW v \in BoxStates, UpdateLatest(r, v)
                 PROVE  /\ latest' \in BoxStates \cup {"unknown"}
                        /\ inflight' \in Transitions \cup {"none"}
                        /\ deploying' \in BOOLEAN
                        /\ published' \in RowStates \cup Transitions \cup BoxStates \cup {"unknown"}
      OBVIOUS
    <3>1. latest' \in BoxStates \cup {"unknown"} /\ inflight' \in Transitions \cup {"none"}
      BY DEF UpdateLatest, BoxStates
    <3>2. deploying' \in BOOLEAN
      BY DEF UpdateLatest
    <3>3. published' = Effective(inflight', latest', copy[r])
      BY DEF UpdateLatest
    <3> QED BY <3>1, <3>2, <3>3, <2>a
  <2>c. \A q \in Seq(Step) : todo' = [todo EXCEPT ![r] = q] => todo' \in [Req -> Seq(Step)]
    OBVIOUS
  <2>d. /\ Proceed(r) => todo' \in [Req -> Seq(Step)]
        /\ Throw(r) => todo' \in [Req -> Seq(Step)]
    BY <2>0, <2>c DEF Proceed, Throw
  <2>e. ASSUME NEW s \in RowStates, Save(r, s)
        PROVE  /\ row' \in RowStates \cup {"gone"} /\ copy' \in [Req -> RowStates \cup {"none"}]
               /\ published' \in RowStates \cup Transitions \cup BoxStates \cup {"unknown"}
    <3>1. Effective(inflight, latest, s) \in RowStates \cup Transitions \cup BoxStates \cup {"unknown"}
      BY EffectiveType
    <3> QED BY <2>e, <3>1 DEF Save
  <2>1. CASE SetInflightState(r)
    <3>1. next \in Step /\ next.do = "mark"
      BY <2>1, <2>0 DEF SetInflightState, AtStep
    <3>2. next.arg \in Transitions
      BY <3>1 DEF Step, PlainSteps
    <3> QED BY <2>1, <3>2, <2>a, <2>d DEF SetInflightState, SetInflight
  <2>2. CASE ClearInflightState(r)
    BY <2>2, <2>a, <2>d DEF ClearInflightState, ClearInflight
  <2>3. CASE ClearIfSuspended(r)
    BY <2>3, <2>a, <2>d DEF ClearIfSuspended, ClearInflight
  <2>4. CASE SetInDeploy(r)
    BY <2>4, <2>d DEF SetInDeploy
  <2>5. CASE SaveState(r)
    <3>1. next \in Step /\ next.do = "write"
      BY <2>5, <2>0 DEF SaveState, AtStep
    <3>2. next.arg \in RowStates
      BY <3>1 DEF Step, PlainSteps
    <3> QED BY <2>5, <3>2, <2>d, <2>e DEF SaveState
  <2>6. CASE CheckStart(r)
    BY <2>6, <2>0, <2>d DEF CheckStart
  <2>7. CASE AdmitStart(r)
    <3>1. "suspended" \in RowStates
      BY DEF RowStates
    <3>2. todo' \in [Req -> Seq(Step)]
      BY <2>7, <2>d DEF AdmitStart
    <3> QED BY <2>7, <3>1, <3>2, <2>e DEF AdmitStart
  <2>8. CASE AddProject(r)
    <3>1. billed' \in BOOLEAN
      BY <2>8, RecountType DEF AddProject
    <3>2. todo' \in [Req -> Seq(Step)]
      BY <2>8, <2>c, <2>d DEF AddProject
    <3> QED BY <2>8, <3>1, <3>2 DEF AddProject
  <2>9. CASE LaunchContainer(r)
    <3>1. box' \in BoxStates
      BY <2>9 DEF LaunchContainer, BoxStates
    <3>2. todo' \in [Req -> Seq(Step)]
      BY <2>9, <2>0, <2>c, <2>d DEF LaunchContainer
    <3> QED BY <2>9, <3>1, <3>2 DEF LaunchContainer
  <2>10. CASE ContainerStarted(r)
    <3>1. "running" \in BoxStates
      BY DEF BoxStates
    <3> QED BY <2>10, <3>1, <2>0, <2>b DEF ContainerStarted
  <2>11. CASE ContainerStartFails(r)
    BY <2>11, <2>d DEF ContainerStartFails, BoxStates
  <2>12. CASE ContainerStartLost(r)
    BY <2>12, <2>0 DEF ContainerStartLost
  <2>13. CASE RemoveProject(r)
    <3>1. billed' \in BOOLEAN
      BY <2>13, RecountType DEF RemoveProject
    <3>2. todo' \in [Req -> Seq(Step)]
      BY <2>13, <2>c, <2>d DEF RemoveProject
    <3> QED BY <2>13, <3>1, <3>2 DEF RemoveProject
  <2>14. CASE RemoveProjectLate(r)
    <3>1. billed' \in BOOLEAN
      BY <2>14, RecountType DEF RemoveProjectLate
    <3>2. todo' \in [Req -> Seq(Step)]
      BY <2>14, <2>0, <2>c, <2>d DEF RemoveProjectLate
    <3> QED BY <2>14, <3>1, <3>2 DEF RemoveProjectLate
  <2>15. CASE RemoveProjectTeamless(r)
    BY <2>15, <2>d DEF RemoveProjectTeamless
  <2>16. CASE DriverStop(r)
    BY <2>16, <2>d DEF DriverStop, BoxStates
  <2>17. CASE DriverRemove(r)
    <3>1. box' \in BoxStates
      BY <2>17 DEF DriverRemove, BoxStates
    <3>2. todo' \in [Req -> Seq(Step)]
      BY <2>17, <2>0, <2>c, <2>d DEF DriverRemove
    <3> QED BY <2>17, <3>1, <3>2 DEF DriverRemove
  <2>18. CASE DestroyRow(r)
    BY <2>18, <2>d DEF DestroyRow
  <2>19. CASE ReloadCopy(r)
    BY <2>19, <2>d DEF ReloadCopy
  <2>20. CASE ImportData(r)
    BY <2>20, <2>d DEF ImportData
  <2>21. CASE FlowsRefused(r)
    BY <2>21, <2>d DEF FlowsRefused
  <2>22. CASE StartFlows(r)
    BY <2>22, <2>d DEF StartFlows, BoxStates
  <2>23. CASE StopFlows(r)
    BY <2>23, <2>d DEF StopFlows, BoxStates
  <2>24. CASE RestartFlows(r)
    BY <2>24, <2>d DEF RestartFlows
  <2>25. CASE FlowsRestarted(r)
    <3>1. "running" \in BoxStates
      BY DEF BoxStates
    <3> QED BY <2>25, <3>1, <2>b, <2>d DEF FlowsRestarted
  <2>26. CASE LauncherReport(r)
    BY <2>26, <2>b, <2>d DEF LauncherReport
  <2>27. CASE ReadDetails(r)
    BY <2>27, <2>0, <2>d DEF ReadDetails
  <2>28. CASE NoteLatest(r)
    BY <2>28, <2>d DEF NoteLatest, BoxStates
  <2>29. CASE CountInstances(r)
    <3>1. counted' \in [Req -> BOOLEAN]
      <4>1. counted' = [counted EXCEPT ![r] = row \in Live]
        BY <2>29 DEF CountInstances
      <4>2. (row \in Live) \in BOOLEAN
        OBVIOUS
      <4> QED BY <4>1, <4>2
    <3>2. todo' \in [Req -> Seq(Step)]
      BY <2>29, <2>d DEF CountInstances
    <3> QED BY <2>29, <3>1, <3>2 DEF CountInstances
  <2> QED
    BY <1>2, <2>1, <2>2, <2>3, <2>4, <2>5, <2>6, <2>7, <2>8, <2>9, <2>10,
       <2>11, <2>12, <2>13, <2>14, <2>15, <2>16, <2>17, <2>18, <2>19, <2>20,
       <2>21, <2>22, <2>23, <2>24, <2>25, <2>26, <2>27, <2>28, <2>29 DEF Advance
<1>3. CASE BoxCrashes
  BY <1>3 DEF BoxCrashes, BoxStates
<1>4. CASE SubscriptionDeleted
  BY <1>4 DEF SubscriptionDeleted
<1>5. CASE UNCHANGED vars
  BY <1>5 DEF vars
<1> QED BY <1>1, <1>2, <1>3, <1>4, <1>5 DEF Next

\* The values of the row, the caches and the handlers' copies are always those
\* their types allow (TypeOK): no transition is ever written to the row.
THEOREM TypeCorrect == Spec => []TypeOK
BY InitType, NextType, PTL DEF Spec

-----------------------------------------------------------------------------
(* No transition is stranded *)

\* The transitions only their own handler ends; a launcher report ends the others.
Owned == {"stopping", "suspending", "rollback", "importing"}

\* Steps after which the handler may not run on to its next step or its catch
Breaks == {"check", "launch", "settle", "lateUnbill", "details", "driverRemove"}
Calm == {s \in Step : s.do \notin Breaks}

\* The program p comes to a step of S before it can break off.
Owes(p, S) ==
    \E i \in 1..Len(p) : p[i] \in S /\ \A j \in 1..i : p[j].do \notin Breaks

\* Every step of C in the program p is followed by one of S.
Kept(p, C, S) ==
    \A i \in 1..Len(p) : p[i] \in C =>
        \E j \in (i + 1)..Len(p) :
            p[j] \in S /\ \A k \in (i + 1)..j : p[k].do \notin Breaks

TransitionClaims == {Mark(t) : t \in Owned}
TransitionSettlers == {Clear} \cup {Mark(t) : t \in Transitions \ Owned}
DeployClaims == {Do("flagDeploy")}
DeploySettlers == {Clear}
Unclaiming == Step \ (TransitionClaims \cup DeployClaims)

\* A handler that claims a transition clears it when it throws, and comes to a
\* step that ends it when it does not.
Tidy(r) ==
    /\ Kept(todo[r], TransitionClaims, TransitionSettlers)
    /\ Kept(todo[r], DeployClaims, DeploySettlers)
    /\ op[r] \notin ClearsOnError => todo[r] \in Seq(Unclaiming)

\* The inductive invariant: whoever claimed what is on show has yet to end it.
TransitionOwned ==
    inflight \in Owned =>
        \E r \in Req : op[r] \in ClearsOnError /\ Owes(todo[r], TransitionSettlers)
DeployOwned ==
    deploying =>
        \E r \in Req : op[r] \in ClearsOnError /\ Owes(todo[r], DeploySettlers)
Claimed ==
    /\ TypeOK
    /\ \A r \in Req : Tidy(r)
    /\ TransitionOwned
    /\ DeployOwned

\* A program without a step of C keeps any promise about them.
LEMMA KeptWithoutClaims ==
    ASSUME NEW C, NEW S, NEW T, NEW p \in Seq(T), T \cap C = {}
    PROVE  Kept(p, C, S)
<1>1. \A i \in 1..Len(p) : p[i] \in T
  BY LenProperties
<1> QED BY <1>1 DEF Kept

\* Two programs that each keep it keep it one after the other.
LEMMA KeptJoin ==
    ASSUME NEW C, NEW S, NEW a \in Seq(Step), NEW b \in Seq(Step),
           Kept(a, C, S), Kept(b, C, S)
    PROVE  Kept(a \o b, C, S)
<1>1. /\ Len(a) \in Nat /\ Len(b) \in Nat
      /\ Len(a \o b) = Len(a) + Len(b)
      /\ \A i \in 1..Len(a) : (a \o b)[i] = a[i]
      /\ \A i \in (Len(a) + 1)..(Len(a) + Len(b)) : (a \o b)[i] = b[i - Len(a)]
  BY LenProperties, ConcatProperties
<1> DEFINE ab == a \o b
<1> HIDE DEF ab
<1> SUFFICES ASSUME NEW i \in 1..Len(ab), ab[i] \in C
             PROVE  \E j \in (i + 1)..Len(ab) :
                      ab[j] \in S /\ \A k \in (i + 1)..j : ab[k].do \notin Breaks
  BY DEF Kept, ab
<1>2. CASE i \in 1..Len(a)
  <2>1. PICK j \in (i + 1)..Len(a) :
            a[j] \in S /\ \A k \in (i + 1)..j : a[k].do \notin Breaks
    BY <1>1, <1>2 DEF Kept, ab
  <2>2. ab[j] \in S /\ \A k \in (i + 1)..j : ab[k].do \notin Breaks
    BY <1>1, <1>2, <2>1 DEF ab
  <2>3. j \in (i + 1)..Len(ab)
    BY <1>1 DEF ab
  <2> QED BY <2>2, <2>3
<1>3. CASE i \notin 1..Len(a)
  <2>1. /\ i - Len(a) \in 1..Len(b)
        /\ b[i - Len(a)] \in C
    BY <1>1, <1>3 DEF ab
  <2>2. PICK j \in (i - Len(a) + 1)..Len(b) :
            b[j] \in S /\ \A k \in (i - Len(a) + 1)..j : b[k].do \notin Breaks
    BY <2>1 DEF Kept
  <2>3. ab[j + Len(a)] \in S
    BY <1>1, <1>3, <2>1, <2>2 DEF ab
  <2>4. ASSUME NEW k \in (i + 1)..(j + Len(a)) PROVE ab[k].do \notin Breaks
    <3>1. k - Len(a) \in (i - Len(a) + 1)..j
      BY <1>1, <2>1, <2>2
    <3>2. ab[k] = b[k - Len(a)]
      BY <1>1, <1>3, <2>1, <2>2 DEF ab
    <3> QED BY <2>2, <3>1, <3>2
  <2>5. j + Len(a) \in (i + 1)..Len(ab)
    BY <1>1, <2>1, <2>2 DEF ab
  <2> QED BY <2>3, <2>4, <2>5
<1> QED BY <1>2, <1>3

\* Calm steps before a program that settles are settled by it.
LEMMA KeptBySettling ==
    ASSUME NEW C, NEW S, NEW a \in Seq(Calm), NEW b \in Seq(Step),
           Kept(b, C, S), Owes(b, S)
    PROVE  Kept(a \o b, C, S)
<1>0. a \in Seq(Step)
  BY DEF Calm
<1>1. /\ Len(a) \in Nat /\ Len(b) \in Nat
      /\ Len(a \o b) = Len(a) + Len(b)
      /\ \A i \in 1..Len(a) : (a \o b)[i] = a[i]
      /\ \A i \in (Len(a) + 1)..(Len(a) + Len(b)) : (a \o b)[i] = b[i - Len(a)]
  BY <1>0, LenProperties, ConcatProperties
<1>2. \A i \in 1..Len(a) : a[i].do \notin Breaks
  BY LenProperties DEF Calm
<1> DEFINE ab == a \o b
<1> HIDE DEF ab
<1>3. PICK e \in 1..Len(b) : b[e] \in S /\ \A j \in 1..e : b[j].do \notin Breaks
  BY DEF Owes
<1> SUFFICES ASSUME NEW i \in 1..Len(ab), ab[i] \in C
             PROVE  \E j \in (i + 1)..Len(ab) :
                      ab[j] \in S /\ \A k \in (i + 1)..j : ab[k].do \notin Breaks
  BY DEF Kept, ab
<1>4. CASE i \in 1..Len(a)
  <2>1. ab[e + Len(a)] \in S
    BY <1>1, <1>3 DEF ab
  <2>2. ASSUME NEW k \in (i + 1)..(e + Len(a)) PROVE ab[k].do \notin Breaks
    <3>1. CASE k \in 1..Len(a)
      BY <1>1, <1>2, <3>1 DEF ab
    <3>2. CASE k \notin 1..Len(a)
      <4>1. k - Len(a) \in 1..e
        BY <1>1, <1>4, <3>2
      <4>2. ab[k] = b[k - Len(a)]
        BY <1>1, <1>3, <1>4, <3>2 DEF ab
      <4> QED BY <1>3, <4>1, <4>2
    <3> QED BY <3>1, <3>2
  <2>3. e + Len(a) \in (i + 1)..Len(ab)
    BY <1>1, <1>4 DEF ab
  <2> QED BY <2>1, <2>2, <2>3
<1>5. CASE i \notin 1..Len(a)
  <2>1. /\ i - Len(a) \in 1..Len(b)
        /\ b[i - Len(a)] \in C
    BY <1>1, <1>5 DEF ab
  <2>2. PICK j \in (i - Len(a) + 1)..Len(b) :
            b[j] \in S /\ \A k \in (i - Len(a) + 1)..j : b[k].do \notin Breaks
    BY <2>1 DEF Kept
  <2>3. ab[j + Len(a)] \in S
    BY <1>1, <1>5, <2>1, <2>2 DEF ab
  <2>4. ASSUME NEW k \in (i + 1)..(j + Len(a)) PROVE ab[k].do \notin Breaks
    <3>1. k - Len(a) \in (i - Len(a) + 1)..j
      BY <1>1, <2>1, <2>2
    <3>2. ab[k] = b[k - Len(a)]
      BY <1>1, <1>5, <2>1, <2>2 DEF ab
    <3> QED BY <2>2, <3>1, <3>2
  <2>5. j + Len(a) \in (i + 1)..Len(ab)
    BY <1>1, <2>1, <2>2 DEF ab
  <2> QED BY <2>3, <2>4, <2>5
<1> QED BY <1>4, <1>5

\* A promise kept by a program is kept by what is left of it.
LEMMA KeptRest ==
    ASSUME NEW C, NEW S, NEW p \in Seq(Step), NEW n \in Nat, Kept(p, C, S)
    PROVE  Kept(Rest(p, n), C, S)
<1> DEFINE q == Rest(p, n)
<1>1. /\ Len(p) \in Nat
      /\ Len(q) = IF n <= Len(p) THEN Len(p) - n ELSE 0
      /\ \A i \in 1..Len(q) : q[i] = p[n + i]
  BY RestProperties, LenProperties
<1> HIDE DEF q
<1> SUFFICES ASSUME NEW i \in 1..Len(q), q[i] \in C
             PROVE  \E j \in (i + 1)..Len(q) :
                      q[j] \in S /\ \A k \in (i + 1)..j : q[k].do \notin Breaks
  BY DEF Kept, q
<1>2. n + i \in 1..Len(p) /\ p[n + i] \in C
  BY <1>1
<1>3. PICK j \in (n + i + 1)..Len(p) :
          p[j] \in S /\ \A k \in (n + i + 1)..j : p[k].do \notin Breaks
  BY <1>2 DEF Kept
<1>4. j - n \in (i + 1)..Len(q) /\ q[j - n] = p[j]
  <2> DEFINE lp == Len(p)
             lq == Len(q)
  <2>1. lp \in Nat /\ lq \in Nat /\ lq = IF n <= lp THEN lp - n ELSE 0
    BY <1>1
  <2>2. i \in 1..lq /\ j \in (n + i + 1)..lp
    BY <1>3
  <2> HIDE DEF lp, lq
  <2>3. j - n \in (i + 1)..lq /\ j - n \in 1..lq /\ n + (j - n) = j
    BY <2>1, <2>2
  <2>4. q[j - n] = p[n + (j - n)]
    BY <1>1, <2>3 DEF lq
  <2> QED BY <2>3, <2>4 DEF lq
<1>5. ASSUME NEW k \in (i + 1)..(j - n) PROVE q[k].do \notin Breaks
  <2> DEFINE lp == Len(p)
             lq == Len(q)
  <2>1. lp \in Nat /\ lq \in Nat
    BY <1>1
  <2>2. /\ i \in 1..lq /\ j \in (n + i + 1)..lp
        /\ j - n \in (i + 1)..lq /\ k \in (i + 1)..(j - n)
    BY <1>3, <1>4
  <2> HIDE DEF lp, lq
  <2>3. k \in 1..lq /\ n + k \in (n + i + 1)..j
    BY <2>1, <2>2
  <2>4. q[k] = p[n + k]
    BY <1>1, <2>3 DEF lq
  <2> QED BY <1>3, <2>3, <2>4
<1> QED BY <1>3, <1>4, <1>5

\* Right after a step of C the rest of the program owes one of S.
LEMMA OwesAfterClaim ==
    ASSUME NEW C, NEW S, NEW p \in Seq(Step), p # <<>>, p[1] \in C, Kept(p, C, S)
    PROVE  Owes(Rest(p, 1), S)
<1> DEFINE q == Rest(p, 1)
<1>1. /\ Len(p) \in Nat /\ Len(p) > 0
      /\ Len(q) = IF 1 <= Len(p) THEN Len(p) - 1 ELSE 0
      /\ \A i \in 1..Len(q) : q[i] = p[1 + i]
  BY RestProperties, LenProperties, EmptySeq
<1> HIDE DEF q
<1>2. PICK j \in 2..Len(p) : p[j] \in S /\ \A k \in 2..j : p[k].do \notin Breaks
  BY <1>1 DEF Kept
<1>3. j - 1 \in 1..Len(q) /\ q[j - 1] = p[j]
  BY <1>1, <1>2
<1>4. ASSUME NEW k \in 1..(j - 1) PROVE q[k].do \notin Breaks
  <2>1. q[k] = p[1 + k] /\ 1 + k \in 2..j
    BY <1>1, <1>2, <1>3
  <2> QED BY <1>2, <2>1
<1> QED BY <1>2, <1>3, <1>4 DEF Owes, q

\* A step that does not settle the debt leaves it to the rest of the program, and
\* it is none of those at which the program may break off.
LEMMA OwesRest ==
    ASSUME NEW S, NEW p \in Seq(Step), Owes(p, S)
    PROVE  /\ p # <<>>
           /\ p[1].do \notin Breaks
           /\ p[1] \notin S => Owes(Rest(p, 1), S)
<1>1. PICK i \in 1..Len(p) : p[i] \in S /\ \A j \in 1..i : p[j].do \notin Breaks
  BY DEF Owes
<1> DEFINE q == Rest(p, 1)
<1>2. /\ Len(p) \in Nat
      /\ Len(q) = IF 1 <= Len(p) THEN Len(p) - 1 ELSE 0
      /\ \A k \in 1..Len(q) : q[k] = p[1 + k]
  BY RestProperties, LenProperties
<1> HIDE DEF q
<1>3. p # <<>> /\ p[1].do \notin Breaks
  BY <1>1, <1>2
<1>4. ASSUME p[1] \notin S PROVE Owes(q, S)
  <2>1. i - 1 \in 1..Len(q) /\ q[i - 1] = p[i]
    BY <1>1, <1>2, <1>4
  <2>2. ASSUME NEW k \in 1..(i - 1) PROVE q[k].do \notin Breaks
    <3>1. q[k] = p[1 + k] /\ 1 + k \in 1..i
      BY <1>1, <1>2, <2>1
    <3> QED BY <1>1, <3>1
  <2> QED BY <1>1, <2>1, <2>2 DEF Owes
<1> QED BY <1>3, <1>4 DEF q

-----------------------------------------------------------------------------
\* The handlers that leave the transition alone when they throw, but for the two
\* excluded, never claim one.
LEMMA UnclaimingPrograms ==
    ASSUME NEW o \in OpNames \ (ClearsOnError \cup {"export", "licenseSuspend"}),
           NEW s \in RowStates
    PROVE  Program(o, s) \in Seq(Unclaiming)
<1>1. /\ \A t \in {"starting", "restarting"} : Mark(t) \in Unclaiming
      /\ \A t \in RowStates : Write(t) \in Unclaiming
      /\ \A k \in PlainSteps \ {"flagDeploy"} : Do(k) \in Unclaiming
      /\ Clear \in Unclaiming
  BY DEF Step, Mark, Write, Do, Clear, PlainSteps, Unclaiming, TransitionClaims,
         DeployClaims, Owned, Transitions
<1>2. \A a, b \in Seq(Unclaiming) : a \o b \in Seq(Unclaiming)
  BY ConcatProperties
<1> USE <1>1, <1>2 DEF PlainSteps, RowStates
<1>3. /\ StartContainer \in Seq(Unclaiming)
      /\ StopContainer \in Seq(Unclaiming)
      /\ StopContainerSkipBilling \in Seq(Unclaiming)
  BY DEF StartContainer, StopContainer, StopContainerSkipBilling
<1>4. \A t \in RowStates : Resume(t) \in Seq(Unclaiming)
  BY <1>3 DEF Resume
<1>5. \A q \in {StopContainer, StopContainerSkipBilling} :
          UpdateProgram(s, q) \in Seq(Unclaiming)
  BY <1>3, <1>4 DEF UpdateProgram
<1>6. DeleteProgram(s) \in Seq(Unclaiming)
  BY DEF DeleteProgram
<1>7. ImportProgram(s) \in Seq(Unclaiming)
  BY DEF ImportProgram
<1>8. CustomHostnameProgram(s) \in Seq(Unclaiming)
  BY <1>3, <1>4 DEF CustomHostnameProgram
<1>9. HAProgram(s) \in Seq(Unclaiming) /\ UpgradeStackProgram(s) \in Seq(Unclaiming)
  BY <1>3, <1>4 DEF HAProgram, UpgradeStackProgram
<1>10. ScheduledRestartProgram(s) \in Seq(Unclaiming)
  BY DEF ScheduledRestartProgram
<1>11. BillingDeletedProgram(s) \in Seq(Unclaiming)
  BY <1>3 DEF BillingDeletedProgram
<1>12. /\ <<Do("report")>> \in Seq(Unclaiming)
       /\ <<Do("details"), Do("noteLatest")>> \in Seq(Unclaiming)
  OBVIOUS
<1> QED
  BY <1>5, <1>6, <1>7, <1>8, <1>9, <1>10, <1>11, <1>12
     DEF Program, OpNames, ClearsOnError

\* A fourth element after three
LEMMA AppendToThree ==
    ASSUME NEW a, NEW b, NEW c, NEW d
    PROVE  <<a, b, c>> \o <<d>> = <<a, b, c, d>>
<1> DEFINE T == {a, b, c, d}
<1>1. <<a, b, c>> \in Seq(T) /\ <<d>> \in Seq(T) /\ <<a, b, c, d>> \in Seq(T)
  OBVIOUS
<1>2. Len(<<a, b, c>> \o <<d>>) = 4
  BY <1>1, ConcatProperties
<1>3. \A i \in 1..4 : (<<a, b, c>> \o <<d>>)[i] = <<a, b, c, d>>[i]
  BY <1>1, ConcatProperties
<1> QED BY <1>1, <1>2, <1>3, SeqEqual, ConcatProperties

\* The handlers that claim a transition, or flag a deploy, settle it.
LEMMA ClaimingPrograms ==
    ASSUME NEW o \in ClearsOnError, NEW s \in RowStates,
           NEW C \in {TransitionClaims, DeployClaims}, NEW S,
           S = IF C = TransitionClaims THEN TransitionSettlers ELSE DeploySettlers
    PROVE  Kept(Program(o, s), C, S)
<1>1. /\ \A t \in Transitions : Mark(t) \in Calm
      /\ \A t \in RowStates : Write(t) \in Calm
      /\ \A k \in PlainSteps \ Breaks : Do(k) \in Calm
      /\ Clear \in Calm
  BY DEF Step, Mark, Write, Do, Clear, PlainSteps, Calm, Breaks
<1>2. /\ \A t \in {"starting", "restarting"} : Mark(t) \in Unclaiming
      /\ \A t \in RowStates : Write(t) \in Unclaiming
      /\ \A k \in PlainSteps \ {"flagDeploy"} : Do(k) \in Unclaiming
      /\ Clear \in Unclaiming
  BY DEF Step, Mark, Write, Do, Clear, PlainSteps, Unclaiming, TransitionClaims,
         DeployClaims, Owned, Transitions
<1>3. \A T : \A a, b \in Seq(T) : a \o b \in Seq(T)
  BY ConcatProperties
<1>4. \A p \in Seq(Unclaiming) : p \in Seq(Step) /\ Kept(p, C, S)
  <2> SUFFICES ASSUME NEW p \in Seq(Unclaiming) PROVE p \in Seq(Step) /\ Kept(p, C, S)
    OBVIOUS
  <2>1. p \in Seq(Step)
    BY DEF Unclaiming
  <2>2. Unclaiming \cap C = {}
    BY DEF Unclaiming
  <2> QED BY <2>1, <2>2, KeptWithoutClaims
<1>5. \A a \in Seq(Calm), b \in Seq(Step) :
          Kept(b, C, S) /\ Owes(b, S) => Kept(a \o b, C, S)
  BY KeptBySettling
<1>6. \A a, b \in Seq(Step) : Kept(a, C, S) /\ Kept(b, C, S) => Kept(a \o b, C, S)
  BY KeptJoin
<1>7. Clear \in S /\ Clear.do \notin Breaks
  BY DEF TransitionSettlers, DeploySettlers, Clear, Do, Breaks
<1>8. Owes(<<Clear>>, S) /\ <<Clear>> \in Seq(Unclaiming) /\ <<Clear>> \in Seq(Step)
  BY <1>2, <1>7 DEF Owes, Unclaiming
<1>9. \A a \in Seq(Calm) : Kept(a \o <<Clear>>, C, S)
  BY <1>4, <1>5, <1>8
<1>10. /\ StartContainer \in Seq(Unclaiming)
       /\ StopContainer \in Seq(Unclaiming)
       /\ StopContainer \in Seq(Calm)
  BY <1>1, <1>2 DEF StartContainer, StopContainer, PlainSteps, RowStates, Breaks
<1>11. CASE o = "start"
  <2>1. StartProgram(s) \in Seq(Unclaiming)
    BY <1>2, <1>3, <1>10 DEF StartProgram, PlainSteps, RowStates
  <2> QED BY <1>11, <1>4, <2>1 DEF Program
<1>12. CASE o = "stop"
  <2>1. <<Mark("stopping"), Write("stopped"), Do("stopFlows")>> \in Seq(Calm)
    BY <1>1 DEF Transitions, RowStates, PlainSteps, Breaks
  <2>2. Kept(<<Mark("stopping"), Write("stopped"), Do("stopFlows")>> \o <<Clear>>, C, S)
    BY <2>1, <1>9
  <2>3. <<Mark("stopping"), Write("stopped"), Do("stopFlows")>> \o <<Clear>>
          = <<Mark("stopping"), Write("stopped"), Do("stopFlows"), Clear>>
    BY AppendToThree
  <2>4. Kept(<<>>, C, S)
    BY DEF Kept
  <2> QED BY <1>12, <2>2, <2>3, <2>4 DEF Program, StopProgram
<1>13. CASE o = "restart"
  <2>1. RestartProgram(s) \in Seq(Unclaiming)
    BY <1>2 DEF RestartProgram, PlainSteps, RowStates
  <2> QED BY <1>13, <1>4, <2>1 DEF Program
<1>14. /\ <<Mark("suspending")>> \o StopContainer \in Seq(Calm)
       /\ Kept(<<Mark("suspending")>> \o StopContainer \o <<Clear>>, C, S)
  <2>1. <<Mark("suspending")>> \in Seq(Calm)
    BY <1>1 DEF Transitions
  <2>2. <<Mark("suspending")>> \o StopContainer \in Seq(Calm)
    BY <2>1, <1>3, <1>10
  <2> QED BY <2>2, <1>9
<1>15. CASE o = "suspend"
  <2>1. Kept(<<>>, C, S)
    BY DEF Kept
  <2> QED BY <1>15, <1>14, <2>1 DEF Program, SuspendProgram
<1>16. CASE o = "rollback"
  <2> DEFINE first == <<Mark("rollback"), Do("import")>>
             bounce == <<Mark("restarting"), Do("restartFlows"), Do("bounce")>>
  <2>1. first \in Seq(Calm) /\ bounce \in Seq(Unclaiming) /\ bounce \in Seq(Step)
    BY <1>1, <1>2 DEF Transitions, PlainSteps, Breaks, Unclaiming
  <2>2. Kept(first \o <<Clear>>, C, S)
    BY <2>1, <1>9
  <2>3. Kept(first \o bounce, C, S)
    <3>1. CASE C = TransitionClaims
      <4>1. Mark("restarting") \in S /\ Mark("restarting").do \notin Breaks
        BY <3>1 DEF TransitionSettlers, Transitions, Owned, Mark, Breaks
      <4>2. Owes(bounce, S)
        BY <4>1 DEF Owes
      <4>3. Kept(bounce, C, S)
        BY <2>1, <1>4
      <4> QED BY <4>2, <4>3, <2>1, <1>5
    <3>2. CASE C = DeployClaims
      <4> DEFINE T == Step \ DeployClaims
      <4>1. \A t \in Transitions : Mark(t) \in T
        BY DEF Mark, Do, DeployClaims, Step
      <4>2. \A k \in PlainSteps \ {"flagDeploy"} : Do(k) \in T
        BY DEF Do, DeployClaims, Step
      <4>3. first \in Seq(T) /\ bounce \in Seq(T)
        BY <4>1, <4>2 DEF Transitions, PlainSteps
      <4>4. first \o bounce \in Seq(T)
        BY <4>3, <1>3
      <4>5. T \cap C = {}
        BY <3>2
      <4> HIDE DEF T, first, bounce
      <4> QED BY <4>4, <4>5, KeptWithoutClaims
    <3> QED BY <3>1, <3>2
  <2> QED BY <1>16, <2>2, <2>3 DEF Program, RollbackProgram
<1>17. CASE o = "restartStack"
  <2> DEFINE stop == <<Mark("suspending")>> \o StopContainer \o <<Clear>>
             first == IF s = "suspended" THEN <<>> ELSE stop
             begin == <<Write("running"), Mark("starting")>>
  <2>1. /\ Kept(first, C, S)
        /\ first \in Seq(Step)
    <3>1. Kept(<<>>, C, S) /\ <<>> \in Seq(Step)
      BY DEF Kept
    <3>2. stop \in Seq(Step)
      BY <1>3, <1>8, <1>14 DEF Calm
    <3> QED BY <1>14, <3>1, <3>2
  <2>2. begin \in Seq(Unclaiming)
    BY <1>2 DEF RowStates
  <2>3. Kept(first \o begin, C, S) /\ first \o begin \in Seq(Step)
    BY <2>1, <2>2, <1>3, <1>4, <1>6
  <2>4. /\ Kept(first \o begin \o StartContainer, C, S)
        /\ first \o begin \o StartContainer \in Seq(Step)
    BY <2>3, <1>3, <1>4, <1>6, <1>10
  <2>5. Kept(first \o begin \o StartContainer \o <<Clear>>, C, S)
    BY <2>4, <1>4, <1>6, <1>8
  <2> QED BY <1>17, <2>5 DEF Program, RestartStackProgram
<1>18. CASE o = "deploy"
  <2> DEFINE first == <<Mark("importing"), Do("flagDeploy"), Do("import")>>
             again == <<Do("reload"), Do("restartFlows"), Clear, Do("bounce")>>
  <2>1. first \in Seq(Calm) /\ again \in Seq(Unclaiming)
    BY <1>1, <1>2 DEF Transitions, PlainSteps, Breaks
  <2>2. Kept(first \o <<Clear>>, C, S)
    BY <2>1, <1>9
  <2>3. Owes(again, S)
    <3>1. /\ Do("reload").do \notin Breaks
          /\ Do("restartFlows").do \notin Breaks
      BY DEF Do, Breaks
    <3> QED BY <3>1, <1>7 DEF Owes
  <2>4. Kept(first \o again, C, S)
    BY <2>1, <2>3, <1>4, <1>5
  <2> QED BY <1>18, <2>2, <2>4 DEF Program, DeployProgram
<1> QED
  BY <1>11, <1>12, <1>13, <1>15, <1>16, <1>17, <1>18 DEF ClearsOnError

-----------------------------------------------------------------------------
\* What a step of the handler r leaves of its program: the rest, its exception
\* handler, or, at a step where it may break off, something without a claim.
Continues(r) ==
    \E q \in Seq(Step) :
        /\ todo' = [todo EXCEPT ![r] = q]
        /\ \/ q = Rest(todo[r], 1)
           \/ q = Handler(op[r])
           \/ /\ todo[r][1].do \in Breaks
              /\ \/ q \in Seq(Unclaiming)
                 \/ \E n \in Nat : q = Rest(todo[r], n)

\* A step shows a transition or a deploy flag only if it claims it, or leaves one
\* it does not settle.
OnShowAfter(r) ==
    /\ inflight' \in Owned =>
         \/ inflight \in Owned /\ todo[r][1] \notin TransitionSettlers
         \/ todo[r][1] \in TransitionClaims
    /\ deploying' =>
         \/ deploying /\ todo[r][1] \notin DeploySettlers
         \/ todo[r][1] \in DeployClaims

\* Every step of a handler continues its program, and accounts for what it shows.
LEMMA AdvanceEffect ==
    ASSUME TypeOK, NEW r \in Req, Advance(r)
    PROVE  op' = op /\ Continues(r) /\ OnShowAfter(r)
<1> DEFINE next == todo[r][1]
<1>0. todo \in [Req -> Seq(Step)]
  BY DEF TypeOK
<1>1. /\ \A n \in Nat : Rest(todo[r], n) \in Seq(Step)
      /\ Handler(op[r]) \in Seq(Step)
      /\ todo[r] # <<>> => next \in Step
  BY <1>0, TodoType
<1>2. /\ <<>> \in Seq(Unclaiming) /\ LateHandler(op[r]) \in Seq(Unclaiming)
      /\ <<Do("destroy")>> \in Seq(Unclaiming)
      /\ \A q \in Seq(Unclaiming) : q \in Seq(Step)
  <2>1. Clear \in Unclaiming /\ Do("destroy") \in Unclaiming
    BY DEF Unclaiming, Clear, Do, Step, PlainSteps, TransitionClaims, DeployClaims,
           Mark
  <2>2. \A q \in Seq(Unclaiming) : q \in Seq(Step)
    BY DEF Unclaiming
  <2> QED BY <2>1, <2>2 DEF LateHandler
<1>3. Proceed(r) \/ Throw(r) => Continues(r)
  BY <1>1 DEF Proceed, Throw, Continues
<1>4. ASSUME next.do \in Breaks, NEW n \in Nat, todo' = [todo EXCEPT ![r] = Rest(@, n)]
      PROVE  Continues(r)
  <2>1. todo' = [todo EXCEPT ![r] = Rest(todo[r], n)]
    BY <1>4
  <2> QED BY <1>1, <1>4, <2>1 DEF Continues
<1>5. ASSUME next.do \in Breaks, NEW q \in Seq(Unclaiming), todo' = [todo EXCEPT ![r] = q]
      PROVE  Continues(r)
  BY <1>2, <1>5 DEF Continues
<1>6. ASSUME next.do \notin {"mark", "clear"},
             inflight' = inflight \/ inflight' = "none",
             deploying' => deploying
      PROVE  OnShowAfter(r)
  <2>1. next \notin TransitionSettlers /\ next \notin DeploySettlers
    BY <1>6 DEF TransitionSettlers, DeploySettlers, Mark, Clear, Do
  <2>2. "none" \notin Owned
    BY DEF Owned
  <2> QED BY <1>6, <2>1, <2>2 DEF OnShowAfter
<1>7. \A v : UpdateLatest(r, v) =>
          (inflight' = inflight \/ inflight' = "none") /\ (deploying' => deploying)
  BY DEF UpdateLatest
<1> USE DEF AtStep, Breaks, shared
<1>8. CASE SetInflightState(r)
  <2>1. next \in Step /\ next.do = "mark"
    BY <1>8, <1>1 DEF SetInflightState
  <2>2. next = Mark(next.arg) /\ next.arg \in Transitions
    BY <2>1 DEF Step, PlainSteps, Mark
  <2>3. inflight' = next.arg /\ deploying' = deploying /\ op' = op
    BY <1>8 DEF SetInflightState, SetInflight
  <2>4. inflight' \in Owned => next \in TransitionClaims
    BY <2>2, <2>3 DEF TransitionClaims
  <2>5. next \notin DeploySettlers
    BY <2>1 DEF DeploySettlers, Clear, Do
  <2> QED BY <1>8, <1>3, <2>3, <2>4, <2>5 DEF SetInflightState, OnShowAfter
<1>9. CASE ClearInflightState(r)
  <2>1. inflight' \notin Owned /\ ~deploying'
    BY <1>9 DEF ClearInflightState, ClearInflight, Owned
  <2> QED BY <1>9, <1>3, <2>1 DEF ClearInflightState, OnShowAfter
<1>10. CASE ClearIfSuspended(r)
  <2>1. (inflight' = inflight \/ inflight' = "none") /\ (deploying' => deploying)
    BY <1>10 DEF ClearIfSuspended, ClearInflight
  <2> QED BY <1>10, <1>3, <1>6, <2>1 DEF ClearIfSuspended
<1>11. CASE SetInDeploy(r)
  <2>1. next \in Step /\ next.do = "flagDeploy"
    BY <1>11, <1>1 DEF SetInDeploy
  <2>2. next = Do("flagDeploy")
    BY <2>1 DEF Step, Do, PlainSteps
  <2>3. next \notin TransitionSettlers
    BY <2>1 DEF TransitionSettlers, Mark, Clear, Do
  <2> QED BY <1>11, <1>3, <2>2, <2>3 DEF SetInDeploy, OnShowAfter, DeployClaims
<1>12. CASE SaveState(r)
  <2>1. next \in Step /\ next.do = "write"
    BY <1>12, <1>1 DEF SaveState
  <2> QED BY <1>12, <1>3, <1>6, <2>1 DEF SaveState
<1>13. CASE CheckStart(r)
  BY <1>13, <1>2, <1>3, <1>4, <1>5, <1>6 DEF CheckStart
<1>14. CASE AdmitStart(r)
  BY <1>14, <1>3, <1>6 DEF AdmitStart
<1>15. CASE AddProject(r)
  BY <1>15, <1>3, <1>6 DEF AddProject
<1>16. CASE LaunchContainer(r)
  BY <1>16, <1>2, <1>3, <1>4, <1>5, <1>6 DEF LaunchContainer
<1>17. CASE ContainerStarted(r)
  BY <1>17, <1>2, <1>3, <1>4, <1>5, <1>6, <1>7 DEF ContainerStarted
<1>18. CASE ContainerStartFails(r)
  BY <1>18, <1>2, <1>3, <1>4, <1>5, <1>6 DEF ContainerStartFails
<1>19. CASE ContainerStartLost(r)
  BY <1>19, <1>2, <1>3, <1>4, <1>5, <1>6 DEF ContainerStartLost
<1>20. CASE RemoveProject(r)
  BY <1>20, <1>3, <1>6 DEF RemoveProject
<1>21. CASE RemoveProjectLate(r)
  BY <1>21, <1>2, <1>3, <1>4, <1>5, <1>6 DEF RemoveProjectLate
<1>22. CASE RemoveProjectTeamless(r)
  BY <1>22, <1>3, <1>6 DEF RemoveProjectTeamless
<1>23. CASE DriverStop(r)
  BY <1>23, <1>3, <1>6 DEF DriverStop
<1>24. CASE DriverRemove(r)
  BY <1>24, <1>2, <1>3, <1>4, <1>5, <1>6 DEF DriverRemove
<1>25. CASE DestroyRow(r)
  BY <1>25, <1>3, <1>6 DEF DestroyRow
<1>26. CASE ReloadCopy(r)
  BY <1>26, <1>3, <1>6 DEF ReloadCopy
<1>27. CASE ImportData(r)
  BY <1>27, <1>3, <1>6 DEF ImportData
<1>28. CASE FlowsRefused(r)
  BY <1>28, <1>3, <1>6 DEF FlowsRefused
<1>29. CASE StartFlows(r)
  BY <1>29, <1>3, <1>6 DEF StartFlows
<1>30. CASE StopFlows(r)
  BY <1>30, <1>3, <1>6 DEF StopFlows
<1>31. CASE RestartFlows(r)
  BY <1>31, <1>3, <1>6 DEF RestartFlows
<1>32. CASE FlowsRestarted(r)
  BY <1>32, <1>3, <1>6, <1>7 DEF FlowsRestarted
<1>33. CASE LauncherReport(r)
  BY <1>33, <1>3, <1>6, <1>7 DEF LauncherReport
<1>34. CASE ReadDetails(r)
  BY <1>34, <1>2, <1>3, <1>4, <1>5, <1>6 DEF ReadDetails
<1>35. CASE NoteLatest(r)
  BY <1>35, <1>3, <1>6 DEF NoteLatest
<1>36. CASE CountInstances(r)
  BY <1>3, <1>6, <1>36 DEF CountInstances
<1> QED
  BY <1>8, <1>9, <1>10, <1>11, <1>12, <1>13, <1>14, <1>15, <1>16, <1>17, <1>18, <1>19, <1>20, <1>21, <1>22, <1>23, <1>24, <1>25, <1>26, <1>27, <1>28, <1>29, <1>30, <1>31, <1>32, <1>33, <1>34, <1>35, <1>36 DEF Advance

\* Whatever is left of a tidy program is tidy, and one without a claim owes nothing.
LEMMA TidyContinues ==
    ASSUME TypeOK, NEW r \in Req, Tidy(r), op' = op, Continues(r)
    PROVE  Tidy(r)'
<1>1. todo \in [Req -> Seq(Step)]
  BY DEF TypeOK
<1>2. PICK q \in Seq(Step) :
          /\ todo' = [todo EXCEPT ![r] = q]
          /\ \/ q = Rest(todo[r], 1)
             \/ q = Handler(op[r])
             \/ /\ todo[r][1].do \in Breaks
                /\ \/ q \in Seq(Unclaiming)
                   \/ \E n \in Nat : q = Rest(todo[r], n)
  BY DEF Continues
<1>3. todo'[r] = q /\ op'[r] = op[r]
  BY <1>1, <1>2
<1>4. Clear \in Unclaiming
  BY DEF Unclaiming, Clear, Do, Step, PlainSteps, TransitionClaims, DeployClaims, Mark
<1>5. ASSUME q \in Seq(Unclaiming) PROVE Tidy(r)'
  <2>1. /\ Unclaiming \cap TransitionClaims = {}
        /\ Unclaiming \cap DeployClaims = {}
    BY DEF Unclaiming
  <2>2. /\ Kept(q, TransitionClaims, TransitionSettlers)
        /\ Kept(q, DeployClaims, DeploySettlers)
    BY <1>5, <2>1, KeptWithoutClaims
  <2> QED BY <1>3, <1>5, <2>2 DEF Tidy
<1>6. ASSUME NEW n \in Nat, q = Rest(todo[r], n) PROVE Tidy(r)'
  <2>1. /\ Kept(q, TransitionClaims, TransitionSettlers)
        /\ Kept(q, DeployClaims, DeploySettlers)
    BY <1>1, <1>6, KeptRest DEF Tidy
  <2>2. ASSUME todo[r] \in Seq(Unclaiming) PROVE q \in Seq(Unclaiming)
    <3>1. /\ Len(todo[r]) \in Nat
          /\ \A i \in 1..Len(todo[r]) : todo[r][i] \in Unclaiming
      BY <2>2, LenProperties
    <3>2. \A i \in (n + 1)..Len(todo[r]) : todo[r][i] \in Unclaiming
      BY <3>1
    <3> QED BY <1>6, <2>2, <3>1, <3>2, SubSeqProperties DEF Rest
  <2> QED BY <1>3, <2>1, <2>2 DEF Tidy
<1>7. ASSUME q = Handler(op[r]) PROVE q \in Seq(Unclaiming)
  BY <1>4, <1>7 DEF Handler
<1> QED BY <1>2, <1>5, <1>6, <1>7

\* When no handler is at work no transition is left on show, except one that a
\* launcher report ends, and no deploy flag (NoStrandedTransition): whatever
\* throws, and in whatever order any number of handlers finish.  The two excluded
\* operations have no catch that clears what they set; for them it does not hold.
THEOREM NothingStranded ==
    ASSUME Ops \cap {"export", "licenseSuspend"} = {}
    PROVE  Spec => []NoStrandedTransition
<1>1. Init => Claimed
  <2> SUFFICES ASSUME Init, TypeOK PROVE Claimed
    BY InitType
  <2>1. ASSUME NEW r \in Req PROVE Tidy(r)
    <3>1. todo[r] = <<>>
      BY DEF Init
    <3> QED BY <3>1 DEF Tidy, Kept
  <2>2. TransitionOwned /\ DeployOwned
    BY DEF Init, TransitionOwned, DeployOwned, Owned
  <2> QED BY <2>1, <2>2 DEF Claimed
<1>2. Claimed /\ [Next]_vars => Claimed'
  <2> SUFFICES ASSUME Claimed, [Next]_vars PROVE Claimed'
    OBVIOUS
  <2>1. TypeOK'
    BY NextType DEF Claimed
  <2>2. todo \in [Req -> Seq(Step)]
    BY DEF Claimed, TypeOK
  <2>3. ASSUME NEW r \in Req, NEW o \in Ops, Receive(r, o) PROVE Claimed'
    <3>1. /\ todo[r] = <<>>
          /\ todo' = [todo EXCEPT ![r] = Program(o, row)]
          /\ op' = [op EXCEPT ![r] = o]
          /\ inflight' = inflight /\ deploying' = deploying
      BY <2>3 DEF Receive, Idle, shared
    <3>2. /\ o \in OpNames \ {"export", "licenseSuspend"}
          /\ row \in RowStates
      BY <2>3, OpsAssumption DEF Receive, Claimed, TypeOK
    <3>3. todo'[r] = Program(o, row) /\ op'[r] = o
      BY <3>1, <2>2 DEF Claimed, TypeOK
    <3>4. \A q \in Req \ {r} : todo'[q] = todo[q] /\ op'[q] = op[q]
      BY <3>1, <2>2 DEF Claimed, TypeOK
    <3>5. Tidy(r)'
      <4>1. CASE o \in ClearsOnError
        <5>1. TransitionClaims # DeployClaims
          <6>1. Mark("stopping") \in TransitionClaims /\ Mark("stopping") \notin DeployClaims
            BY DEF TransitionClaims, DeployClaims, Owned, Mark, Do
          <6> QED BY <6>1
        <5>2. Kept(Program(o, row), TransitionClaims, TransitionSettlers)
          BY <4>1, <3>2, ClaimingPrograms
        <5>3. Kept(Program(o, row), DeployClaims, DeploySettlers)
          BY <4>1, <5>1, <3>2, ClaimingPrograms
        <5> QED BY <3>3, <4>1, <5>2, <5>3 DEF Tidy
      <4>2. CASE o \notin ClearsOnError
        <5>1. Program(o, row) \in Seq(Unclaiming)
          BY <4>2, <3>2, UnclaimingPrograms
        <5>2. /\ Unclaiming \cap TransitionClaims = {}
              /\ Unclaiming \cap DeployClaims = {}
          BY DEF Unclaiming
        <5>3. /\ Kept(Program(o, row), TransitionClaims, TransitionSettlers)
              /\ Kept(Program(o, row), DeployClaims, DeploySettlers)
          BY <5>1, <5>2, KeptWithoutClaims
        <5> QED BY <3>3, <5>1, <5>3 DEF Tidy
      <4> QED BY <4>1, <4>2
    <3>6. \A q \in Req : Tidy(q)'
      BY <3>4, <3>5 DEF Claimed, Tidy
    <3>7. \A S : ~Owes(todo[r], S)
      BY <3>1 DEF Owes
    <3>8. TransitionOwned' /\ DeployOwned'
      BY <3>1, <3>4, <3>7 DEF Claimed, TransitionOwned, DeployOwned
    <3> QED BY <2>1, <3>6, <3>8 DEF Claimed
  <2>4. ASSUME NEW r \in Req, Advance(r) PROVE Claimed'
    <3>1. op' = op /\ Continues(r) /\ OnShowAfter(r)
      BY <2>4, AdvanceEffect DEF Claimed
    <3>2. PICK p \in Seq(Step) :
            /\ todo' = [todo EXCEPT ![r] = p]
            /\ \/ p = Rest(todo[r], 1)
               \/ p = Handler(op[r])
               \/ todo[r][1].do \in Breaks
      BY <3>1 DEF Continues
    <3>3. todo'[r] = p /\ \A q \in Req \ {r} : todo'[q] = todo[q]
      BY <3>2, <2>2
    <3>4. \A q \in Req : Tidy(q)'
      <4>1. Tidy(r)'
        BY <3>1, TidyContinues DEF Claimed
      <4> QED BY <3>1, <3>3, <4>1 DEF Claimed, Tidy
    <3>5. todo[r] \in Seq(Step) /\ todo[r] # <<>>
      <4>1. todo[r] # <<>>
        BY <2>4 DEF Advance, SetInflightState, ClearInflightState, ClearIfSuspended,
           SetInDeploy, SaveState, CheckStart, AdmitStart, CountInstances, AddProject,
           LaunchContainer, ContainerStarted, ContainerStartFails,
           ContainerStartLost, RemoveProject, RemoveProjectLate,
           RemoveProjectTeamless, DriverStop, DriverRemove, DestroyRow, ReloadCopy,
           ImportData, FlowsRefused, StartFlows, StopFlows, RestartFlows,
           FlowsRestarted, LauncherReport, ReadDetails, NoteLatest, AtStep
      <4> QED BY <2>2, <4>1
    <3>6. ASSUME NEW S, Clear \in S, op[r] \in ClearsOnError, Owes(todo[r], S),
                 todo[r][1] \notin S
          PROVE  Owes(p, S)
      <4>1. todo[r][1].do \notin Breaks /\ Owes(Rest(todo[r], 1), S)
        BY <3>5, <3>6, OwesRest
      <4>2. ASSUME p = Handler(op[r]) PROVE Owes(p, S)
        <5>1. p = <<Clear>> /\ Clear.do \notin Breaks
          BY <3>6, <4>2 DEF Handler, Clear, Do, Breaks
        <5> QED BY <3>6, <5>1 DEF Owes
      <4> QED BY <3>2, <4>1, <4>2
    <3>7. ASSUME NEW S, NEW C, Clear \in S, Kept(todo[r], C, S), todo[r][1] \in C,
                 \A s \in C : s.do \notin Breaks, C \cap Unclaiming = {}
          PROVE  op[r] \in ClearsOnError /\ Owes(p, S)
      <4>1. Owes(Rest(todo[r], 1), S)
        BY <3>5, <3>7, OwesAfterClaim
      <4>2. op[r] \in ClearsOnError
        <5>1. SUFFICES ASSUME todo[r] \in Seq(Unclaiming) PROVE FALSE
          BY DEF Claimed, Tidy
        <5>2. todo[r][1] \in Unclaiming
          BY <3>5, <5>1
        <5> QED BY <3>7, <5>2
      <4>3. ASSUME p = Handler(op[r]) PROVE Owes(p, S)
        <5>1. p = <<Clear>> /\ Clear.do \notin Breaks
          BY <4>2, <4>3 DEF Handler, Clear, Do, Breaks
        <5> QED BY <3>7, <5>1 DEF Owes
      <4> QED BY <3>2, <3>7, <4>1, <4>2, <4>3
    <3>8. TransitionOwned'
      <4> DEFINE S == TransitionSettlers
      <4>1. /\ Clear \in S
            /\ \A s \in TransitionClaims : s.do \notin Breaks
            /\ TransitionClaims \cap Unclaiming = {}
        BY DEF TransitionSettlers, TransitionClaims, Mark, Breaks, Unclaiming
      <4> SUFFICES ASSUME inflight' \in Owned
                   PROVE  \E q \in Req : op'[q] \in ClearsOnError /\ Owes(todo'[q], S)
        BY DEF TransitionOwned
      <4>2. CASE todo[r][1] \in TransitionClaims
        <5>1. Kept(todo[r], TransitionClaims, S)
          BY DEF Claimed, Tidy
        <5> QED BY <3>1, <3>3, <3>7, <4>1, <4>2, <5>1
      <4>3. CASE inflight \in Owned /\ todo[r][1] \notin S
        <5>1. PICK q \in Req : op[q] \in ClearsOnError /\ Owes(todo[q], S)
          BY <4>3 DEF Claimed, TransitionOwned
        <5>2. CASE q = r
          BY <3>1, <3>3, <3>6, <4>1, <4>3, <5>1, <5>2
        <5>3. CASE q # r
          BY <3>1, <3>3, <5>1, <5>3
        <5> QED BY <5>2, <5>3
      <4> QED BY <3>1, <4>2, <4>3 DEF OnShowAfter
    <3>9. DeployOwned'
      <4> DEFINE S == DeploySettlers
      <4>1. /\ Clear \in S
            /\ \A s \in DeployClaims : s.do \notin Breaks
            /\ DeployClaims \cap Unclaiming = {}
        BY DEF DeploySettlers, DeployClaims, Do, Breaks, Unclaiming
      <4> SUFFICES ASSUME deploying'
                   PROVE  \E q \in Req : op'[q] \in ClearsOnError /\ Owes(todo'[q], S)
        BY DEF DeployOwned
      <4>2. CASE todo[r][1] \in DeployClaims
        <5>1. Kept(todo[r], DeployClaims, S)
          BY DEF Claimed, Tidy
        <5> QED BY <3>1, <3>3, <3>7, <4>1, <4>2, <5>1
      <4>3. CASE deploying /\ todo[r][1] \notin S
        <5>1. PICK q \in Req : op[q] \in ClearsOnError /\ Owes(todo[q], S)
          BY <4>3 DEF Claimed, DeployOwned
        <5>2. CASE q = r
          BY <3>1, <3>3, <3>6, <4>1, <4>3, <5>1, <5>2
        <5>3. CASE q # r
          BY <3>1, <3>3, <5>1, <5>3
        <5> QED BY <5>2, <5>3
      <4> QED BY <3>1, <4>2, <4>3 DEF OnShowAfter
    <3> QED BY <2>1, <3>4, <3>8, <3>9 DEF Claimed
  <2>5. CASE BoxCrashes
    BY <2>1, <2>5 DEF BoxCrashes, Claimed, Tidy, TransitionOwned, DeployOwned
  <2>6. CASE SubscriptionDeleted
    BY <2>1, <2>6 DEF SubscriptionDeleted, Claimed, Tidy, TransitionOwned, DeployOwned
  <2>7. CASE UNCHANGED vars
    BY <2>1, <2>7 DEF vars, Claimed, Tidy, TransitionOwned, DeployOwned
  <2> QED BY <2>3, <2>4, <2>5, <2>6, <2>7 DEF Next
<1>3. Claimed => NoStrandedTransition
  <2> SUFFICES ASSUME Claimed, Quiescent
               PROVE  inflight \in {"none", "starting", "restarting"} /\ ~deploying
    BY DEF NoStrandedTransition
  <2>1. \A r \in Req : \A S : ~Owes(todo[r], S)
    BY DEF Quiescent, Idle, Owes
  <2>2. inflight \notin Owned /\ ~deploying
    BY <2>1 DEF Claimed, TransitionOwned, DeployOwned
  <2> QED BY <2>2 DEF Claimed, TypeOK, Transitions, Owned
<1> QED BY <1>1, <1>2, <1>3, PTL DEF Spec
=============================================================================
