--------------------------- MODULE PipelineStages ---------------------------
(***************************************************************************)
(* The stages of a pipeline: adding, changing and deleting a stage         *)
(* (ee/db/controllers/Pipeline.js), the list they form                     *)
(* (ee/db/models/PipelineStage.js) and the rules of their order            *)
(* (lib/pipelineValidation.js).                                            *)
(*                                                                         *)
(* Stages are a list linked by NextStageId.  A stage holds one instance,   *)
(* one device group or one git repository, or nothing, once a request has  *)
(* taken away what it held.  A device is held as an instance is.  A stage  *)
(* is added behind any stage, or behind none: the user interface names the *)
(* last one, the API leaves the choice to the request.  A request reads    *)
(* the list, then decides, then writes.                                    *)
(***************************************************************************)
EXTENDS Naturals, Sequences, FiniteSets

CONSTANTS
    Req,            \* slots for request handlers
    Instance,       \* hosted and remote instances
    MaxStages       \* stages ever created

ASSUME BoundsAssumption == MaxStages \in Nat \ {0}

None == 0           \* no stage
Stage == 1..MaxStages
Group == "group"    \* a device group
Git == "git"        \* a git repository
Empty == "empty"
Content == Instance \cup {Group, Git, Empty}

ASSUME ContentAssumption == Instance \cap {Group, Git, Empty} = {}

VARIABLES
    created,        \* stages created so far: ids are given in order
    stages,         \* the stages there are
    next,           \* NextStageId
    content,        \* what each stage holds
    req,            \* each handler: its operation and step, its stage and the link loaded with
                    \* it, what the stage is to hold, the stage that is to link to it or past it
    overlap,        \* history: requests have overlapped, or even two that change the list
    strayed         \* history: a stage was added behind another stage than the last

vars == <<created, stages, next, content, req, overlap, strayed>>

Idle == [op |-> "none", step |-> "idle", stage |-> None, after |-> None, content |-> Empty,
         before |-> None]

Init ==
    /\ created = 0 /\ stages = {}
    /\ next = [s \in Stage |-> None]
    /\ content = [s \in Stage |-> Empty]
    /\ req = [r \in Req |-> Idle]
    /\ overlap = "none"
    /\ strayed = FALSE

-----------------------------------------------------------------------------
(* sortStages: from the last stage back, along the stages that point to it.  Of several last     *)
(* stages, or several that point to one, the row read last counts; rows are read by their ids.   *)

Greatest(S) == CHOOSE s \in S : \A other \in S : other <= s

LastStage == LET ends == {s \in stages : next[s] = None}
             IN IF ends = {} THEN None ELSE Greatest(ends)

Before(s) == LET pointing == {p \in stages : next[p] = s}
             IN IF s = None \/ pointing = {} THEN None ELSE Greatest(pointing)

\* The stage n places before the last one.
Back[n \in 0..Cardinality(stages)] == IF n = 0 THEN LastStage ELSE Before(Back[n - 1])

Ordered ==
    LET length == Cardinality({n \in DOMAIN Back : Back[n] # None})
    IN IF Cardinality(stages) = 1 THEN <<CHOOSE s \in stages : TRUE>>
       ELSE [i \in 1..length |-> Back[length - i]]

\* validateStages: every stage holds something, and what may be first and what may follow what.
Precedes(a, b) == a # Group \/ b \in {Group, Git}

Valid(contents) ==
    /\ \A i \in DOMAIN contents : contents[i] # Empty
    /\ contents[1] # Group
    /\ \A i \in 1..(Len(contents) - 1) : Precedes(contents[i], contents[i + 1])

-----------------------------------------------------------------------------
(* Requests *)

Unwritten == UNCHANGED <<created, stages, next, content, strayed>>

\* A handler goes on with its next step, or ends and holds nothing any more.
Continue(r, step) == req' = [req EXCEPT ![r].step = step] /\ UNCHANGED overlap
End(r) == req' = [req EXCEPT ![r] = Idle] /\ UNCHANGED overlap

At(r, operation, step) == req[r].op = operation /\ req[r].step = step

ListChanging == {"add", "delete"}

Begin(r, new) ==
    LET others == {req[o].op : o \in {p \in Req \ {r} : req[p].step # "idle"}}
    IN /\ req[r].step = "idle"
       /\ req' = [req EXCEPT ![r] = new]
       /\ overlap' = IF new.op \in ListChanging /\ others \cap ListChanging # {} THEN "list"
                     ELSE IF others # {} /\ overlap = "none" THEN "update" ELSE overlap
       /\ Unwritten

Holds(list, S) == \E i \in DOMAIN list : content[list[i]] \in S

NeverInUse(c) == FALSE      \* mutant: the pipeline is not searched

\* Whether a stage of the pipeline holds the instance: pipeline.hasInstance, hasDevice.
InUse(c) == c \in Instance /\ \E s \in stages : content[s] = c

\* The user adds a stage: `source`, any stage there is, is to link to it, or none.
BeginAdd(r) ==
    \E c \in Content \ {Empty}, source \in stages \cup {None} :
        /\ created < MaxStages
        /\ Begin(r, [Idle EXCEPT !.op = "add", !.step = "read", !.content = c, !.before = source])

AddRefused(q) ==
    \/ q.content = Group /\ stages = {}
    \/ q.content \in Instance /\ Holds(Ordered, {Group})

DecideAdd(r) ==
    /\ At(r, "add", "read")
    /\ IF AddRefused(req[r]) THEN End(r) ELSE Continue(r, "check")
    /\ Unwritten

CheckAdd(r) ==
    /\ At(r, "add", "check")
    /\ IF InUse(req[r].content) \/ req[r].before \notin stages \cup {None}
       THEN End(r) ELSE Continue(r, "commit")
    /\ Unwritten

\* The transaction commits: the stage, what it holds, and the link to it.
CommitAdd(r) ==
    LET q == req[r] IN
    /\ At(r, "add", "commit")
    /\ created < MaxStages
    /\ created' = created + 1
    /\ stages' = stages \cup {created'}
    /\ content' = [content EXCEPT ![created'] = q.content]
    /\ next' = IF q.before \in stages THEN [next EXCEPT ![q.before] = created'] ELSE next
    /\ strayed' = (strayed \/ q.before # LastStage)
    /\ End(r)

\* A stage is to hold something else, or nothing.
BeginUpdate(r) ==
    \E s \in stages, c \in Content :
        Begin(r, [Idle EXCEPT !.op = "update", !.step = "read", !.stage = s, !.content = c])

Position(s) == CHOOSE i \in DOMAIN Ordered : Ordered[i] = s
Listed(s) == s \in {Ordered[i] : i \in DOMAIN Ordered}
Prior(s) == IF Listed(s) THEN SubSeq(Ordered, 1, Position(s) - 1) ELSE Ordered
Later(s) == IF Listed(s) THEN SubSeq(Ordered, Position(s) + 1, Len(Ordered)) ELSE <<>>

FirstOnly(q) ==             \* mutant: nothing else is looked at
    q.content = Group /\ (Ordered = <<>> \/ Ordered[1] = q.stage)

\* A group is not first and only groups are after it; an instance is not after a group, and
\* neither is a stage that is to hold nothing.
UpdateRefused(q) ==
    CASE q.content = Group -> Ordered = <<>> \/ Ordered[1] = q.stage
                              \/ Holds(Later(q.stage), Content \ {Group})
      [] q.content = Git -> FALSE
      [] OTHER -> Holds(Prior(q.stage), {Group})

DecideUpdate(r) ==
    /\ At(r, "update", "read")
    /\ IF UpdateRefused(req[r]) THEN End(r) ELSE Continue(r, "detach")
    /\ Unwritten

\* What the stage holds is taken away first, not in a transaction; a repository is only changed
\* when another repository takes its place.
Detach(r) ==
    LET q == req[r] IN
    /\ At(r, "update", "detach")
    /\ content' = IF q.content = Git /\ content[q.stage] = Git THEN content
                  ELSE [content EXCEPT ![q.stage] = Empty]
    /\ Continue(r, "use")
    /\ UNCHANGED <<created, stages, next, strayed>>

\* An instance that another stage holds is refused; the stage stays empty.
CheckUse(r) ==
    /\ At(r, "update", "use")
    /\ IF InUse(req[r].content) THEN End(r) ELSE Continue(r, "attach")
    /\ Unwritten

Attach(r) ==
    LET q == req[r] IN
    /\ At(r, "update", "attach")
    /\ content' = IF q.stage \notin stages \/ q.content = Empty THEN content
                  ELSE [content EXCEPT ![q.stage] = q.content]
    /\ End(r)
    /\ UNCHANGED <<created, stages, next, strayed>>

BeginDelete(r) ==
    \E s \in stages :
        Begin(r, [Idle EXCEPT !.op = "delete", !.step = "read", !.stage = s, !.after = next[s]])

\* The stages left are the list without the deleted one.
DeleteRefused(q) ==
    LET left == Prior(q.stage) \o Later(q.stage)
    IN left # <<>> /\ ~Valid([i \in DOMAIN left |-> content[left[i]]])

\* The stage that points to the deleted one is found in the list.
DecideDelete(r) ==
    LET q == req[r] IN
    /\ At(r, "delete", "read")
    /\ IF DeleteRefused(q) THEN End(r)
       ELSE /\ req' = [req EXCEPT ![r].step = "commit",
                                  ![r].before = IF Listed(q.stage) /\ Position(q.stage) > 1
                                                THEN Ordered[Position(q.stage) - 1] ELSE None]
            /\ UNCHANGED overlap
    /\ Unwritten

KeptLinks(links, s) == links                   \* mutant: the foreign key clears nothing

\* The database clears every link to a deleted stage.
Cleared(links, s) == [p \in Stage |-> IF p = s \/ links[p] = s THEN None ELSE links[p]]

NotRelinked(q) == Cleared(next, q.stage)        \* mutant: the stage before it is not saved
RelinkedBack(q) ==                              \* mutant: the link is to the stage before
    Cleared([p \in Stage |-> IF p = q.before THEN p ELSE next[p]], q.stage)

\* The stage before the deleted one gets its link.
Relinked(q) ==
    Cleared([p \in Stage |-> IF p = q.before /\ p \in stages THEN q.after ELSE next[p]], q.stage)

\* The transaction commits, unless the stage to link to has been deleted since: a foreign key.
CommitDelete(r) ==
    LET q == req[r] IN
    /\ At(r, "delete", "commit")
    /\ IF q.before \in stages /\ q.after \notin stages \cup {None}
       THEN Unwritten
       ELSE /\ stages' = stages \ {q.stage}
            /\ next' = Relinked(q)
            /\ content' = [content EXCEPT ![q.stage] = Empty]
            /\ UNCHANGED <<created, strayed>>
    /\ End(r)

Next ==
    \E r \in Req :
        \/ BeginAdd(r) \/ DecideAdd(r) \/ CheckAdd(r) \/ CommitAdd(r)
        \/ BeginUpdate(r) \/ DecideUpdate(r) \/ Detach(r) \/ CheckUse(r) \/ Attach(r)
        \/ BeginDelete(r) \/ DecideDelete(r) \/ CommitDelete(r)

Spec == Init /\ [][Next]_vars

-----------------------------------------------------------------------------
(* Properties *)

\* Every variable has its type, links are between stages that exist, and a stage that was deleted
\* holds nothing.
TypeOK ==
    /\ created \in 0..MaxStages /\ stages \subseteq 1..created
    /\ next \in [Stage -> stages \cup {None}]
    /\ content \in [Stage -> Content] /\ strayed \in BOOLEAN
    /\ \A s \in Stage \ stages : next[s] = None /\ content[s] = Empty

\* Whatever overlaps, and wherever stages are added, a stage only ever points to one created after
\* it: no links form a circle, in which sortStages would go round for ever.
LinksGoForward == \A s \in stages : next[s] # None => next[s] > s

Settled == \A r \in Req : req[r].step = "idle"

\* As long as stages are added behind the last one, and no two requests that add or delete stages
\* overlap, every stage of the pipeline is in the list that its users see and deploy along, once;
\* requests that change a stage may overlap.
OneList ==
    Settled /\ overlap # "list" /\ ~strayed =>
        /\ Len(Ordered) = Cardinality(stages)
        /\ {Ordered[i] : i \in DOMAIN Ordered} = stages

\* With one request at a time, and stages added behind the last one, no instance comes after a
\* device group, however many stages are between them, and no group is first, whatever was added,
\* changed and deleted before.
GroupsComeLast ==
    Settled /\ overlap = "none" /\ ~strayed =>
        /\ Ordered # <<>> => content[Ordered[1]] # Group
        /\ \A i, j \in DOMAIN Ordered :
                i < j /\ content[Ordered[i]] = Group => content[Ordered[j]] \notin Instance

\* With one request at a time an instance is held by one stage of the pipeline at most.
HeldOnce ==
    overlap = "none" =>
        \A s, t \in stages : content[s] \in Instance /\ content[s] = content[t] => s = t
=============================================================================
