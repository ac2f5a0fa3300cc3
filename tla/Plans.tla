------------------------------- MODULE Plans -------------------------------
(***************************************************************************)
(* A plan document: the HTTP handlers that talk about it, decompose it,    *)
(* approve it and materialize it into issues and tasks.  Every request     *)
(* reads the row, works for as long as a language model or the tracker     *)
(* takes, and writes; the requests of other connections come in between.   *)
(***************************************************************************)
EXTENDS Naturals, Sequences, FiniteSets

CONSTANTS
    Conn,          \* connections, each with one request at a time
    Ref,           \* refs of draft tasks
    NoRef,         \* no parent_ref; no draft; no value
    Goal,          \* the plan's own epic
    Draft,         \* the decompositions that the model may answer with
    Config,        \* what the configurations of the tracker come to
    MaxRequests,   \* bound: requests in all
    MaxTurns,      \* bound: messages that people send
    MaxFaults      \* bound: calls that fail, clients that leave

Item == Ref \cup { Goal }
\* order: the tasks as the model lists them, gate: do all of them pass the
\* checks of an approval?
DraftType == [order : Seq(Ref), deps : SUBSET (Ref \X Ref),
              parent : [Ref -> Ref \cup { NoRef }], gate : BOOLEAN]

ASSUME PlanAssumption ==
    /\ IsFiniteSet(Conn) /\ IsFiniteSet(Ref)
    /\ NoRef \notin Item /\ NoRef \notin Draft /\ Goal \notin Ref
    /\ Draft \subseteq DraftType
    \* a dependency is a field of a listed task
    /\ \A d \in Draft : /\ Len(d.order) > 0
                       /\ \A p \in d.deps : \E i \in DOMAIN d.order : d.order[i] = p[1]
    /\ Config \subseteq { "beads", "dag", "refused" }
    /\ MaxRequests \in Nat /\ MaxTurns \in Nat /\ MaxFaults \in Nat

Status == { "draft", "grooming", "needs_input", "decomposed", "approved",
            "materializing", "materialized" }
Point == { "idle", "groom_append", "groom_status", "groom_answer", "interview",
           "decompose", "approve", "read", "goal", "create", "wire" }
Materializing == { "read", "goal", "create", "wire" }
Message == [turn : Nat, role : { "user", "assistant" }]
Row == [status : Status, conversation : Seq(Message), draft : Draft \cup { NoRef },
        goal : Nat]
Materialization == [draft : Draft, via : { "beads", "dag" },
                    issues : SUBSET Item, tasks : SUBSET Item,
                    parent : [Ref -> Item \cup { NoRef }],
                    links : SUBSET (Ref \X Ref), edges : SUBSET (Ref \X Ref)]

VARIABLES
    plan,       \* the row of plan_docs
    at,         \* at[c]: where c's request is, "idle" without one
    read,       \* read[c]: the row as c's request has read it, where it goes on
                \* to use it
    turn,       \* turn[c]: the number of the message that c's request carries
    mats,       \* what each run of a materialization has created so far
    mine,       \* mine[c]: the run that c's request works on, 0 for none
    done,       \* runs that were reported as materialized
    granted,    \* history: approvals granted
    raced,      \* history: has a row changed under a request that relied on it?
    lost,       \* history: has the client of a materialization left?
    forgotten,  \* history: has a failing read or write of the row left it in
                \* materializing?
    requests, turns, faults

request == << at, read, turn, mine >>
history == << granted, raced, lost, forgotten >>
vars == << plan, request, mats, done, history, requests, turns, faults >>

TypeOK ==
    /\ plan \in Row
    /\ at \in [Conn -> Point]
    /\ read \in [Conn -> Row]
    /\ turn \in [Conn -> Nat]
    /\ mats \in Seq(Materialization)
    /\ mine \in [Conn -> 0 .. Len(mats)]
    /\ done \subseteq 1 .. Len(mats)
    /\ granted \in Nat
    /\ raced \in BOOLEAN /\ lost \in BOOLEAN /\ forgotten \in BOOLEAN
    /\ requests \in Nat /\ turns \in Nat /\ faults \in Nat

\* handlePlanCreate, without a brief.
NewPlan == [status |-> "draft", conversation |-> << >>, draft |-> NoRef, goal |-> 0]
Init ==
    /\ plan = NewPlan
    /\ at = [c \in Conn |-> "idle"]
    /\ read = [c \in Conn |-> NewPlan]
    /\ turn = [c \in Conn |-> 0]
    /\ mats = << >>
    /\ mine = [c \in Conn |-> 0]
    /\ done = {}
    /\ granted = 0 /\ raced = FALSE /\ lost = FALSE /\ forgotten = FALSE
    /\ requests = 0 /\ turns = 0 /\ faults = 0

---------------------------------------------------------------------------
(* Drafts.                                                                 *)

Refs(d) == { d.order[i] : i \in DOMAIN d.order }

\* A relation has a cycle when some tasks each need another one of them.
Cyclic(R) == \E S \in (SUBSET Ref) \ { {} } : \A x \in S : \E y \in S : << x, y >> \in R
Parents(d) == { p \in Refs(d) \X Ref : d.parent[p[1]] = p[2] }

\* validateDraftTaskRefs.
ValidRefs(d) ==
    /\ \A i, j \in DOMAIN d.order : d.order[i] = d.order[j] => i = j
    /\ \A t \in Refs(d) :
        /\ \A u \in Ref : << t, u >> \in d.deps => u \in Refs(d)
        /\ d.parent[t] \in Refs(d) \cup { NoRef }

\* The batch of t once its dependencies have these batches.
Raised(d, batch, t) ==
    LET above == { batch[u] + 1 : u \in { v \in Refs(d) : << t, v >> \in d.deps } }
                   \cup { batch[t] }
    IN  CHOOSE m \in above : \A n \in above : n <= m

\* Mutant: one pass over the tasks.
computeBatches_OnePass(d) ==
    LET n == Len(d.order)
        after[k \in 0 .. n] ==
          IF k = 0 THEN [t \in Refs(d) |-> 0]
          ELSE LET batch == after[k - 1]
               IN  [batch EXCEPT ![d.order[k]] = Raised(d, batch, d.order[k])]
    IN  after[n]

\* As many passes over the tasks as there are tasks.
computeBatches(d) ==
    LET n == Len(d.order)
        after[k \in 0 .. n * n] ==
          IF k = 0 THEN [t \in Refs(d) |-> 0]
          ELSE LET next == d.order[((k - 1) % n) + 1]
                   batch == after[k - 1]
               IN  [batch EXCEPT ![next] = Raised(d, batch, next)]
    IN  after[n * n]

---------------------------------------------------------------------------
(* Requests.                                                               *)

\* A request that has read the row, and goes on from there.
Begin(c, p) ==
    /\ at[c] = "idle"
    /\ requests < MaxRequests
    /\ requests' = requests + 1
    /\ at' = [at EXCEPT ![c] = p]

\* The same with a message, and the row is kept.
BeginTurn(c, p) ==
    /\ Begin(c, p)
    /\ read' = [read EXCEPT ![c] = plan]
    /\ turns < MaxTurns
    /\ turns' = turns + 1
    /\ turn' = [turn EXCEPT ![c] = turns + 1]

GoOn(c, p) == /\ at' = [at EXCEPT ![c] = p]
              /\ UNCHANGED << read, turn, mine >>

\* The request ends; what it has read and made is of no more use.
End(c) == /\ at' = [at EXCEPT ![c] = "idle"]
          /\ read' = [read EXCEPT ![c] = NewPlan]
          /\ turn' = [turn EXCEPT ![c] = 0]
          /\ mine' = [mine EXCEPT ![c] = 0]

Said(c, role) == [turn |-> turn[c], role |-> role]

\* UpdatePlan writes every field, UpdatePlanFields what has changed.
UpdatePlan(row) == plan' = row
SetStatus(s) == plan' = [plan EXCEPT !.status = s]

\* Mutant: the UPDATE does not look at the status.
TransitionPlanStatus_NoWhere(from, to) == SetStatus(to)

TransitionPlanStatus(from, to) == plan.status = from /\ SetStatus(to)

\* Somebody relies on the draft that is being written.
ReliedOn == \E c \in Conn : at[c] \in Materializing \cup { "approve" }

---------------------------------------------------------------------------
(* handlePlanGroom.                                                        *)

\* An action without a message is not kept.
GroomBegin(c) ==
    /\ \E p \in { "groom_append", "groom_status" } : BeginTurn(c, p)
    /\ UNCHANGED << plan, mine, mats, done, history, faults >>

\* AppendConversation: one transaction.
GroomAppend(c) ==
    /\ at[c] = "groom_append"
    /\ plan' = [plan EXCEPT !.conversation = Append(@, Said(c, "user"))]
    /\ GoOn(c, "groom_status")
    /\ UNCHANGED << mats, done, history, requests, turns, faults >>

Fails == /\ faults < MaxFaults
         /\ faults' = faults + 1

\* A draft becomes grooming: the whole row is written as it was read, and a
\* failure of that is only logged.
GroomStatus(c) ==
    /\ at[c] = "groom_status"
    /\ \/ /\ read[c].status = "draft"
          /\ UpdatePlan([read[c] EXCEPT !.status = "grooming"])
          /\ raced' = (raced \/ ReliedOn)
          /\ UNCHANGED faults
       \/ /\ IF read[c].status = "draft" THEN Fails ELSE UNCHANGED faults
          /\ UNCHANGED << plan, raced >>
    /\ GoOn(c, "groom_answer")
    /\ UNCHANGED << mats, done, granted, lost, forgotten, requests, turns >>

\* The model's answer has been streamed.
GroomAnswer(c) ==
    /\ at[c] = "groom_answer"
    /\ plan' = [plan EXCEPT !.conversation = Append(@, Said(c, "assistant"))]
    /\ End(c)
    /\ UNCHANGED << mats, done, history, requests, turns, faults >>

\* handlePlanSessionCreate: it matters for a draft only.
SessionCreate(c) ==
    /\ at[c] = "idle"
    /\ requests < MaxRequests
    /\ requests' = requests + 1
    /\ TransitionPlanStatus("draft", "grooming")
    /\ UNCHANGED << request, mats, done, history, turns, faults >>

\* handlePlanSessionMessage: kept whether or not the session takes it.
SessionMessage(c) ==
    /\ at[c] = "idle"
    /\ requests < MaxRequests /\ turns < MaxTurns
    /\ requests' = requests + 1 /\ turns' = turns + 1
    /\ plan' = [plan EXCEPT !.conversation =
                    Append(@, [turn |-> turns + 1, role |-> "user"])]
    /\ UNCHANGED << request, mats, done, history, faults >>

---------------------------------------------------------------------------
(* handlePlanInterview and handlePlanDecompose.                            *)

InterviewBegin(c) ==
    /\ BeginTurn(c, "interview")
    /\ UNCHANGED << plan, mine, mats, done, history, faults >>

\* The conversation as it was read, with the turn, and a status for any plan.
InterviewWrite(c) ==
    /\ at[c] = "interview"
    /\ plan' = [plan EXCEPT
                  !.conversation = read[c].conversation \o
                      << Said(c, "user"), Said(c, "assistant") >>,
                  !.status = "needs_input"]
    /\ End(c)
    /\ UNCHANGED << mats, done, history, requests, turns, faults >>

DecomposeBegin(c) ==
    /\ Begin(c, "decompose")
    /\ UNCHANGED << plan, read, turn, mine, mats, done, history, turns, faults >>

DecomposeWrite(c) ==
    /\ at[c] = "decompose"
    /\ \E d \in Draft : plan' = [plan EXCEPT !.draft = d, !.status = "decomposed"]
    /\ raced' = (raced \/ ReliedOn)
    /\ End(c)
    /\ UNCHANGED << mats, done, granted, lost, forgotten, requests, turns, faults >>

---------------------------------------------------------------------------
(* handlePlanApprove.                                                      *)

\* Mutant: the tasks of the draft are not looked at.
ApproveBegin_NoGate(c) ==
    /\ Begin(c, "approve")
    /\ plan.status = "decomposed"
    /\ plan.draft # NoRef
    /\ UNCHANGED << plan, read, turn, mine, mats, done, history, turns, faults >>

\* A request for a plan that is not decomposed, or that fails the gate, ends
\* without a trace.
ApproveBegin(c) ==
    /\ Begin(c, "approve")
    /\ plan.status = "decomposed"
    /\ plan.draft # NoRef /\ plan.draft.gate
    /\ UNCHANGED << plan, read, turn, mine, mats, done, history, turns, faults >>

ApproveWrite(c) ==
    /\ at[c] = "approve"
    /\ SetStatus("approved")
    /\ granted' = granted + 1
    /\ End(c)
    /\ UNCHANGED << mats, done, raced, lost, forgotten, requests, turns, faults >>

---------------------------------------------------------------------------
(* handlePlanMaterialize.                                                  *)

\* TransitionPlanStatus, before the row is read.
MaterializeBegin(c) ==
    /\ Begin(c, "read")
    /\ TransitionPlanStatus("approved", "materializing")
    /\ UNCHANGED << read, turn, mine, mats, done, history, turns, faults >>

\* The handler returns and the status stays as it is.
Forget(c) ==
    /\ forgotten' = TRUE
    /\ UNCHANGED plan
    /\ End(c)

\* Mutant: a status that no handler knows.
BackToApproved_Failed(c) ==
    /\ SetStatus("failed")
    /\ UNCHANGED forgotten
    /\ End(c)

\* Mutant: the status is given back nowhere.
BackToApproved_Forgotten(c) ==
    /\ UNCHANGED << plan, forgotten >>
    /\ End(c)

\* What a failure of the handler does; that this write fails in turn is ignored
\* by the code, and not counted.
BackToApproved(c) ==
    \/ SetStatus("approved") /\ UNCHANGED forgotten /\ End(c)
    \/ Forget(c)

\* GetPlan fails after the transition: an early return that gives nothing back.
ReadFails(c) ==
    /\ at[c] = "read"
    /\ Fails
    /\ Forget(c)
    /\ UNCHANGED << mats, done, granted, raced, lost, requests, turns >>

\* No draft, a policy that asks for a client there is not, or refs that do
\* not fit.
MaterializeRefused(c) ==
    /\ at[c] = "read"
    /\ \/ plan.draft = NoRef
       \/ "refused" \in Config
       \/ plan.draft # NoRef /\ ~ ValidRefs(plan.draft)
    /\ BackToApproved(c)
    /\ UNCHANGED << mats, done, granted, raced, lost, requests, turns, faults >>

MaterializeRead(c) ==
    /\ at[c] = "read"
    /\ Config # { "refused" } /\ plan.draft # NoRef /\ ValidRefs(plan.draft)
    /\ at' = [at EXCEPT ![c] = "goal"]
    /\ read' = [read EXCEPT ![c] = plan]
    /\ UNCHANGED << plan, turn, mine, mats, done, history, requests, turns, faults >>

\* The plan's epic in the tracker and its mirror in the task store, or, without
\* a tracker, a goal in the task store alone.
CreateGoal(c) ==
    /\ at[c] = "goal"
    /\ \E v \in Config \ { "refused" } :
        mats' = Append(mats,
           [draft |-> read[c].draft, via |-> v,
            issues |-> IF v = "beads" THEN { Goal } ELSE {}, tasks |-> { Goal },
            parent |-> [r \in Ref |-> NoRef], links |-> {}, edges |-> {}])
    /\ mine' = [mine EXCEPT ![c] = Len(mats')]
    /\ at' = [at EXCEPT ![c] = "create"]
    /\ UNCHANGED << plan, read, turn, done, history, requests, turns, faults >>

Run(c) == mats[mine[c]]

\* What of S goes to the tracker.
Tracked(c, S) == IF Run(c).via = "beads" THEN S ELSE {}

\* topoSortDraftTasks finds a cycle of parents, after the epic is there.
ParentsRefused(c) ==
    /\ at[c] = "create"
    /\ Run(c).tasks = { Goal }
    /\ Cyclic(Parents(Run(c).draft))
    /\ BackToApproved(c)
    /\ UNCHANGED << mats, done, granted, raced, lost, requests, turns, faults >>

\* Mutant: in the order in which the model lists them.
NextItem_Unsorted(m, r) ==
    /\ r \in Refs(m.draft) \ m.tasks
    /\ \A i, j \in DOMAIN m.draft.order :
        m.draft.order[j] = r /\ i < j => m.draft.order[i] \in m.tasks

\* The draft tasks that may come next: parents come before their children.
NextItem(m, r) ==
    /\ r \in Refs(m.draft) \ m.tasks
    /\ m.draft.parent[r] \in m.tasks \cup { NoRef }

\* An issue, its mirror, and the mapping; a parent that is not there yet
\* would be replaced with the epic.
CreateItem(c) ==
    /\ at[c] = "create"
    /\ ~ Cyclic(Parents(Run(c).draft))
    /\ \E r \in Ref :
        /\ NextItem(Run(c), r)
        /\ mats' = [mats EXCEPT
             ![mine[c]].issues = @ \cup Tracked(c, { r }),
             ![mine[c]].tasks = @ \cup { r },
             ![mine[c]].parent[r] =
                 IF Run(c).draft.parent[r] \in Run(c).tasks
                   THEN Run(c).draft.parent[r] ELSE Goal]
    /\ UNCHANGED << plan, request, done, history, requests, turns, faults >>

ItemsCreated(c) ==
    /\ at[c] = "create"
    /\ Refs(Run(c).draft) \subseteq Run(c).tasks
    /\ GoOn(c, "wire")
    /\ UNCHANGED << plan, mats, done, history, requests, turns, faults >>

\* A dependency, in the tracker and then in the task store.
WireDependency(c) ==
    /\ at[c] = "wire"
    /\ \E p \in Run(c).draft.deps \ Run(c).edges :
        /\ ~ Cyclic(Run(c).edges \cup { p })
        /\ mats' = [mats EXCEPT ![mine[c]].links = @ \cup Tracked(c, { p }),
                                ![mine[c]].edges = @ \cup { p }]
    /\ UNCHANGED << plan, request, done, history, requests, turns, faults >>

\* AddEdgeWithSource refuses an edge that would close a cycle.
CycleRefused(c) ==
    /\ at[c] = "wire"
    /\ \E p \in Run(c).draft.deps \ Run(c).edges :
        /\ Cyclic(Run(c).edges \cup { p })
        /\ mats' = [mats EXCEPT ![mine[c]].links = @ \cup Tracked(c, { p })]
    /\ BackToApproved(c)
    /\ UNCHANGED << done, granted, raced, lost, requests, turns, faults >>

MaterializeDone(c) ==
    /\ at[c] = "wire"
    /\ Run(c).draft.deps \subseteq Run(c).edges
    /\ plan' = [plan EXCEPT !.status = "materialized", !.goal = mine[c]]
    /\ done' = done \cup { mine[c] }
    /\ End(c)
    /\ UNCHANGED << mats, history, requests, turns, faults >>

\* That write fails: another return that gives nothing back, and all that was
\* created stays.
LastWriteFails(c) ==
    /\ at[c] = "wire"
    /\ Run(c).draft.deps \subseteq Run(c).edges
    /\ Fails
    /\ Forget(c)
    /\ UNCHANGED << mats, done, granted, raced, lost, requests, turns >>

---------------------------------------------------------------------------
(* Failures.                                                               *)

\* A call of the tracker or the task store fails: what was there stays, an
\* issue without its mirror and a link without its edge included.
MaterializeFails(c) ==
    /\ Fails
    /\ \/ /\ at[c] \in { "goal", "create", "wire" }
          /\ UNCHANGED mats
       \/ /\ at[c] = "create"
          /\ \E r \in Ref :
              /\ NextItem(Run(c), r)
              /\ mats' = [mats EXCEPT ![mine[c]].issues = @ \cup Tracked(c, { r })]
       \/ /\ at[c] = "wire"
          /\ \E p \in Run(c).draft.deps \ Run(c).edges :
              mats' = [mats EXCEPT ![mine[c]].links = @ \cup Tracked(c, { p })]
    /\ BackToApproved(c)
    /\ UNCHANGED << done, granted, raced, lost, requests, turns >>

\* The client leaves, and the request's context with it: nothing more is
\* written, no status either.
RequestLost(c) ==
    /\ Fails
    /\ at[c] # "idle"
    /\ lost' = (lost \/ at[c] \in Materializing)
    /\ End(c)
    /\ UNCHANGED << plan, mats, done, granted, raced, forgotten, requests, turns >>

---------------------------------------------------------------------------
Handler(c) ==
    \/ GroomBegin(c) \/ GroomAppend(c) \/ GroomStatus(c) \/ GroomAnswer(c)
    \/ SessionCreate(c) \/ SessionMessage(c)
    \/ InterviewBegin(c) \/ InterviewWrite(c)
    \/ DecomposeBegin(c) \/ DecomposeWrite(c)
    \/ ApproveBegin(c) \/ ApproveWrite(c)
    \/ MaterializeBegin(c) \/ MaterializeRefused(c) \/ MaterializeRead(c)
    \/ CreateGoal(c) \/ ParentsRefused(c) \/ CreateItem(c) \/ ItemsCreated(c)
    \/ WireDependency(c) \/ CycleRefused(c) \/ MaterializeDone(c)
    \/ ReadFails(c) \/ LastWriteFails(c) \/ MaterializeFails(c) \/ RequestLost(c)

Next == \E c \in Conn : Handler(c)

Spec == Init /\ [][Next]_vars

---------------------------------------------------------------------------
(* Properties.                                                             *)

\* Every approval is spent once: double clicks, approvals that overlap, plans
\* that are decomposed and approved again while they materialize, and retries
\* of what failed never materialize more often than people approved
\* (TransitionPlanStatus in handlePlanMaterialize).
ApprovalSpentOnce == Cardinality(done) <= granted

\* Materialized means complete: every task of the draft has a row, and with a
\* tracker an issue, under the parent that the draft names, whatever the order
\* of the draft, and every dependency is an edge, and with a tracker a link
\* (materializeViaBeads, materializeViaDAG, topoSortDraftTasks).
MaterializedComplete ==
    /\ \A i \in done : LET m == mats[i] IN
        /\ m.tasks = Refs(m.draft) \cup { Goal }
        /\ m.issues = IF m.via = "beads" THEN m.tasks ELSE {}
        /\ \A r \in Refs(m.draft) :
            m.parent[r] = IF m.draft.parent[r] = NoRef THEN Goal ELSE m.draft.parent[r]
        /\ m.edges = m.draft.deps
        /\ m.links = IF m.via = "beads" THEN m.edges ELSE {}
        /\ ~ Cyclic(m.edges)
    /\ plan.status = "materialized" => plan.goal \in done

\* A plan in materializing has a request at work on it, its client has left in
\* the middle, or a read or write of the plan's own row has failed: the returns
\* of handlePlanMaterialize after a failing GetPlan and a failing last write
\* forget the status.  Every other one, for a draft, a policy, a cycle, the
\* tracker or the task store, gives it back, however requests overlap.
MaterializingHasWorker ==
    plan.status = "materializing" =>
        lost \/ forgotten \/ \E c \in Conn : at[c] \in Materializing

\* What is materialized has passed the gate of handlePlanApprove, unless a
\* draft was written while an approval or a materialization was under way.
GatedUnlessRaced == ~ raced => \A i \in DOMAIN mats : mats[i].draft.gate

\* In an acyclic draft a task comes in a later batch than what it depends on,
\* and no batch is empty (computeBatches).
BatchOrder ==
    plan.draft # NoRef /\ ValidRefs(plan.draft) /\ ~ Cyclic(plan.draft.deps) =>
        LET batch == computeBatches(plan.draft) IN
        \A t \in Refs(plan.draft) :
            /\ \A u \in Ref : << t, u >> \in plan.draft.deps => batch[u] < batch[t]
            /\ batch[t] > 0 => \E u \in Refs(plan.draft) : batch[u] = batch[t] - 1

\* What somebody has said in a plan's conversation stays there.
MessageKept ==
    [][ /\ Len(plan'.conversation) >= Len(plan.conversation)
        /\ \A i \in DOMAIN plan.conversation :
            plan'.conversation[i] = plan.conversation[i] ]_vars
=============================================================================
