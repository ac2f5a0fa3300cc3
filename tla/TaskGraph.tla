----------------------------- MODULE TaskGraph -----------------------------
(***************************************************************************)
(* The rows of task_edges and the order they impose.  An edge <<a, b>>     *)
(* says that a waits for b.  Edges come from the tracker (chum sync), from *)
(* the admission gate, which fences tasks that touch the same code, and    *)
(* from a decomposition, which replaces a task by a chain of subtasks.     *)
(* AddEdge looks for a cycle with one query per node and then inserts:     *)
(* other processes may act between any two of its statements.  Ticks list  *)
(* the approved tasks that nothing blocks and start their agents.          *)
(***************************************************************************)
EXTENDS Naturals, Sequences

CONSTANTS
    Task,         \* the rows there may ever be
    Steps,        \* Steps[t]: the subtasks into which t may be decomposed
    Priority,     \* Priority[t]: number and id, smaller runs first
    Overlapping,  \* pairs { a, b } of tasks that touch the same code
    TrackerDeps,  \* the sets of dependencies a sync may find in the tracker
    TrackerStatus,\* TrackerStatus[t]: what status issue t may have in the
                  \* tracker when it is imported; "none" is closed
    Vanishing,    \* tasks whose code may be gone when the gate looks again
    Sync,         \* the session of the chum sync command
    NoEdge,
    Overlap,      \* may AddEdge calls overlap one another, and a decomposition
                  \* overlap an AddEdge call or an import?
    TakesBack,    \* may people take back rows that something else would move?
    MaxSyncs,     \* bound: runs of chum sync
    MaxFaults     \* bound: sessions that fail, agents that give up, and rows
                  \* people take back like that

Edge == Task \X Task
Subtask == UNION { { Steps[t][i] : i \in 1 .. Len(Steps[t]) } : t \in Task }
Issue == Task \ Subtask

\* A gate runs in the sync command, or in the agent that has decomposed a task.
Session == { t \in Task : Steps[t] # << >> } \cup { Sync }

Status == { "none", "open", "ready", "approved", "running", "completed",
            "decomposed", "needs_review", "rejected", "needs_refinement",
            "stale" }
\* What the import writes as it comes from the tracker.
RawStatus == UNION { TrackerStatus[t] : t \in Issue }
Phase == { "idle", "edges", "gate", "open", "stale", "list", "fences" }

ASSUME StepsAssumption ==
    /\ Steps \in [Task -> Seq(Task)]
    /\ \A t \in Task : \A i \in 1 .. Len(Steps[t]) :
        /\ Steps[Steps[t][i]] = << >>
        /\ \A u \in Task : \A j \in 1 .. Len(Steps[u]) :
            Steps[t][i] = Steps[u][j] => t = u /\ i = j
ASSUME OrderAssumption ==
    /\ Priority \in [Task -> Nat]
    /\ \A t, u \in Task : Priority[t] = Priority[u] => t = u
    /\ Overlapping \subseteq SUBSET Task
ASSUME TrackerAssumption ==
    /\ TrackerDeps \subseteq SUBSET (Issue \X Issue)
    /\ \A t \in Issue : "completed" \notin TrackerStatus[t]
    /\ Vanishing \subseteq Task
ASSUME NullAssumption == Sync \notin Task /\ NoEdge \notin Edge
ASSUME BoundAssumption == /\ Overlap \in BOOLEAN /\ TakesBack \in BOOLEAN
                          /\ MaxSyncs \in Nat
                          /\ MaxFaults \in Nat

---------------------------------------------------------------------------
VARIABLES
    status,    \* tasks.status; "none" is a row that does not exist yet
    edges,     \* task_edges
    fences,    \* the edges whose source is 'ast'
    phase,     \* phase[s]: where session s is
    listed,    \* listed[s]: tasks the session has listed and not yet handled
    work,      \* work[s]: edges the session has still to add
    adding,    \* adding[s]: the edge it is adding, and in that call
    queue,     \*   queue[s]: the nodes the search has still to visit
    seen,      \*   seen[s]: the nodes it has visited
    todo,      \* candidates the tick has listed and not yet started
    working,   \* tasks with an AgentWorkflow
    declared,  \* history: dependencies imported in time, by an edge of their own
    done,      \* history: tasks whose work was completed or accepted
    syncs, faults

graph   == << edges, fences >>
session == << phase, listed, work, adding, queue, seen >>
history == << declared, done >>
vars    == << status, graph, session, todo, working, history, syncs,
              faults >>

TypeOK ==
    /\ status \in [Task -> Status \cup RawStatus]
    /\ \A t \in Task : \/ status[t] \in Status
                       \/ t \in Issue /\ status[t] \in TrackerStatus[t]
    /\ edges \subseteq Edge
    /\ fences \subseteq edges
    /\ phase \in [Session -> Phase]
    /\ listed \in [Session -> SUBSET Task]
    /\ work \in [Session -> SUBSET Edge]
    /\ adding \in [Session -> Edge \cup { NoEdge }]
    /\ queue \in [Session -> SUBSET Task]
    /\ seen \in [Session -> SUBSET Task]
    /\ todo \subseteq Task
    /\ working \subseteq Task
    /\ declared \subseteq Edge
    /\ done \subseteq Task
    /\ syncs \in Nat
    /\ faults \in Nat

Init ==
    /\ status = [t \in Task |-> "none"]
    /\ edges = {} /\ fences = {}
    /\ phase = [s \in Session |-> "idle"]
    /\ listed = [s \in Session |-> {}]
    /\ work = [s \in Session |-> {}]
    /\ adding = [s \in Session |-> NoEdge]
    /\ queue = [s \in Session |-> {}]
    /\ seen = [s \in Session |-> {}]
    /\ todo = {} /\ working = {}
    /\ declared = {} /\ done = {}
    /\ syncs = 0 /\ faults = 0

---------------------------------------------------------------------------
(* Helpers.                                                                *)

Exists(t) == status[t] # "none"
Holding(ss) == { t \in Task : status[t] \in ss }
Children(t) == { u \in Task : /\ Exists(u)
                              /\ \E i \in 1 .. Len(Steps[t]) : Steps[t][i] = u }
Parents(t) == { p \in Task : t \in Children(p) }

\* Mutant: the edges are followed backwards.
GetDependencies_Dependents(t) == { d \in Task : << d, t >> \in edges }

GetDependencies(t) == { d \in Task : << t, d >> \in edges }

SetStatus(t, st) == status' = [status EXCEPT ![t] = st]
GoTo(s, p) == phase' = [phase EXCEPT ![s] = p]

Adding(s) == adding[s] # NoEdge
InGate(t) == t \in Session /\ phase[t] # "idle"
NobodyAdds == \A s \in Session : ~ Adding(s)

Fails == /\ faults < MaxFaults
         /\ faults' = faults + 1

\* What GetApprovedNodes lets an edge block on: a fence while the other task
\* is active, any other edge until it is completed.
blocking(e) ==
    /\ e \in edges
    /\ IF e \in fences
         THEN status[e[2]] \in { "ready", "running", "approved" }
         ELSE status[e[2]] # "completed"

GetApprovedNodes ==
    { t \in Holding({ "approved" }) : \A d \in Task : ~ blocking(<< t, d >>) }

\* The work of t is over: its own, or that of all its subtasks.
Finished(t) == \/ t \in done
               \/ Children(t) # {} /\ Children(t) \subseteq done

---------------------------------------------------------------------------
(* AddEdgeWithSource: a search from the new edge's target, one query per   *)
(* node, and an insert that leaves an edge alone that is there already.    *)

AddEdge(s) ==
    /\ phase[s] \in { "edges", "fences" }
    /\ ~ Adding(s)
    /\ Overlap \/ NobodyAdds
    /\ \E e \in work[s] :
        /\ adding' = [adding EXCEPT ![s] = e]
        /\ queue' = [queue EXCEPT ![s] = { e[2] }]
        /\ work' = [work EXCEPT ![s] = @ \ { e }]
    /\ seen' = [seen EXCEPT ![s] = {}]
    /\ UNCHANGED << status, graph, phase, listed, todo, working, history,
                    syncs, faults >>

\* One turn of wouldCreateCycle's loop that does not find the edge's source.
VisitNode(s) ==
    /\ Adding(s)
    /\ \E n \in queue[s] :
        /\ n # adding[s][1]
        /\ seen' = [seen EXCEPT ![s] = @ \cup { n }]
        /\ queue' = [queue EXCEPT ![s] =
                        (@ \cup GetDependencies(n)) \ (seen[s] \cup { n })]
    /\ UNCHANGED << status, graph, phase, listed, work, adding, todo,
                    working, history, syncs, faults >>

EndAdd(s) == /\ adding' = [adding EXCEPT ![s] = NoEdge]
             /\ queue' = [queue EXCEPT ![s] = {}]
             /\ seen' = [seen EXCEPT ![s] = {}]

\* The search has come to the edge's source: ErrCycleDetected.
RejectEdge(s) ==
    /\ Adding(s)
    /\ adding[s][1] \in queue[s]
    /\ EndAdd(s)
    /\ UNCHANGED << status, graph, phase, listed, work, todo, working,
                    history, syncs, faults >>

\* The search is over: INSERT OR IGNORE.  An import counts as declared when it
\* leaves an edge of its own (where there is a fence already it leaves none,
\* and the next gate deletes the fence) and the task has not been listed for
\* its start or decomposed meanwhile.
InsertEdge(s) ==
    /\ Adding(s)
    /\ queue[s] = {}
    /\ edges' = edges \cup { adding[s] }
    /\ fences' = IF phase[s] = "fences" /\ adding[s] \notin edges
                   THEN fences \cup { adding[s] } ELSE fences
    /\ LET from == adding[s][1]
       IN  declared' = IF /\ phase[s] = "edges" /\ adding[s] \notin fences
                          /\ from \notin todo /\ Children(from) = {}
                         THEN declared \cup { adding[s] } ELSE declared
    /\ EndAdd(s)
    /\ UNCHANGED << status, phase, listed, work, todo, working, done,
                    syncs, faults >>

---------------------------------------------------------------------------
(* chum sync: import the issues, add their dependencies, run the gate.     *)

\* SyncToDAG: a row, with the status it has in the tracker, for each new issue
\* that is not closed there, and an AddEdge for every dependency of one row on
\* another.
SyncToDAG ==
    /\ phase[Sync] = "idle"
    /\ syncs < MaxSyncs
    /\ syncs' = syncs + 1
    /\ \E st \in [Issue -> RawStatus] :
        /\ \A t \in Issue : st[t] \in TrackerStatus[t]
        /\ status' = [t \in Task |-> IF t \in Issue /\ ~ Exists(t)
                                       THEN st[t] ELSE status[t]]
    /\ \E deps \in TrackerDeps : work' = [work EXCEPT ![Sync] =
                    { e \in deps : status'[e[1]] # "none" /\ status'[e[2]] # "none" }]
    /\ GoTo(Sync, "edges")
    /\ UNCHANGED << graph, listed, adding, queue, seen, todo, working,
                    history, faults >>

(* RunGate: forget the fences, promote, look again, fence anew.            *)

GateCleans(s) ==
    /\ \/ phase[s] = "gate"
       \/ phase[s] = "edges" /\ work[s] = {} /\ ~ Adding(s)
    /\ edges' = edges \ fences
    /\ fences' = {}
    /\ listed' = [listed EXCEPT ![s] = Holding({ "open" })]
    /\ GoTo(s, "open")
    /\ UNCHANGED << status, work, adding, queue, seen, todo, working,
                    history, syncs, faults >>

\* Mutant: a status that nothing else knows.
GatePromotes_Admitted(s) ==
    /\ phase[s] = "open"
    /\ \E t \in listed[s] :
        /\ SetStatus(t, "admitted")
        /\ listed' = [listed EXCEPT ![s] = @ \ { t }]
    /\ UNCHANGED << graph, phase, work, adding, queue, seen, todo,
                    working, history, syncs, faults >>

\* One open task: ValidateStructure, resolve its targets, promote it; a
\* task whose write fails is passed over.
GatePromotes(s) ==
    /\ phase[s] = "open"
    /\ \E t \in listed[s] :
        /\ \/ /\ \E st \in { "ready", "needs_refinement" } : SetStatus(t, st)
              /\ UNCHANGED faults
           \/ Fails /\ UNCHANGED status
        /\ listed' = [listed EXCEPT ![s] = @ \ { t }]
    /\ UNCHANGED << graph, phase, work, adding, queue, seen, todo,
                    working, history, syncs >>

GateListsReady(s) ==
    /\ phase[s] = "open"
    /\ listed[s] = {}
    /\ listed' = [listed EXCEPT ![s] = Holding({ "ready" }) \cap Vanishing]
    /\ GoTo(s, "stale")
    /\ UNCHANGED << status, graph, work, adding, queue, seen, todo,
                    working, history, syncs, faults >>

\* One ready task: CheckStaleness, and the mark if its code has gone.
GateRechecks(s) ==
    /\ phase[s] = "stale"
    /\ \E t \in listed[s] :
        /\ SetStatus(t, "stale") \/ UNCHANGED status
        /\ listed' = [listed EXCEPT ![s] = @ \ { t }]
    /\ UNCHANGED << graph, phase, work, adding, queue, seen, todo,
                    working, history, syncs, faults >>

orderByPriority(a, b) ==
    IF Priority[a] < Priority[b] THEN << b, a >> ELSE << a, b >>

\* ComputeFences over the ready and running tasks.
ComputeFences(active) ==
    { orderByPriority(e[1], e[2]) : e \in
        { o \in active \X active : /\ o[1] # o[2]
                                   /\ { o[1], o[2] } \in Overlapping } }

GateFences(s) ==
    /\ phase[s] = "stale"
    /\ listed[s] = {}
    /\ work' = [work EXCEPT ![s] =
                    ComputeFences(Holding({ "ready", "running" }))]
    /\ GoTo(s, "fences")
    /\ UNCHANGED << status, graph, listed, adding, queue, seen, todo,
                    working, history, syncs, faults >>

\* The gate is over; in an agent, the close marks the task decomposed.
GateEnds(s) ==
    /\ phase[s] = "fences" /\ work[s] = {} /\ ~ Adding(s)
    /\ GoTo(s, "idle")
    /\ IF s = Sync THEN UNCHANGED << status, working >>
       ELSE SetStatus(s, "decomposed") /\ working' = working \ { s }
    /\ UNCHANGED << graph, listed, work, adding, queue, seen, todo,
                    history, syncs, faults >>

\* A query fails, or the command or the activity is cut off: what is left is
\* not done.  An agent whose gate failed closes as decomposed, one whose
\* activity failed as needs_review.
SessionFails(s) ==
    /\ phase[s] # "idle"
    /\ Fails
    /\ GoTo(s, "idle")
    /\ listed' = [listed EXCEPT ![s] = {}]
    /\ work' = [work EXCEPT ![s] = {}]
    /\ EndAdd(s)
    /\ IF s = Sync THEN UNCHANGED << status, working >>
       ELSE /\ working' = working \ { s }
            /\ \E st \in { "decomposed", "needs_review" } : SetStatus(s, st)
    /\ UNCHANGED << graph, todo, history, syncs >>

\* A query or the insert fails: the caller notes it and goes on.
AddEdgeFails(s) ==
    /\ Adding(s)
    /\ Fails
    /\ EndAdd(s)
    /\ UNCHANGED << status, graph, phase, listed, work, todo, working,
                    history, syncs >>

SessionStep(s) ==
    \/ AddEdge(s) \/ VisitNode(s) \/ RejectEdge(s) \/ InsertEdge(s)
    \/ GateCleans(s) \/ GatePromotes(s) \/ GateListsReady(s)
    \/ GateRechecks(s) \/ GateFences(s) \/ GateEnds(s)

---------------------------------------------------------------------------
(* The dispatcher and the agents.                                          *)

\* scanProjectReadyTasks: approved tasks that nothing blocks.  A task that
\* has subtasks already is marked decomposed instead.
ScanCandidates ==
    LET ready == GetApprovedNodes
        again == { t \in ready : t \notin Subtask /\ Children(t) # {} }
    IN  /\ todo = {} /\ ready # {}
        /\ todo' = ready \ again
        /\ status' = [t \in Task |-> IF t \in again THEN "decomposed"
                                     ELSE status[t]]
        /\ UNCHANGED << graph, session, working, history, syncs, faults >>

\* MarkTaskRunning and the start of the agent, for one candidate.
StartTask(t) ==
    /\ t \in todo
    /\ todo' = todo \ { t }
    /\ SetStatus(t, "running")
    /\ working' = working \cup { t }
    /\ UNCHANGED << graph, session, history, syncs, faults >>

\* Mutant: the parent's prerequisites are deleted and not inherited.
rewired_NotInherited(es, p) ==
    { e \in es : e[1] # p /\ e[2] # p }
    \cup { << a, Steps[p][Len(Steps[p])] >> :
            a \in { u \in Task : << u, p >> \in es } }

\* Mutant: who waited for the parent goes on waiting for it.
rewired_DependentsKept(es, p) ==
    { e \in es : e[1] # p }
    \cup { << Steps[p][1], d >> : d \in { u \in Task : << p, u >> \in es } }

\* What CreateSubtasksAtomic leaves of a set of edges: the first subtask
\* inherits what the parent waited for, and who waited for the parent waits
\* for the last subtask.
rewired(es, p) ==
    LET first == Steps[p][1]
        last == Steps[p][Len(Steps[p])]
    IN  { e \in es : e[1] # p /\ e[2] # p }
        \cup { << first, d >> : d \in { u \in Task : << p, u >> \in es } }
        \cup { << a, last >> : a \in { u \in Task : << u, p >> \in es } }

chain(p) == { << Steps[p][i + 1], Steps[p][i] >> : i \in 1 .. Len(Steps[p]) - 1 }

\* The transaction: the subtasks' rows with their first status, the chain, the
\* rewiring and the parent's mark.  (Bound: a task is decomposed once.)
CreateSubtasksAtomic(p, first) ==
    /\ p \notin Subtask
    /\ Steps[p] # << >> /\ Children(p) = {}
    /\ Overlap \/ (NobodyAdds /\ phase[Sync] # "edges")
    /\ edges' = rewired(edges, p) \cup chain(p)
    /\ fences' = rewired(fences, p)
    /\ status' = [t \in Task |->
                    IF t = p THEN "decomposed"
                    ELSE IF \E i \in 1 .. Len(Steps[p]) : Steps[p][i] = t
                           THEN first ELSE status[t]]

\* An agent decomposes its task and then runs the gate.
AgentDecomposes(p) ==
    /\ p \in working /\ ~ InGate(p)
    /\ CreateSubtasksAtomic(p, "open")
    /\ GoTo(p, "gate")
    /\ UNCHANGED << listed, work, adding, queue, seen, todo, working,
                    history, syncs, faults >>

\* A planning ceremony ends: its goal, whatever its status, is decomposed
\* into subtasks that are ready at once.
PlanSubtasks(p) ==
    /\ Exists(p)
    /\ CreateSubtasksAtomic(p, "ready")
    /\ UNCHANGED << session, todo, working, history, syncs, faults >>

\* The agent closes its task, whatever the row says by now.
AgentCompletes(t) ==
    /\ t \in working /\ ~ InGate(t)
    /\ SetStatus(t, "completed")
    /\ working' = working \ { t }
    /\ done' = done \cup { t }
    /\ UNCHANGED << graph, session, todo, declared, syncs, faults >>

AgentGivesUp(t) ==
    /\ t \in working /\ ~ InGate(t)
    /\ Fails
    /\ SetStatus(t, "needs_review")
    /\ working' = working \ { t }
    /\ UNCHANGED << graph, session, todo, history, syncs >>

---------------------------------------------------------------------------
(* People.                                                                 *)

Approve(t) ==
    /\ status[t] = "ready"
    /\ SetStatus(t, "approved")
    /\ UNCHANGED << graph, session, todo, working, history, syncs, faults >>

Accept(t) ==
    /\ status[t] = "needs_review"
    /\ SetStatus(t, "completed")
    /\ done' = done \cup { t }
    /\ UNCHANGED << graph, session, todo, working, declared, syncs, faults >>

Reject(t) ==
    /\ \/ status[t] = "needs_review" /\ SetStatus(t, "rejected")
       \/ status[t] = "approved" /\ SetStatus(t, "ready")
    /\ UNCHANGED << graph, session, todo, working, history, syncs, faults >>

Retry(t) ==
    /\ status[t] \in { "rejected", "needs_refinement" }
    /\ SetStatus(t, "ready")
    /\ UNCHANGED << graph, session, todo, working, history, syncs, faults >>

\* The dashboard's decompose asks nothing of the status: it is the one way out
\* of a status that only the tracker knows.
Decompose(t) ==
    /\ Exists(t)
    /\ SetStatus(t, "needs_refinement")
    /\ IF status[t] \in Status THEN TakesBack /\ Fails ELSE UNCHANGED faults
    /\ UNCHANGED << graph, session, todo, working, history, syncs >>

---------------------------------------------------------------------------
AgentStep(t) == AgentDecomposes(t) \/ AgentCompletes(t)

Next ==
    \/ SyncToDAG
    \/ \E s \in Session : SessionStep(s) \/ AddEdgeFails(s) \/ SessionFails(s)
    \/ ScanCandidates
    \/ \E t \in Task : StartTask(t)
    \/ \E t \in Task : AgentStep(t) \/ AgentGivesUp(t) \/ PlanSubtasks(t)
    \/ \E t \in Task : Approve(t) \/ Accept(t) \/ Reject(t) \/ Retry(t)
                       \/ Decompose(t)

\* A session's process and an agent go on; a tick comes again; people need
\* not do anything.
Spec ==
    /\ Init /\ [][Next]_vars
    /\ \A s \in Session : WF_vars(SessionStep(s))
    /\ WF_vars(ScanCandidates)
    /\ WF_vars(\E t \in Task : StartTask(t))
    /\ \A t \in Task : WF_vars(AgentStep(t))

---------------------------------------------------------------------------
(* Properties.                                                             *)

\* No edges close a cycle: of any set of tasks, one waits for none of them.
\* wouldCreateCycle is meant to keep the graph that way whatever is imported,
\* fenced and decomposed.
Acyclic ==
    \A S \in (SUBSET Task) \ { {} } :
        \E t \in S : \A d \in S : << t, d >> \notin edges

\* When an agent starts, the work of everything its task was declared to wait
\* for is over, and so for what the task it is a subtask of waited for: the
\* rewiring of CreateSubtasksAtomic with the listing of GetApprovedNodes.  What
\* a dependency that found a fence in its place is worth, this does not say.
OrderRespected ==
    [][\A t \in working' \ working :
        \A a \in { t } \cup Parents(t), d \in Task :
            << a, d >> \in declared => Finished(d)]_vars

\* Resting with people, or with the next chum sync: nothing else moves a row
\* with one of these statuses, or with a status that only the tracker knows.
Resting == { "none", "open", "ready", "needs_review", "rejected",
             "needs_refinement", "stale" }
           \cup (RawStatus \ Status)

\* Something t waits for, over any number of edges that block, rests: among
\* the tasks that do not rest, no set with t waits for its own members only.
HeldUp(t) ==
    \A S \in SUBSET (Task \ Holding(Resting)) :
        t \in S => \E x \in S, d \in Task \ S : blocking(<< x, d >>)

\* No approved task is left behind for ever while nothing that it waits for
\* rests with people: no edge is left that will never be satisfied.
NobodyLeftBehind ==
    []<>(\A t \in Task : status[t] = "approved" => HeldUp(t))
=============================================================================
