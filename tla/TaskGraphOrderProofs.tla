------------------------ MODULE TaskGraphOrderProofs ------------------------
(***************************************************************************)
(* The proof that tasks start in the declared order, for every set of      *)
(* tasks, every decomposition and every bound, whether AddEdge calls       *)
(* overlap or not.  The argument: a declared dependency is represented in  *)
(* task_edges by an edge of its own that is no fence, between whoever      *)
(* stands for its two tasks after they were decomposed; an approved task   *)
(* is only listed when the targets of such edges are completed; and a      *)
(* subtask only begins when its siblings before it are done, so that the   *)
(* last one stands for all.                                                *)
(***************************************************************************)
EXTENDS TaskGraphProofs

---------------------------------------------------------------------------
(* The inductive invariant.                                                *)

\* What a tick, an agent or a gate deals with has a row.
Known == /\ \A t \in todo \cup working \cup done : Exists(t)
         /\ \A s \in Session : \A t \in listed[s] : Exists(t)

\* A search runs in the two loops that add edges, and never meets its source.
SearchEnds ==
    \A s \in Session : Adding(s) =>
        /\ phase[s] \in { "edges", "fences" }
        /\ adding[s][2] \in seen[s] \cup queue[s]
        /\ adding[s][1] \notin seen[s]

\* Only chum sync imports, and only dependencies of the tracker's issues.
Importing ==
    \A s \in Session : phase[s] = "edges" =>
        /\ s = Sync
        /\ work[s] \subseteq Issue \X Issue
        /\ Adding(s) => adding[s] \in Issue \X Issue

\* Who carries on a task's waiting, and whom its dependents may wait for.
Face(t) == IF Children(t) = {} THEN t ELSE Steps[t][1]
Stands(d) == { d } \cup { t \in Children(d) : t = Steps[d][Len(Steps[d])] }

\* The edges that block until their target is completed.
Plain == edges \ fences

Distinct == \A e \in declared : e \in Issue \X Issue /\ e[1] # e[2]
Represented ==
    \A e \in declared : \E d \in Stands(e[2]) : << Face(e[1]), d >> \in Plain
ChainKept == \A p \in Task : Children(p) # {} => chain(p) \subseteq Plain

CompletedDone == \A t \in Task : status[t] = "completed" => t \in done

\* What t was declared to wait for is over.
Cleared(t) == \A d \in Task : << t, d >> \in declared => Finished(d)
TodoCleared == \A t \in todo : Cleared(t)

\* A subtask begins in its turn.
Begun(t) == t \in todo \cup working \cup done \/ status[t] = "needs_review"
InTurn ==
    \A p \in Task : \A i \in 1 .. Len(Steps[p]) :
        Begun(Steps[p][i]) => /\ Cleared(p)
                              /\ \A j \in 1 .. i - 1 : Steps[p][j] \in done

---------------------------------------------------------------------------
(* The steps, by what they do to the rows.                                 *)

\* The subtasks of two tasks are different, and none has subtasks itself.
LEMMA SubtaskSplit ==
    /\ \A p \in Task : Subtasks(p) \subseteq Subtask
    /\ \A p \in Task : \A t \in Subtasks(p) : t \in Task /\ Steps[t] = << >>
    /\ \A t \in Subtask : \E p \in Task : t \in Subtasks(p)
    /\ \A p, q \in Task : \A t \in Subtasks(p) : t \in Subtasks(q) => p = q
    /\ \A t \in Task : Steps[t] # << >> => t \notin Subtask
<1>1. \A p \in Task : Subtasks(p) \subseteq Subtask
  BY DEF Subtasks, Subtask
<1>2. ASSUME NEW p \in Task, NEW t \in Subtasks(p)
      PROVE  t \in Task /\ Steps[t] = << >>
  <2>1. PICK i \in 1 .. Len(Steps[p]) : t = Steps[p][i]
    BY DEF Subtasks
  <2>2. Steps[p] \in Seq(Task)
    BY StepsAssumption
  <2> QED
    BY <2>1, <2>2, StepsAssumption
<1>3. \A t \in Subtask : \E p \in Task : t \in Subtasks(p)
  BY DEF Subtasks, Subtask
<1>4. ASSUME NEW p \in Task, NEW q \in Task, NEW t \in Subtasks(p),
             t \in Subtasks(q)
      PROVE  p = q
  <2>1. PICK i \in 1 .. Len(Steps[p]) : t = Steps[p][i]
    BY DEF Subtasks
  <2>2. PICK j \in 1 .. Len(Steps[q]) : t = Steps[q][j]
    BY <1>4 DEF Subtasks
  <2> QED
    BY <2>1, <2>2, StepsAssumption
<1>5. \A t \in Task : Steps[t] # << >> => t \notin Subtask
  BY <1>2, <1>3
<1> QED
  BY <1>1, <1>2, <1>3, <1>4, <1>5

LEMMA RowsStay ==
    ASSUME TypeOK, [Next]_vars
    PROVE  RowsKept
<1>1. ASSUME NEW s \in Session, AddEdge(s) \/ VisitNode(s) \/ InsertEdge(s)
      PROVE  RowsKept
  BY <1>1 DEF AddEdge, VisitNode, InsertEdge, RowsKept, Exists
<1>2. ASSUME NEW p \in Task, Decomposes(p) PROVE RowsKept
  BY <1>2 DEF Decomposes, CreateSubtasksAtomic, RowsKept, Exists
<1> QED
  BY <1>1, <1>2, Kinds DEF Passive, Ends

\* Rows of subtasks come from decompositions only.
LEMMA SubtaskRows ==
    ASSUME TypeOK, Known, [Next]_vars, NEW t \in Subtask, Exists(t)', ~ Exists(t)
    PROVE  \E p \in Task : Decomposes(p)
<1>a. t \in Task /\ t \notin Issue /\ t \notin Session
  <2>1. PICK p \in Task : t \in Subtasks(p)
    BY SubtaskSplit
  <2>2. t \in Task /\ Steps[t] = << >>
    BY <2>1, SubtaskSplit
  <2> QED
    BY <2>2, NullAssumption DEF Issue, Session
<1> USE DEF Exists, SetStatus, TypeOK
<1>1. CASE SyncToDAG
  BY <1>1, <1>a DEF SyncToDAG
<1>2. ASSUME NEW s \in Session, SessionStep(s) \/ AddEdgeFails(s) \/ SessionFails(s)
      PROVE  FALSE
  <2>1. status'[t] = status[t] \/ t \in listed[s]
    <3>1. CASE AddEdge(s) \/ VisitNode(s) \/ RejectEdge(s) \/ InsertEdge(s)
                 \/ AddEdgeFails(s)
      BY <3>1 DEF AddEdge, VisitNode, RejectEdge, InsertEdge, AddEdgeFails
    <3>2. CASE GateCleans(s) \/ GateListsReady(s) \/ GateFences(s)
      BY <3>2 DEF GateCleans, GateListsReady, GateFences
    <3>3. CASE GatePromotes(s) \/ GateRechecks(s)
      BY <3>3, <1>a DEF GatePromotes, GateRechecks
    <3>4. CASE GateEnds(s) \/ SessionFails(s)
      BY <3>4, <1>a DEF GateEnds, SessionFails
    <3> QED
      BY <1>2, <3>1, <3>2, <3>3, <3>4 DEF SessionStep
  <2> QED
    BY <2>1 DEF Known
<1>3. CASE ScanCandidates
  BY <1>3, <1>a DEF ScanCandidates, GetApprovedNodes, Holding
<1>4. ASSUME NEW u \in Task,
             StartTask(u) \/ AgentCompletes(u) \/ AgentGivesUp(u)
               \/ Approve(u) \/ Accept(u) \/ Reject(u) \/ Retry(u) \/ Decompose(u)
      PROVE  FALSE
  <2>1. status'[t] = status[t] \/ t = u
    BY <1>4, <1>a DEF StartTask, AgentCompletes, AgentGivesUp, Approve, Accept,
       Reject, Retry, Decompose
  <2>2. Exists(u)
    BY <1>4 DEF StartTask, AgentCompletes, AgentGivesUp, Approve, Accept,
       Reject, Retry, Decompose, Known
  <2> QED
    BY <2>1, <2>2
<1>5. ASSUME NEW p \in Task, AgentDecomposes(p) \/ PlanSubtasks(p)
      PROVE  Decomposes(p)
  BY <1>5 DEF AgentDecomposes, PlanSubtasks, Decomposes, session
<1>6. CASE UNCHANGED vars
  BY <1>6 DEF vars
<1> QED
  BY <1>1, <1>2, <1>3, <1>4, <1>5, <1>6 DEF Next, AgentStep
\* A decomposition makes all the subtasks of one task, and no others.
LEMMA DecompositionRows ==
    ASSUME TypeOK, NEW p \in Task, Decomposes(p)
    PROVE  /\ Steps[p] # << >> /\ p \notin Subtask
           /\ Children(p) = {} /\ Children(p)' = Subtasks(p)
           /\ \A q \in Task \ { p } : Children(q)' = Children(q)
           /\ \A t \in Subtasks(p) : ~ Exists(t)
<1>1. PICK first \in { "open", "ready" } : CreateSubtasksAtomic(p, first)
  BY DEF Decomposes
<1>2. Steps[p] # << >> /\ p \notin Subtask /\ Children(p) = {}
  BY <1>1 DEF CreateSubtasksAtomic
<1>3. \A t \in Subtasks(p) : t \in Task /\ ~ Exists(t)
  BY <1>2, SubtaskSplit DEF Children, Subtasks
<1>4. \A t \in Task : status'[t] = IF t = p THEN "decomposed"
                                   ELSE IF t \in Subtasks(p)
                                          THEN first ELSE status[t]
  BY <1>1 DEF CreateSubtasksAtomic, Subtasks
<1>5. Children(p)' = Subtasks(p)
  <2>1. \A t \in Subtasks(p) : t \in Task /\ Exists(t)'
    BY <1>2, <1>3, <1>4, SubtaskSplit DEF Exists
  <2> QED
    BY <2>1 DEF Children, Subtasks
<1>6. ASSUME NEW q \in Task \ { p } PROVE Children(q)' = Children(q)
  <2>1. \A t \in Subtasks(q) : t # p /\ t \notin Subtasks(p) /\ t \in Task
    BY <1>2, SubtaskSplit
  <2>2. \A t \in Subtasks(q) : Exists(t)' <=> Exists(t)
    BY <2>1, <1>4 DEF Exists
  <2> QED
    BY <2>2 DEF Children, Subtasks
<1> QED
  BY <1>2, <1>3, <1>5, <1>6

\* Any other step makes none.
LEMMA ChildrenStay ==
    ASSUME TypeOK, Known, [Next]_vars, ~ \E p \in Task : Decomposes(p)
    PROVE  \A q \in Task : Children(q)' = Children(q)
<1> SUFFICES ASSUME NEW q \in Task, NEW t \in Subtasks(q)
             PROVE  Exists(t)' <=> Exists(t)
  BY DEF Children, Subtasks
<1>1. t \in Subtask /\ t \in Task
  BY SubtaskSplit
<1> QED
  BY <1>1, SubtaskRows, RowsStay DEF RowsKept

\* Subtasks that are there stay, and no others join them.
LEMMA ChildrenKept ==
    ASSUME TypeOK, Known, [Next]_vars, NEW q \in Task, Children(q) # {}
    PROVE  Children(q)' = Children(q)
BY ChildrenStay, DecompositionRows

---------------------------------------------------------------------------
(* The steps, by whom they list, start and end.                            *)

\* Who may begin, who is at work, and whose work is over.
Moves ==
    /\ \A t \in todo' : t \in todo \/ ScanCandidates
    /\ \A t \in working' : t \in working \/ t \in todo
    /\ \A t \in done' : t \in done \/ t \in working \/ status[t] = "needs_review"
    /\ done \subseteq done'
    /\ \A t \in Task : status'[t] = "completed" =>
                          status[t] = "completed" \/ t \in done'
    /\ \A t \in Subtask : status'[t] = "needs_review" =>
                             status[t] = "needs_review" \/ t \in working

LEMMA SessionMoves ==
    ASSUME TypeOK, NEW s \in Session,
           SessionStep(s) \/ AddEdgeFails(s) \/ SessionFails(s)
    PROVE  Moves
<1>a. s \notin Subtask
  BY SubtaskSplit, SessionFacts, NullAssumption DEF Subtask
<1>b. Subtask \subseteq Task
  BY SubtaskSplit
<1> USE DEF TypeOK, SetStatus, Moves, history
<1>1. CASE AddEdge(s) \/ VisitNode(s) \/ RejectEdge(s) \/ InsertEdge(s)
             \/ AddEdgeFails(s)
  BY <1>1 DEF AddEdge, VisitNode, RejectEdge, InsertEdge, AddEdgeFails
<1>2. CASE GateCleans(s) \/ GateListsReady(s) \/ GateFences(s)
  BY <1>2 DEF GateCleans, GateListsReady, GateFences
<1>3. CASE GatePromotes(s) \/ GateRechecks(s)
  <2>1. \A t \in Task : status'[t] \in { "ready", "needs_refinement", "stale",
                                        status[t] }
    BY <1>3 DEF GatePromotes, GateRechecks
  <2> QED
    BY <1>3, <1>b, <2>1 DEF GatePromotes, GateRechecks
<1>4. CASE GateEnds(s) \/ SessionFails(s)
  <2>1. \A t \in Task : status'[t] = status[t] \/
           (t = s /\ status'[t] \in { "decomposed", "needs_review" })
    BY <1>4 DEF GateEnds, SessionFails
  <2>2. UNCHANGED << todo, done >> /\ working' \subseteq working
    BY <1>4 DEF GateEnds, SessionFails
  <2> QED
    BY <1>a, <1>b, <2>1, <2>2
<1> QED
  BY <1>1, <1>2, <1>3, <1>4 DEF SessionStep

LEMMA TaskMoves ==
    ASSUME TypeOK, NEW t \in Task,
           StartTask(t) \/ AgentStep(t) \/ AgentGivesUp(t) \/ PlanSubtasks(t)
             \/ Approve(t) \/ Accept(t) \/ Reject(t) \/ Retry(t) \/ Decompose(t)
    PROVE  Moves
<1> USE DEF TypeOK, SetStatus, Moves, history, session
<1>1. CASE StartTask(t)
  BY <1>1, SubtaskSplit DEF StartTask
<1>2. CASE AgentDecomposes(t) \/ PlanSubtasks(t)
  <2>1. PICK first \in { "open", "ready" } : CreateSubtasksAtomic(t, first)
    BY <1>2 DEF AgentDecomposes, PlanSubtasks
  <2>2. \A u \in Task : status'[u] \in { "decomposed", "open", "ready", status[u] }
    BY <2>1 DEF CreateSubtasksAtomic
  <2>3. Subtask \subseteq Task
    BY SubtaskSplit
  <2>4. UNCHANGED << todo, working, done >>
    BY <1>2 DEF AgentDecomposes, PlanSubtasks
  <2>5. \A u \in Task : /\ status'[u] = "completed" => status[u] = "completed"
                        /\ status'[u] = "needs_review" => status[u] = "needs_review"
    BY <2>2
  <2> QED
    BY <2>3, <2>4, <2>5
<1>3. CASE AgentCompletes(t)
  BY <1>3, SubtaskSplit DEF AgentCompletes
<1>4. CASE AgentGivesUp(t)
  BY <1>4, SubtaskSplit DEF AgentGivesUp
<1>5. CASE Approve(t) \/ Reject(t) \/ Retry(t) \/ Decompose(t)
  BY <1>5, SubtaskSplit DEF Approve, Reject, Retry, Decompose
<1>6. CASE Accept(t)
  BY <1>6, SubtaskSplit DEF Accept
<1> QED
  BY <1>1, <1>2, <1>3, <1>4, <1>5, <1>6 DEF AgentStep

LEMMA AllMoves == ASSUME TypeOK, [Next]_vars PROVE Moves
<1>1. CASE SyncToDAG
  <2>1. Subtask \subseteq Task
    BY SubtaskSplit
  <2>2. PICK st \in [Issue -> RawStatus] :
           /\ \A t \in Issue : st[t] \in TrackerStatus[t]
           /\ status' = [t \in Task |-> IF t \in Issue /\ ~ Exists(t)
                                          THEN st[t] ELSE status[t]]
    BY <1>1 DEF SyncToDAG
  <2>3. \A t \in Task : status'[t] = "completed" => status[t] = "completed"
    BY <2>2, TrackerAssumption
  <2>4. \A t \in Subtask : status'[t] = status[t]
    BY <2>1, <2>2 DEF Issue
  <2> QED
    BY <1>1, <2>1, <2>3, <2>4 DEF SyncToDAG, Moves, history
<1>2. CASE ScanCandidates
  <2>1. Subtask \subseteq Task
    BY SubtaskSplit
  <2>2. \A t \in Task : status'[t] \in { "decomposed", status[t] }
    BY <1>2 DEF ScanCandidates
  <2> QED
    BY <1>2, <2>1, <2>2 DEF ScanCandidates, Moves, history
<1>3. CASE UNCHANGED vars
  BY <1>3 DEF vars, Moves, history
<1> QED
  BY <1>1, <1>2, <1>3, SessionMoves, TaskMoves DEF Next

LEMMA KnownNext ==
    ASSUME TypeOK, Known, [Next]_vars
    PROVE  Known'
<1>a. RowsKept /\ Moves /\ TypeOK'
  BY RowsStay, AllMoves, TypeNext
<1>1. ASSUME NEW t \in todo' PROVE Exists(t)'
  <2>1. CASE t \in todo
    BY <2>1, <1>a DEF Known, RowsKept, TypeOK
  <2>2. CASE ScanCandidates
    <3>1. t \in Task /\ status[t] = "approved"
      BY <2>2 DEF ScanCandidates, GetApprovedNodes, Holding
    <3> QED
      BY <3>1, <1>a DEF Exists, RowsKept
  <2> QED
    BY <2>1, <2>2, <1>a DEF Moves
<1>2. ASSUME NEW t \in working' \cup done' PROVE Exists(t)'
  <2>1. t \in Task /\ Exists(t)
    BY <1>a DEF Moves, Known, Exists, TypeOK
  <2> QED
    BY <2>1, <1>a DEF RowsKept
<1>3. ASSUME NEW s \in Session, NEW t \in listed'[s] PROVE Exists(t)'
  <2>1. \/ listed'[s] \subseteq listed[s]
        \/ \A u \in listed'[s] : u \in Task /\ Exists(u)
    <3>1. ASSUME NEW r \in Session,
                 SessionStep(r) \/ AddEdgeFails(r) \/ SessionFails(r)
          PROVE  \/ listed'[s] \subseteq listed[s]
                 \/ \A u \in listed'[s] : u \in Task /\ Exists(u)
      <4> USE DEF TypeOK
      <4>1. CASE AddEdge(r) \/ VisitNode(r) \/ RejectEdge(r) \/ InsertEdge(r)
                   \/ AddEdgeFails(r) \/ GateFences(r) \/ GateEnds(r)
        BY <4>1 DEF AddEdge, VisitNode, RejectEdge, InsertEdge, AddEdgeFails,
           GateFences, GateEnds
      <4>2. CASE GatePromotes(r) \/ GateRechecks(r) \/ SessionFails(r)
        BY <4>2 DEF GatePromotes, GateRechecks, SessionFails
      <4>3. CASE GateCleans(r) \/ GateListsReady(r)
        BY <4>3 DEF GateCleans, GateListsReady, Holding, Exists
      <4> QED
        BY <3>1, <4>1, <4>2, <4>3 DEF SessionStep
    <3>2. CASE ~ \E r \in Session :
                   SessionStep(r) \/ AddEdgeFails(r) \/ SessionFails(r)
      <4>1. UNCHANGED listed
        BY <3>2 DEF Next, vars, session, SyncToDAG, ScanCandidates,
           StartTask, AgentStep, AgentDecomposes, AgentCompletes, AgentGivesUp,
           PlanSubtasks, Approve, Accept, Reject, Retry, Decompose
      <4> QED
        BY <4>1
    <3> QED
      BY <3>1, <3>2
  <2>2. t \in Task
    BY <1>a DEF TypeOK
  <2> QED
    BY <2>1, <2>2, <1>a DEF Known, RowsKept
<1> QED
  BY <1>1, <1>2, <1>3 DEF Known
---------------------------------------------------------------------------
(* The sessions.                                                           *)

\* A session is left where it is by what others do.
Stays(u) == /\ phase'[u] = phase[u]
            /\ work'[u] = work[u]
            /\ adding'[u] = adding[u]
            /\ queue'[u] = queue[u]
            /\ seen'[u] = seen[u]

OwnStep(u) == \/ SessionStep(u) \/ AddEdgeFails(u) \/ SessionFails(u)
              \/ u = Sync /\ SyncToDAG
              \/ u \in Task /\ AgentDecomposes(u)

LEMMA OthersStay ==
    ASSUME TypeOK, [Next]_vars, NEW u \in Session
    PROVE  Stays(u) \/ OwnStep(u)
<1> USE DEF TypeOK, Stays, OwnStep, session, GoTo, EndAdd
<1>1. CASE SyncToDAG
  BY <1>1 DEF SyncToDAG
<1>2. ASSUME NEW s \in Session, SessionStep(s) \/ AddEdgeFails(s) \/ SessionFails(s)
      PROVE  Stays(u) \/ OwnStep(u)
  <2>1. CASE s = u
    BY <1>2, <2>1
  <2>2. CASE s # u
    <3>1. CASE AddEdge(s) \/ VisitNode(s) \/ RejectEdge(s) \/ InsertEdge(s)
                 \/ AddEdgeFails(s) \/ SessionFails(s)
      BY <2>2, <3>1 DEF AddEdge, VisitNode, RejectEdge, InsertEdge,
         AddEdgeFails, SessionFails
    <3>2. CASE GateCleans(s) \/ GatePromotes(s) \/ GateListsReady(s)
                 \/ GateRechecks(s) \/ GateFences(s) \/ GateEnds(s)
      BY <2>2, <3>2 DEF GateCleans, GatePromotes, GateListsReady, GateRechecks,
         GateFences, GateEnds
    <3> QED
      BY <1>2, <3>1, <3>2 DEF SessionStep
  <2> QED
    BY <2>1, <2>2
<1>3. ASSUME NEW t \in Task, AgentDecomposes(t) PROVE Stays(u) \/ OwnStep(u)
  BY <1>3 DEF AgentDecomposes
<1>4. CASE ScanCandidates \/ UNCHANGED vars
  BY <1>4 DEF ScanCandidates, vars
<1>5. ASSUME NEW t \in Task,
             \/ StartTask(t) \/ AgentCompletes(t) \/ AgentGivesUp(t)
             \/ PlanSubtasks(t) \/ Approve(t) \/ Accept(t) \/ Reject(t)
             \/ Retry(t) \/ Decompose(t)
      PROVE  Stays(u)
  BY <1>5 DEF StartTask, AgentCompletes, AgentGivesUp, PlanSubtasks, Approve,
     Accept, Reject, Retry, Decompose
<1> QED
  BY <1>1, <1>2, <1>3, <1>4, <1>5 DEF Next, AgentStep

\* An agent that decomposes its task is not in a gate.
LEMMA AgentIsIdle ==
    ASSUME NEW u \in Session, u \in Task, AgentDecomposes(u)
    PROVE  phase[u] = "idle"
BY DEF AgentDecomposes, InGate

LEMMA SearchEndsNext ==
    ASSUME TypeOK, SearchEnds, [Next]_vars
    PROVE  SearchEnds'
<1> SUFFICES ASSUME NEW u \in Session, Adding(u)'
             PROVE  /\ phase'[u] \in { "edges", "fences" }
                    /\ adding'[u][2] \in seen'[u] \cup queue'[u]
                    /\ adding'[u][1] \notin seen'[u]
  BY DEF SearchEnds
<1> USE DEF TypeOK, Adding, GoTo, EndAdd
<1>1. CASE Stays(u)
  BY <1>1 DEF Stays, SearchEnds
<1>2. CASE AddEdge(u)
  BY <1>2 DEF AddEdge
<1>3. CASE VisitNode(u)
  <2>1. PICK n \in queue[u] :
           /\ n # adding[u][1]
           /\ seen' = [seen EXCEPT ![u] = @ \cup { n }]
           /\ queue' = [queue EXCEPT ![u] =
                          (@ \cup GetDependencies(n)) \ (seen[u] \cup { n })]
    BY <1>3 DEF VisitNode
  <2>2. /\ seen'[u] = seen[u] \cup { n }
        /\ seen[u] \cup queue[u] \subseteq seen'[u] \cup queue'[u]
    BY <2>1
  <2>3. adding' = adding /\ phase' = phase
    BY <1>3 DEF VisitNode
  <2> QED
    BY <1>3, <2>1, <2>2, <2>3 DEF SearchEnds, VisitNode
<1>4. CASE RejectEdge(u) \/ InsertEdge(u) \/ AddEdgeFails(u) \/ SessionFails(u)
  BY <1>4 DEF RejectEdge, InsertEdge, AddEdgeFails, SessionFails
<1>5. CASE GateCleans(u) \/ GatePromotes(u) \/ GateListsReady(u)
             \/ GateRechecks(u) \/ GateFences(u) \/ GateEnds(u)
  BY <1>5 DEF GateCleans, GatePromotes, GateListsReady, GateRechecks, GateFences,
     GateEnds, SearchEnds
<1>6. CASE SyncToDAG /\ u = Sync
  BY <1>6 DEF SyncToDAG, SearchEnds
<1>7. CASE u \in Task /\ AgentDecomposes(u)
  BY <1>7, AgentIsIdle DEF AgentDecomposes, SearchEnds
<1> QED
  BY <1>1, <1>2, <1>3, <1>4, <1>5, <1>6, <1>7, OthersStay DEF OwnStep, SessionStep

LEMMA ImportingNext ==
    ASSUME TypeOK, SearchEnds, Importing, [Next]_vars
    PROVE  Importing'
<1> USE DEF TypeOK, Adding, GoTo, EndAdd
<1> SUFFICES ASSUME NEW u \in Session, phase'[u] = "edges"
             PROVE  /\ u = Sync
                    /\ work'[u] \subseteq Issue \X Issue
                    /\ Adding(u)' => adding'[u] \in Issue \X Issue
  BY DEF Importing
<1>2. CASE Stays(u)
  BY <1>2 DEF Stays, Importing
<1>3. CASE AddEdge(u) \/ VisitNode(u)
  BY <1>3 DEF AddEdge, VisitNode, Importing
<1>4. CASE RejectEdge(u) \/ InsertEdge(u) \/ AddEdgeFails(u) \/ SessionFails(u)
  BY <1>4 DEF RejectEdge, InsertEdge, AddEdgeFails, SessionFails, Importing
<1>5. CASE GateCleans(u) \/ GatePromotes(u) \/ GateListsReady(u)
             \/ GateRechecks(u) \/ GateFences(u) \/ GateEnds(u)
  BY <1>5 DEF GateCleans, GatePromotes, GateListsReady, GateRechecks, GateFences,
     GateEnds
<1>6. CASE SyncToDAG /\ u = Sync
  <2>1. PICK ds \in TrackerDeps : work' = [work EXCEPT ![Sync] =
           { e \in ds : status'[e[1]] # "none" /\ status'[e[2]] # "none" }]
    BY <1>6 DEF SyncToDAG
  <2>2. ds \subseteq Issue \X Issue
    BY TrackerAssumption
  <2> QED
    BY <1>6, <2>1, <2>2 DEF SyncToDAG, SearchEnds
<1>7. CASE u \in Task /\ AgentDecomposes(u)
  BY <1>7, AgentIsIdle DEF AgentDecomposes
<1> QED
  BY <1>2, <1>3, <1>4, <1>5, <1>6, <1>7, OthersStay DEF OwnStep, SessionStep
---------------------------------------------------------------------------
(* The steps, by what they do to the graph.                                *)

LEMMA GraphSteps ==
    ASSUME [Next]_vars
    PROVE  \/ UNCHANGED << edges, fences, declared >>
           \/ \E s \in Session : GateCleans(s) \/ InsertEdge(s)
           \/ \E p \in Task : Decomposes(p)
<1> USE DEF graph, history
<1>1. ASSUME NEW s \in Session, SessionStep(s) \/ AddEdgeFails(s) \/ SessionFails(s)
      PROVE  \/ UNCHANGED << edges, fences, declared >>
             \/ GateCleans(s) \/ InsertEdge(s)
  BY <1>1 DEF SessionStep, AddEdge, VisitNode, RejectEdge, GatePromotes,
     GateListsReady, GateRechecks, GateFences, GateEnds, AddEdgeFails,
     SessionFails
<1>2. ASSUME NEW t \in Task, AgentDecomposes(t) \/ PlanSubtasks(t)
      PROVE  Decomposes(t)
  BY <1>2 DEF AgentDecomposes, PlanSubtasks, Decomposes, session
<1>3. ASSUME NEW t \in Task,
             \/ StartTask(t) \/ AgentCompletes(t) \/ AgentGivesUp(t)
             \/ Approve(t) \/ Accept(t) \/ Reject(t) \/ Retry(t) \/ Decompose(t)
      PROVE  UNCHANGED << edges, fences, declared >>
  BY <1>3 DEF StartTask, AgentCompletes, AgentGivesUp, Approve, Accept, Reject,
     Retry, Decompose
<1>4. CASE SyncToDAG \/ ScanCandidates \/ UNCHANGED vars
  BY <1>4 DEF SyncToDAG, ScanCandidates, vars
<1> QED
  BY <1>1, <1>2, <1>3, <1>4 DEF Next, AgentStep

\* A decomposition declares nothing, and rewires edges and fences alike.
LEMMA DecompositionEdges ==
    ASSUME [Next]_vars, NEW p \in Task, Decomposes(p)
    PROVE  /\ edges' = rewired(edges, p) \cup chain(p)
           /\ fences' = rewired(fences, p)
<1>1. PICK first \in { "open", "ready" } : CreateSubtasksAtomic(p, first)
  BY DEF Decomposes
<1> QED
  BY <1>1 DEF CreateSubtasksAtomic

\* An edge of a decomposed graph: one of the old ones, or one with a subtask.
LEMMA RewiredFences ==
    ASSUME TypeOK, NEW p \in Task, Steps[p] # << >>,
           NEW e \in rewired(fences, p)
    PROVE  \/ e \in fences /\ e[1] # p /\ e[2] # p
           \/ e[1] = Steps[p][1] /\ << p, e[2] >> \in fences
           \/ << e[1], p >> \in fences /\ e[2] = Steps[p][Len(Steps[p])]
<1>1. CASE e \in { o \in fences : o[1] # p /\ o[2] # p }
  BY <1>1
<1>2. CASE e \in { << Steps[p][1], d >> : d \in { u \in Task : << p, u >> \in fences } }
  <2>1. PICK d \in Task : << p, d >> \in fences /\ e = << Steps[p][1], d >>
    BY <1>2
  <2>2. e[1] = Steps[p][1] /\ e[2] = d
    BY <2>1
  <2> QED
    BY <2>1, <2>2
<1>3. CASE e \in { << a, Steps[p][Len(Steps[p])] >> :
                    a \in { u \in Task : << u, p >> \in fences } }
  <2>1. PICK a \in Task :
           << a, p >> \in fences /\ e = << a, Steps[p][Len(Steps[p])] >>
    BY <1>3
  <2>2. e[1] = a /\ e[2] = Steps[p][Len(Steps[p])]
    BY <2>1
  <2> QED
    BY <2>1, <2>2
<1> QED
  BY <1>1, <1>2, <1>3 DEF rewired

\* The first and the last subtask, and the links between them.
LEMMA EndsOfChain ==
    ASSUME NEW p \in Task, Steps[p] # << >>
    PROVE  /\ Len(Steps[p]) \in Nat \ { 0 }
           /\ Steps[p][1] \in Subtasks(p)
           /\ Steps[p][Len(Steps[p])] \in Subtasks(p)
           /\ \A e \in chain(p) : e \in Task \X Task /\ e[1] \in Subtasks(p)
                                   /\ e[2] \in Subtasks(p)
<1>1. Len(Steps[p]) \in Nat \ { 0 }
  BY SubtaskFacts
<1>2. \A i \in 1 .. Len(Steps[p]) : Steps[p][i] \in Subtasks(p)
  BY DEF Subtasks
<1>3. ASSUME NEW e \in chain(p)
      PROVE  e \in Task \X Task /\ e[1] \in Subtasks(p) /\ e[2] \in Subtasks(p)
  <2>1. PICK i \in 1 .. Len(Steps[p]) - 1 : e = << Steps[p][i + 1], Steps[p][i] >>
    BY DEF chain
  <2>2. Steps[p][i + 1] \in Subtasks(p) /\ Steps[p][i] \in Subtasks(p)
    BY <1>1, <1>2
  <2> QED
    BY <2>1, <2>2, SubtaskSplit
<1> QED
  BY <1>1, <1>2, <1>3

\* No edge that blocks until completion is lost or becomes a fence: the gate
\* only forgets the fences, and a decomposition passes it on as such an edge.
LEMMA PlainKept ==
    ASSUME TypeOK, [Next]_vars, ~ \E p \in Task : Decomposes(p)
    PROVE  Plain \subseteq Plain'
BY GraphSteps DEF Plain, GateCleans, InsertEdge

LEMMA PlainRewired ==
    ASSUME TypeOK, Rows, [Next]_vars, NEW p \in Task, Decomposes(p)
    PROVE  /\ \A e \in Plain : e[1] # p /\ e[2] # p => e \in Plain'
           /\ \A d \in Task : << p, d >> \in Plain /\ d # p
                                => << Steps[p][1], d >> \in Plain'
           /\ \A a \in Task : << a, p >> \in Plain /\ a # p
                                => << a, Steps[p][Len(Steps[p])] >> \in Plain'
           /\ chain(p) \subseteq Plain'
<1> DEFINE first == Steps[p][1]
           last == Steps[p][Len(Steps[p])]
<1>1. /\ Steps[p] # << >> /\ p \notin Subtask
      /\ \A t \in Subtasks(p) : ~ Exists(t)
  BY DecompositionRows
<1>2. /\ first \in Subtasks(p) /\ last \in Subtasks(p)
      /\ \A e \in chain(p) : e \in Task \X Task /\ e[1] \in Subtasks(p)
                              /\ e[2] \in Subtasks(p)
  BY <1>1, EndsOfChain
<1>3. \A e \in edges : e[1] \notin Subtasks(p) /\ e[2] \notin Subtasks(p)
  BY <1>1 DEF Rows, Joins
<1>4. /\ edges' = rewired(edges, p) \cup chain(p)
      /\ fences' = rewired(fences, p)
      /\ fences \subseteq edges
  BY DecompositionEdges DEF TypeOK
<1>f. \A x, y : << x, y >> \in fences =>
                   x \notin Subtasks(p) /\ y \notin Subtasks(p)
  BY <1>3, <1>4
<1>5. \A x, y : << x, y >> \in fences' =>
         \/ << x, y >> \in fences /\ x # p /\ y # p
         \/ x = first /\ << p, y >> \in fences
         \/ << x, p >> \in fences /\ y = last
  <2> SUFFICES ASSUME NEW x, NEW y, << x, y >> \in rewired(fences, p)
               PROVE  \/ << x, y >> \in fences /\ x # p /\ y # p
                      \/ x = first /\ << p, y >> \in fences
                      \/ << x, p >> \in fences /\ y = last
    BY <1>4
  <2>1. PICK e \in rewired(fences, p) : e = << x, y >>
    OBVIOUS
  <2> QED
    BY <1>1, <2>1, RewiredFences
<1>6. ASSUME NEW e \in Plain, e[1] # p, e[2] # p PROVE e \in Plain'
  <2>1. e \in edges /\ e \notin fences
    BY DEF Plain
  <2>2. e = << e[1], e[2] >>
    BY <2>1 DEF TypeOK, Edge
  <2>3. e \in edges'
    BY <1>4, <1>6, <2>1 DEF rewired
  <2>4. e \notin fences'
    <3>1. e[1] # first /\ e[2] # last
      BY <1>2, <1>3, <2>1
    <3>2. << e[1], e[2] >> \notin fences
      BY <2>1, <2>2
    <3>3. << e[1], e[2] >> \notin fences'
      BY <1>5, <3>1, <3>2
    <3> QED
      BY <2>2, <3>3
  <2> QED
    BY <2>3, <2>4 DEF Plain
<1>7. ASSUME NEW d \in Task, << p, d >> \in Plain, d # p
      PROVE  << first, d >> \in Plain'
  <2>1. << p, d >> \in edges /\ << p, d >> \notin fences
    BY <1>7 DEF Plain
  <2>2. << first, d >> \in edges'
    BY <1>4, <2>1 DEF rewired
  <2>3. << first, d >> \notin fences'
    <3>1. << first, d >> \notin edges
      BY <1>2, <1>3
    <3> QED
      BY <1>2, <1>5, <1>f, <2>1, <3>1, <1>4
  <2> QED
    BY <2>2, <2>3 DEF Plain
<1>8. ASSUME NEW a \in Task, << a, p >> \in Plain, a # p
      PROVE  << a, last >> \in Plain'
  <2>1. << a, p >> \in edges /\ << a, p >> \notin fences
    BY <1>8 DEF Plain
  <2>2. << a, last >> \in edges'
    BY <1>4, <2>1 DEF rewired
  <2>3. << a, last >> \notin fences'
    <3>1. << a, last >> \notin edges
      BY <1>2, <1>3
    <3> QED
      BY <1>2, <1>5, <1>f, <2>1, <3>1, <1>4
  <2> QED
    BY <2>2, <2>3 DEF Plain
<1>9. ASSUME NEW e \in chain(p) PROVE e \in Plain'
  <2>1. e = << e[1], e[2] >> /\ e[1] \in Subtasks(p) /\ e[2] \in Subtasks(p)
    BY <1>2
  <2>2. e \in edges'
    BY <1>4
  <2>3. e \notin fences'
    BY <1>5, <1>f, <2>1
  <2> QED
    BY <2>2, <2>3 DEF Plain
<1> QED
  BY <1>6, <1>7, <1>8, <1>9
---------------------------------------------------------------------------
(* Declared dependencies stay represented.                                 *)

\* What an import declares: a dependency of the tracker, of a task that has no
\* subtasks and is not listed for its start, by an edge that is not a fence.
LEMMA Declaration ==
    ASSUME TypeOK, SearchEnds, Importing, [Next]_vars,
           NEW e \in declared', e \notin declared
    PROVE  /\ e \in Issue \X Issue /\ e[1] # e[2]
           /\ e[1] \notin todo /\ Children(e[1]) = {}
           /\ e \in Plain'
           /\ ~ \E p \in Task : Decomposes(p)
           /\ UNCHANGED << status, done >>
<1>1. PICK s \in Session : InsertEdge(s)
  BY GraphSteps DEF GateCleans, Decomposes, CreateSubtasksAtomic, history, Next,
     vars, SyncToDAG, SessionStep, AddEdge, VisitNode, RejectEdge, GatePromotes,
     GateListsReady, GateRechecks, GateFences, GateEnds, AddEdgeFails,
     SessionFails, ScanCandidates, StartTask, AgentStep,
     AgentDecomposes, AgentCompletes, AgentGivesUp, PlanSubtasks, Approve,
     Accept, Reject, Retry, Decompose
<1>2. /\ e = adding[s] /\ phase[s] = "edges" /\ Adding(s) /\ queue[s] = {}
      /\ e[1] \notin todo /\ Children(e[1]) = {} /\ e \notin fences
      /\ edges' = edges \cup { e } /\ fences' = fences
      /\ UNCHANGED << status, done >>
  BY <1>1 DEF InsertEdge
<1>3. s = Sync /\ e \in Issue \X Issue
  BY <1>2 DEF Importing
<1>4. e[1] # e[2]
  BY <1>2 DEF SearchEnds
<1>5. e \in Plain'
  BY <1>2 DEF Plain
<1>6. ~ \E p \in Task : Decomposes(p)
  <2> SUFFICES ASSUME NEW p \in Task, Decomposes(p) PROVE FALSE
    OBVIOUS
  <2>1. Children(p) = {} /\ Children(p)' = Subtasks(p) /\ Steps[p] # << >>
    BY DecompositionRows
  <2>2. Children(p)' = Children(p)
    BY <1>2 DEF Children, Exists
  <2> QED
    BY <2>1, <2>2, EndsOfChain
<1> QED
  BY <1>2, <1>3, <1>4, <1>5, <1>6 DEF TypeOK

LEMMA DistinctNext ==
    ASSUME TypeOK, SearchEnds, Importing, Distinct, [Next]_vars
    PROVE  Distinct'
BY Declaration DEF Distinct

LEMMA DecompositionDeclares ==
    ASSUME TypeOK, SearchEnds, Importing, [Next]_vars,
           NEW p \in Task, Decomposes(p)
    PROVE  declared' \subseteq declared
BY Declaration

LEMMA RepresentedNext ==
    ASSUME TypeOK, Rows, Known, SearchEnds, Importing,
           Distinct, Represented,
           [Next]_vars
    PROVE  Represented'
<1> SUFFICES ASSUME NEW e \in declared'
             PROVE  \E d \in Stands(e[2])' : << Face(e[1])', d >> \in Plain'
  BY DEF Represented
<1>1. CASE e \notin declared
  <2>1. /\ e \in Issue \X Issue /\ Children(e[1]) = {} /\ e \in Plain'
        /\ ~ \E p \in Task : Decomposes(p)
    BY <1>1, Declaration
  <2>2. Face(e[1])' = e[1]
    BY <2>1, ChildrenStay DEF Face, Issue
  <2>3. e[2] \in Stands(e[2])'
    BY DEF Stands
  <2>4. e = << e[1], e[2] >>
    BY <2>1
  <2> QED
    BY <2>1, <2>2, <2>3, <2>4
<1>2. CASE e \in declared
  <2>1. PICK d \in Stands(e[2]) : << Face(e[1]), d >> \in Plain
    BY <1>2 DEF Represented
  <2>2. e[1] \in Task /\ e[2] \in Task /\ e[1] # e[2] /\ e[1] \in Issue /\ e[2] \in Issue
    BY <1>2 DEF Distinct, Issue
  <2>3. Face(e[1]) \in Task /\ d \in Task
    BY <2>1 DEF Plain, TypeOK, Edge
  <2>4. CASE ~ \E p \in Task : Decomposes(p)
    <3>1. Face(e[1])' = Face(e[1]) /\ Stands(e[2])' = Stands(e[2])
      BY <2>2, <2>4, ChildrenStay DEF Face, Stands
    <3> QED
      BY <2>1, <2>4, <3>1, PlainKept
  <2>5. ASSUME NEW p \in Task, Decomposes(p)
        PROVE  \E x \in Stands(e[2])' : << Face(e[1])', x >> \in Plain'
    <3>1. /\ Steps[p] # << >> /\ p \notin Subtask
          /\ Children(p) = {} /\ Children(p)' = Subtasks(p)
          /\ \A q \in Task \ { p } : Children(q)' = Children(q)
      BY <2>5, DecompositionRows
    <3>2. Steps[p][1] \in Subtasks(p) /\ Steps[p][Len(Steps[p])] \in Subtasks(p)
      BY <3>1, EndsOfChain
    <3>3. Stands(e[2]) \subseteq Stands(e[2])'
      BY <2>2, <3>1 DEF Stands
    <3>4. ASSUME NEW q \in Task, NEW t \in Children(q) PROVE t # p
      BY <3>1 DEF Children, Subtask
    <3>5. CASE e[1] = p
      <4>1. Face(e[1]) = p /\ Face(e[1])' = Steps[p][1]
        BY <3>1, <3>2, <3>5 DEF Face
      <4>2. d # p
        BY <2>2, <3>4, <3>5 DEF Stands
      <4>3. << Steps[p][1], d >> \in Plain'
        BY <2>1, <2>3, <2>5, <4>1, <4>2, PlainRewired
      <4> QED
        BY <3>3, <4>1, <4>3
    <3>6. CASE e[1] # p
      <4>1. Face(e[1])' = Face(e[1])
        BY <2>2, <3>1, <3>6 DEF Face
      <4>2. Face(e[1]) # p
        <5>1. CASE Children(e[1]) = {}
          BY <3>6, <5>1 DEF Face
        <5>2. CASE Children(e[1]) # {}
          <6>1. Steps[e[1]] # << >> /\ Face(e[1]) = Steps[e[1]][1]
            BY <5>2 DEF Face, Children
          <6>2. Face(e[1]) \in Subtask
            BY <2>2, <6>1, EndsOfChain, SubtaskSplit
          <6> QED
            BY <3>1, <6>2
        <5> QED
          BY <5>1, <5>2
      <4>3. CASE d = p
        <5>1. e[2] = p
          BY <2>2, <3>4, <4>3 DEF Stands
        <5>2. Steps[p][Len(Steps[p])] \in Stands(e[2])'
          BY <3>1, <3>2, <5>1 DEF Stands
        <5>3. << Face(e[1]), Steps[p][Len(Steps[p])] >> \in Plain'
          BY <2>1, <2>3, <2>5, <4>2, <4>3, PlainRewired
        <5> QED
          BY <4>1, <5>2, <5>3
      <4>4. CASE d # p
        <5>1. << Face(e[1]), d >> \in Plain'
          <6>1. PICK f \in Plain : f = << Face(e[1]), d >>
            BY <2>1
          <6>2. f[1] # p /\ f[2] # p
            BY <4>2, <4>4, <6>1
          <6> QED
            BY <2>5, <6>1, <6>2, PlainRewired
        <5> QED
          BY <3>3, <4>1, <5>1
      <4> QED
        BY <4>3, <4>4
    <3> QED
      BY <3>5, <3>6
  <2> QED
    BY <2>4, <2>5
<1> QED
  BY <1>1, <1>2

LEMMA ChainKeptNext ==
    ASSUME TypeOK, Rows, Known, ChainKept, [Next]_vars
    PROVE  ChainKept'
<1> SUFFICES ASSUME NEW q \in Task, Children(q)' # {}
             PROVE  chain(q) \subseteq Plain'
  BY DEF ChainKept, chain
<1>1. CASE ~ \E p \in Task : Decomposes(p)
  BY <1>1, ChildrenStay, PlainKept DEF ChainKept
<1>2. ASSUME NEW p \in Task, Decomposes(p) PROVE chain(q) \subseteq Plain'
  <2>1. CASE q = p
    BY <1>2, <2>1, PlainRewired
  <2>2. CASE q # p
    <3>1. p \notin Subtask /\ Children(q) # {}
      BY <1>2, <2>2, DecompositionRows
    <3>2. Steps[q] # << >> /\ chain(q) \subseteq Plain
      BY <3>1 DEF Children, ChainKept
    <3>3. \A e \in chain(q) : e[1] # p /\ e[2] # p
      BY <3>1, <3>2, EndsOfChain, SubtaskSplit
    <3> QED
      BY <1>2, <3>2, <3>3, PlainRewired
  <2> QED
    BY <2>1, <2>2
<1> QED
  BY <1>1, <1>2
---------------------------------------------------------------------------
(* Tasks begin when what they wait for is over.                            *)

\* What an approved task waits for by an edge that is no fence is done.
LEMMA UnblockedTarget ==
    ASSUME TypeOK, CompletedDone, NEW t \in GetApprovedNodes, NEW d \in Task,
           << t, d >> \in Plain
    PROVE  d \in done
<1>1. status[d] = "completed"
  BY DEF GetApprovedNodes, blocking, Plain
<1> QED
  BY <1>1 DEF CompletedDone

\* The last subtask stands for them all.
LEMMA StandsFinished ==
    ASSUME InTurn, NEW d \in Task, NEW t \in Stands(d), t \in done
    PROVE  Finished(d)
<1>1. CASE t = d
  BY <1>1 DEF Finished
<1>2. CASE t # d
  <2> DEFINE n == Len(Steps[d])
  <2>1. t \in Children(d) /\ t = Steps[d][n]
    BY <1>2 DEF Stands
  <2>2. Steps[d] # << >>
    BY <2>1 DEF Children
  <2>3. n \in Nat \ { 0 }
    BY <2>2, EndsOfChain
  <2>4. \A j \in 1 .. n - 1 : Steps[d][j] \in done
    BY <2>1, <2>3 DEF InTurn, Begun
  <2>5. \A j \in 1 .. n : Steps[d][j] \in done
    BY <2>1, <2>3, <2>4
  <2> QED
    BY <2>1, <2>5 DEF Finished, Children
<1> QED
  BY <1>1, <1>2

\* A task whose edges are its own, or that carries on its parent's waiting, is
\* listed when the declared dependencies are over.
LEMMA ListedFaceCleared ==
    ASSUME TypeOK, Distinct, Represented, CompletedDone, InTurn,
           NEW a \in Task, Face(a) \in GetApprovedNodes
    PROVE  Cleared(a)
<1> SUFFICES ASSUME NEW d \in Task, << a, d >> \in declared PROVE Finished(d)
  BY DEF Cleared
<1>1. PICK e \in declared : e = << a, d >>
  OBVIOUS
<1>2. PICK x \in Stands(d) : << Face(a), x >> \in Plain
  BY <1>1 DEF Represented
<1>3. x \in Task
  BY <1>2 DEF Plain, TypeOK, Edge
<1> QED
  BY <1>2, <1>3, UnblockedTarget, StandsFinished

\* What is over stays over, and what a task was declared to wait for stays the
\* same from its listing, or its decomposition, on.
LEMMA FinishedKept ==
    ASSUME TypeOK, Known, [Next]_vars, NEW d \in Task, Finished(d)
    PROVE  Finished(d)'
<1>1. done \subseteq done'
  BY AllMoves DEF Moves
<1> QED
  BY <1>1, ChildrenKept DEF Finished

LEMMA ClearedKept ==
    ASSUME TypeOK, Known, SearchEnds, Importing, [Next]_vars,
           NEW a \in Task, Cleared(a), a \in todo \/ Children(a) # {}
    PROVE  Cleared(a)'
<1> SUFFICES ASSUME NEW d \in Task, << a, d >> \in declared'
             PROVE  Finished(d)'
  BY DEF Cleared
<1>1. << a, d >> \in declared
  <2>1. PICK e \in declared' : e = << a, d >>
    OBVIOUS
  <2>2. e[1] = a
    BY <2>1
  <2> QED
    BY <2>1, <2>2, Declaration
<1> QED
  BY <1>1, FinishedKept DEF Cleared

\* A listed task is approved, blocked by nothing, and not a parent.
LEMMA Listing ==
    ASSUME ScanCandidates, NEW t \in todo'
    PROVE  t \in GetApprovedNodes /\ t \in Task /\ Face(t) = t
<1>1. t \in GetApprovedNodes /\ (t \in Subtask \/ Children(t) = {})
  BY DEF ScanCandidates
<1>2. t \in Task
  BY <1>1 DEF GetApprovedNodes, Holding
<1>3. t \in Subtask => Children(t) = {}
  BY <1>2, SubtaskSplit DEF Children
<1> QED
  BY <1>1, <1>2, <1>3 DEF Face

LEMMA CompletedDoneNext ==
    ASSUME TypeOK, CompletedDone, [Next]_vars
    PROVE  CompletedDone'
BY AllMoves DEF CompletedDone, Moves

LEMMA TodoClearedNext ==
    ASSUME TypeOK, Known, SearchEnds, Importing, Distinct, Represented, CompletedDone,
           InTurn, TodoCleared, [Next]_vars
    PROVE  TodoCleared'
<1> SUFFICES ASSUME NEW t \in todo' PROVE Cleared(t)'
  BY DEF TodoCleared, Cleared, Finished, Children, Exists
<1>1. CASE t \in todo
  <2>1. t \in Task
    BY <1>1 DEF TypeOK
  <2> QED
    BY <1>1, <2>1, ClearedKept DEF TodoCleared
<1>2. CASE ScanCandidates
  <2>1. t \in Task /\ Cleared(t)
    BY <1>2, Listing, ListedFaceCleared
  <2>2. declared' = declared
    BY <1>2 DEF ScanCandidates, history
  <2> QED
    BY <2>1, <2>2, FinishedKept DEF Cleared
<1> QED
  BY <1>1, <1>2, AllMoves DEF Moves

\* A subtask begins when it is listed: its first edge is that of the chain, or
\* one its parent had.
LEMMA ListedInTurn ==
    ASSUME TypeOK, Distinct, Represented, ChainKept, CompletedDone, InTurn,
           NEW p \in Task, NEW i \in 1 .. Len(Steps[p]),
           Steps[p][i] \in GetApprovedNodes
    PROVE  /\ Cleared(p)
           /\ \A j \in 1 .. i - 1 : Steps[p][j] \in done
           /\ Children(p) # {}
<1> DEFINE n == Len(Steps[p])
           t == Steps[p][i]
<1>0. n \in Nat /\ i \in Nat
  BY StepsAssumption
<1>1. t \in Children(p)
  BY DEF GetApprovedNodes, Holding, Children, Exists
<1>2. CASE i = 1
  <2>1. Face(p) = t
    BY <1>1, <1>2 DEF Face
  <2> QED
    BY <1>1, <1>2, <2>1, ListedFaceCleared
<1>3. CASE i # 1
  <2>1. i - 1 \in 1 .. n - 1 /\ i - 1 \in 1 .. n
    BY <1>0, <1>3
  <2>2. << t, Steps[p][i - 1] >> \in chain(p)
    <3>1. << Steps[p][(i - 1) + 1], Steps[p][i - 1] >> \in chain(p)
      BY <2>1 DEF chain
    <3>2. (i - 1) + 1 = i
      BY <1>0
    <3> QED
      BY <3>1, <3>2
  <2>3. Steps[p][i - 1] \in Task
    BY <2>1, SubtaskSplit DEF Subtasks
  <2>4. Steps[p][i - 1] \in done
    BY <1>1, <2>2, <2>3, UnblockedTarget DEF ChainKept
  <2>5. Cleared(p) /\ \A j \in 1 .. (i - 1) - 1 : Steps[p][j] \in done
    BY <2>1, <2>4 DEF InTurn, Begun
  <2>6. \A j \in 1 .. i - 1 : Steps[p][j] \in done
    BY <1>0, <2>4, <2>5
  <2> QED
    BY <1>1, <2>5, <2>6
<1> QED
  BY <1>2, <1>3

LEMMA InTurnNext ==
    ASSUME TypeOK, Known, SearchEnds, Importing, Distinct, Represented, ChainKept,
           CompletedDone, InTurn, [Next]_vars
    PROVE  InTurn'
<1> SUFFICES ASSUME NEW p \in Task, NEW i \in 1 .. Len(Steps[p]),
                    Begun(Steps[p][i])'
             PROVE  Cleared(p)' /\ \A j \in 1 .. i - 1 : Steps[p][j] \in done'
  BY DEF InTurn, Begun, Cleared, Finished, Children, Exists
<1> DEFINE t == Steps[p][i]
<1>1. t \in Subtasks(p) /\ t \in Subtask /\ t \in Task
  BY SubtaskSplit DEF Subtasks
<1>2. Moves
  BY AllMoves
<1>3. /\ Cleared(p)
      /\ \A j \in 1 .. i - 1 : Steps[p][j] \in done
      /\ Children(p) # {}
  <2>1. CASE Begun(t)
    <3>1. t \in Children(p)
      BY <1>1, <2>1 DEF Begun, Known, Exists, Children
    <3> QED
      BY <2>1, <3>1 DEF InTurn
  <2>2. CASE ScanCandidates /\ t \in todo'
    BY <2>2, Listing, ListedInTurn
  <2>3. Begun(t) \/ (ScanCandidates /\ t \in todo')
    BY <1>1, <1>2 DEF Begun, Moves
  <2> QED
    BY <2>1, <2>2, <2>3
<1>4. Cleared(p)'
  BY <1>3, ClearedKept
<1> QED
  BY <1>2, <1>3, <1>4 DEF Moves

---------------------------------------------------------------------------
(* The theorem.                                                            *)

ImportInv == /\ TypeOK /\ Rows /\ Known /\ SearchEnds
             /\ Importing
OrderInv == /\ Distinct /\ Represented /\ ChainKept
            /\ CompletedDone /\ TodoCleared /\ InTurn

LEMMA OrderInit == Init => ImportInv /\ OrderInv
<1> SUFFICES ASSUME Init PROVE ImportInv /\ OrderInv
  OBVIOUS
<1>1. \A p \in Task : Children(p) = {}
  BY DEF Init, Children, Exists
<1>2. TypeOK /\ Rows
  BY GraphInit DEF GraphInv
<1>3. Known /\ SearchEnds
  BY <1>1 DEF Init, Known, SearchEnds, Adding
<1>4. Importing
  BY DEF Init, Importing
<1>5. Distinct /\ Represented /\ ChainKept
  BY <1>1 DEF Init, Distinct, Represented, ChainKept
<1>6. CompletedDone /\ TodoCleared
  BY DEF Init, CompletedDone, TodoCleared
<1>7. InTurn
  <2> SUFFICES ASSUME NEW p \in Task, NEW i \in 1 .. Len(Steps[p])
               PROVE  ~ Begun(Steps[p][i])
    BY DEF InTurn
  <2>1. Steps[p][i] \in Task
    BY SubtaskSplit DEF Subtasks
  <2> QED
    BY <2>1 DEF Init, Begun
<1> QED
  BY <1>2, <1>3, <1>4, <1>5, <1>6, <1>7 DEF ImportInv, OrderInv

LEMMA ImportNext == ImportInv /\ [Next]_vars => ImportInv'
BY TypeNext, RowsNext, KnownNext, SearchEndsNext, ImportingNext
   DEF ImportInv

LEMMA OrderNext ==
    ImportInv /\ OrderInv /\ [Next]_vars => OrderInv'
BY DistinctNext, RepresentedNext, ChainKeptNext, CompletedDoneNext,
   TodoClearedNext, InTurnNext DEF ImportInv, OrderInv

\* The order among the tasks that start in a step.
InOrder == \A t \in working' \ working :
              \A a \in { t } \cup Parents(t), d \in Task :
                  << a, d >> \in declared => Finished(d)

\* Only a listed task starts, and so in order.
LEMMA StartsInOrder ==
    ASSUME TypeOK, TodoCleared, InTurn, [Next]_vars
    PROVE  InOrder
<1> SUFFICES ASSUME NEW t \in working', t \notin working,
                    NEW a \in { t } \cup Parents(t)
             PROVE  Cleared(a)
  BY DEF InOrder, Cleared
<1>1. t \in todo
  BY AllMoves DEF Moves
<1>2. CASE a = t
  BY <1>1, <1>2 DEF TodoCleared
<1>3. CASE a \in Parents(t)
  <2>1. a \in Task /\ t \in Children(a)
    BY <1>3 DEF Parents
  <2>2. PICK i \in 1 .. Len(Steps[a]) : Steps[a][i] = t
    BY <2>1 DEF Children
  <2> QED
    BY <1>1, <2>1, <2>2 DEF InTurn, Begun
<1> QED
  BY <1>2, <1>3

\* No agent starts before the work its task was declared to wait for is over,
\* however imports, gates, decompositions, agents and people follow each other
\* whatever statuses and dependencies they import, and whether AddEdge calls
\* overlap or not.
THEOREM OrderHolds == Spec => OrderRespected
<1>1. Init => ImportInv /\ OrderInv
  BY OrderInit
<1>2. ImportInv /\ OrderInv /\ [Next]_vars => (ImportInv /\ OrderInv)'
  BY ImportNext, OrderNext
<1>3. ImportInv /\ OrderInv /\ [Next]_vars
        => [\A t \in working' \ working :
               \A a \in { t } \cup Parents(t), d \in Task :
                   << a, d >> \in declared => Finished(d)]_vars
  BY StartsInOrder DEF InOrder, ImportInv, OrderInv
<1> QED
  BY <1>1, <1>2, <1>3, PTL DEF Spec, OrderRespected
=============================================================================
