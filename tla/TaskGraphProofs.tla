-------------------------- MODULE TaskGraphProofs --------------------------
(***************************************************************************)
(* Proofs about TaskGraph, for every set of tasks, every decomposition,    *)
(* every set of dependencies and conflicts, and every bound.               *)
(***************************************************************************)
EXTENDS TaskGraph, WellFoundedInduction, TLAPS

---------------------------------------------------------------------------
(* Graphs without cycles.                                                  *)

\* Of any set of tasks, one has no edge into the set.
NoCycle(es) ==
    \A S \in (SUBSET Task) \ { {} } : \E t \in S : \A d \in S : << t, d >> \notin es

LEMMA NoCycleSubset ==
    ASSUME NEW es, NEW fs, fs \subseteq es, NoCycle(es)
    PROVE  NoCycle(fs)
BY DEF NoCycle

LEMMA NoSelfLoop ==
    ASSUME NEW es, NoCycle(es), NEW t \in Task
    PROVE  << t, t >> \notin es
<1>1. { t } \in (SUBSET Task) \ { {} }
  OBVIOUS
<1> QED
  BY <1>1 DEF NoCycle

\* What a finished search is good for: when every edge out of V stays in V,
\* an edge from outside V to a member of V closes no cycle.
LEMMA InsertKeepsNoCycle ==
    ASSUME NEW es, NoCycle(es),
           NEW V \in SUBSET Task, \A n \in V : \A d \in Task : << n, d >> \in es => d \in V,
           NEW from \in Task, NEW to \in V, from \notin V
    PROVE  NoCycle(es \cup { << from, to >> })
<1> SUFFICES ASSUME NEW S \in (SUBSET Task) \ { {} }
             PROVE  \E t \in S : \A d \in S :
                      << t, d >> \notin es \cup { << from, to >> }
  BY DEF NoCycle
<1>1. CASE S \cap V = {}
  <2>1. PICK t \in S : \A d \in S : << t, d >> \notin es
    BY DEF NoCycle
  <2> QED
    BY <1>1, <2>1
<1>2. CASE S \cap V # {}
  <2>1. S \cap V \in (SUBSET Task) \ { {} }
    BY <1>2
  <2>2. PICK t \in S \cap V : \A d \in S \cap V : << t, d >> \notin es
    BY <2>1 DEF NoCycle
  <2>3. \A d \in S : << t, d >> \notin es
    BY <2>2
  <2> QED
    BY <2>2, <2>3
<1> QED
  BY <1>1, <1>2

---------------------------------------------------------------------------
(* What a decomposition does to a graph without cycles.                    *)

Subtasks(p) == { Steps[p][i] : i \in 1 .. Len(Steps[p]) }

\* Of the subtasks in a set, one comes first in the chain.
LEMMA FirstSubtask ==
    ASSUME NEW p \in Task, NEW S, S \cap Subtasks(p) # {}
    PROVE  \E i \in 1 .. Len(Steps[p]) :
              /\ Steps[p][i] \in S
              /\ \A j \in 1 .. Len(Steps[p]) : Steps[p][j] \in S => i <= j
<1> DEFINE I == { i \in 1 .. Len(Steps[p]) : Steps[p][i] \in S }
           R == OpToRel(<, Nat)
<1>1. Len(Steps[p]) \in Nat
  BY StepsAssumption
<1>2. I \subseteq Nat /\ I # {}
  BY <1>1 DEF Subtasks
<1>3. PICK i \in I : \A j \in I : ~ (<< j, i >> \in R)
  <2> HIDE DEF I, R
  <2>1. IsWellFoundedOn(R, Nat)
    BY NatLessThanWellFounded DEF R
  <2> QED
    BY <1>2, <2>1, WFMin
<1>4. \A j \in I : i <= j
  <2> SUFFICES ASSUME NEW j \in I, ~ (i <= j) PROVE FALSE
    OBVIOUS
  <2>1. i \in Nat /\ j \in Nat /\ j < i
    BY <1>2
  <2>2. << j, i >> \in R
    BY <2>1 DEF OpToRel
  <2> QED
    BY <2>2, <1>3
<1> QED
  BY <1>3, <1>4

\* The subtasks are tasks, are not the parent, and are distinct.
LEMMA SubtaskFacts ==
    ASSUME NEW p \in Task, Steps[p] # << >>
    PROVE  /\ Len(Steps[p]) \in Nat \ { 0 }
           /\ Subtasks(p) \subseteq Task
           /\ p \notin Subtasks(p)
           /\ \A i, j \in 1 .. Len(Steps[p]) : Steps[p][i] = Steps[p][j] => i = j
<1>1. Steps[p] \in Seq(Task)
  BY StepsAssumption
<1>2. Len(Steps[p]) \in Nat \ { 0 }
  BY <1>1
<1>3. Subtasks(p) \subseteq Task
  BY <1>1 DEF Subtasks
<1>4. p \notin Subtasks(p)
  BY StepsAssumption DEF Subtasks
<1>5. \A i, j \in 1 .. Len(Steps[p]) : Steps[p][i] = Steps[p][j] => i = j
  BY StepsAssumption
<1> QED
  BY <1>2, <1>3, <1>4, <1>5

\* Where the edges of a decomposed graph come from.
LEMMA RewiredEdge ==
    ASSUME NEW p \in Task, Steps[p] # << >>, NEW es, es \subseteq Edge,
           NEW e, e \in rewired(es, p) \cup chain(p)
    PROVE  \/ e \in es /\ e[1] # p /\ e[2] # p
           \/ e[1] = Steps[p][1] /\ e[2] \in Task /\ << p, e[2] >> \in es
           \/ /\ e[1] \in Task /\ << e[1], p >> \in es
              /\ e[2] = Steps[p][Len(Steps[p])]
           \/ \E i \in 1 .. Len(Steps[p]) - 1 : e = << Steps[p][i + 1], Steps[p][i] >>
<1>1. CASE e \in chain(p)
  BY <1>1 DEF chain
<1>2. CASE e \in { o \in es : o[1] # p /\ o[2] # p }
  BY <1>2
<1>3. CASE e \in { << Steps[p][1], d >> : d \in { u \in Task : << p, u >> \in es } }
  <2>1. PICK d \in Task : << p, d >> \in es /\ e = << Steps[p][1], d >>
    BY <1>3
  <2>2. e[1] = Steps[p][1] /\ e[2] = d
    BY <2>1
  <2> QED
    BY <2>1, <2>2
<1>4. CASE e \in { << a, Steps[p][Len(Steps[p])] >> :
                    a \in { u \in Task : << u, p >> \in es } }
  <2>1. PICK a \in Task : << a, p >> \in es /\ e = << a, Steps[p][Len(Steps[p])] >>
    BY <1>4
  <2>2. e[1] = a /\ e[2] = Steps[p][Len(Steps[p])]
    BY <2>1
  <2> QED
    BY <2>1, <2>2
<1> QED
  BY <1>1, <1>2, <1>3, <1>4 DEF rewired

\* A decomposition into rows that no edge joins yet closes no cycle.  Of a
\* set with subtasks, replace these by their parent: the member that waits
\* for none of the others waits for none of the set, and when it is the
\* parent, the first of the subtasks in the set does not either.
LEMMA DecompositionKeepsNoCycle ==
    ASSUME NEW p \in Task, Steps[p] # << >>,
           NEW es, es \subseteq Edge, NoCycle(es),
           \A e \in es : e[1] \notin Subtasks(p) /\ e[2] \notin Subtasks(p)
    PROVE  NoCycle(rewired(es, p) \cup chain(p))
<1> DEFINE Subs == Subtasks(p)
           New == rewired(es, p) \cup chain(p)
           n == Len(Steps[p])
<1>a. n \in Nat \ { 0 } /\ Subs \subseteq Task /\ p \notin Subs
  BY SubtaskFacts
<1>b. Steps[p][1] \in Subs /\ Steps[p][n] \in Subs
  BY <1>a DEF Subtasks
<1>c. << p, p >> \notin es
  BY NoSelfLoop
<1>d. \A i \in 1 .. n - 1 : Steps[p][i] \in Subs /\ Steps[p][i + 1] \in Subs
  BY <1>a DEF Subtasks
<1> SUFFICES ASSUME NEW S \in (SUBSET Task) \ { {} }
             PROVE  \E t \in S : \A d \in S : << t, d >> \notin New
  BY DEF NoCycle
<1>e. \A x, y \in Task :
         << x, y >> \in New =>
           \/ << x, y >> \in es /\ x # p /\ y # p
           \/ x = Steps[p][1] /\ << p, y >> \in es
           \/ << x, p >> \in es /\ y = Steps[p][n]
           \/ \E i \in 1 .. n - 1 : x = Steps[p][i + 1] /\ y = Steps[p][i]
  <2> TAKE x, y \in Task
  <2> SUFFICES ASSUME << x, y >> \in New
               PROVE  \/ << x, y >> \in es /\ x # p /\ y # p
                      \/ x = Steps[p][1] /\ << p, y >> \in es
                      \/ << x, p >> \in es /\ y = Steps[p][n]
                      \/ \E i \in 1 .. n - 1 :
                           x = Steps[p][i + 1] /\ y = Steps[p][i]
    OBVIOUS
  <2>1. PICK e : e = << x, y >>
    OBVIOUS
  <2>2. e[1] = x /\ e[2] = y /\ e \in New
    BY <2>1
  <2>3. \/ e \in es /\ x # p /\ y # p
        \/ x = Steps[p][1] /\ << p, y >> \in es
        \/ << x, p >> \in es /\ y = Steps[p][n]
        \/ \E i \in 1 .. n - 1 : e = << Steps[p][i + 1], Steps[p][i] >>
    <3>1. \/ e \in es /\ e[1] # p /\ e[2] # p
          \/ e[1] = Steps[p][1] /\ e[2] \in Task /\ << p, e[2] >> \in es
          \/ /\ e[1] \in Task /\ << e[1], p >> \in es
             /\ e[2] = Steps[p][n]
          \/ \E i \in 1 .. n - 1 : e = << Steps[p][i + 1], Steps[p][i] >>
      <4> HIDE DEF Subs
      <4> QED
        BY <2>2, RewiredEdge
    <3> QED
      BY <2>2, <3>1
  <2> QED
    BY <2>1, <2>3
<1>f. \A x, y \in Task : << x, y >> \in es => x \notin Subs /\ y \notin Subs
  OBVIOUS
<1> HIDE DEF Subs, New
<1>g. \A x, y \in Task :
         << x, y >> \in New /\ x \notin Subs =>
           \/ << x, y >> \in es /\ x # p /\ y # p
           \/ << x, p >> \in es /\ y = Steps[p][n]
  <2> SUFFICES ASSUME NEW x \in Task, NEW y \in Task,
                      << x, y >> \in New, x \notin Subs
               PROVE  \/ << x, y >> \in es /\ x # p /\ y # p
                      \/ << x, p >> \in es /\ y = Steps[p][n]
    OBVIOUS
  <2>1. x # Steps[p][1]
    BY <1>b
  <2>2. ASSUME NEW i \in 1 .. n - 1, x = Steps[p][i + 1] PROVE FALSE
    BY <2>2, <1>d
  <2> QED
    BY <2>1, <2>2, <1>e
<1>1. CASE p \in S
  <2>1. \A i \in 1 .. n - 1 : Steps[p][i + 1] # p
    BY <1>a, <1>d
  <2>2. \A d \in S : << p, d >> \notin New
    BY <2>1, <1>a, <1>b, <1>c, <1>e
  <2> QED
    BY <1>1, <2>2
<1>2. CASE p \notin S /\ S \cap Subs = {}
  <2>1. PICK t \in S : \A d \in S : << t, d >> \notin es
    BY DEF NoCycle
  <2>2. ASSUME NEW d \in S, << t, d >> \in New
        PROVE  FALSE
    <3>1. t \in Task /\ d \in Task /\ t \notin Subs /\ d \notin Subs
      BY <1>2
    <3> QED
      BY <2>1, <2>2, <3>1, <1>b, <1>g
  <2> QED
    BY <2>2
<1>3. CASE p \notin S /\ S \cap Subs # {}
  <2> DEFINE T == (S \ Subs) \cup { p }
  <2>0. T \in (SUBSET Task) \ { {} }
    OBVIOUS
  <2>1. PICK t \in T : \A d \in T : << t, d >> \notin es
    BY <2>0 DEF NoCycle
  <2>2. CASE t # p
    <3>1. t \in S /\ t \in Task /\ t \notin Subs
      BY <2>2
    <3>2. ASSUME NEW d \in S, << t, d >> \in New
          PROVE  FALSE
      <4>1. d \in Task
        OBVIOUS
      <4>2. CASE << t, d >> \in es
        BY <2>1, <3>2, <4>1, <4>2, <1>f, <3>1
      <4>3. CASE << t, p >> \in es
        BY <2>1, <4>3
      <4> QED
        BY <3>1, <3>2, <4>1, <4>2, <4>3, <1>g
    <3> QED
      BY <3>1, <3>2
  <2>3. CASE t = p
    <3>1. PICK i \in 1 .. n :
             /\ Steps[p][i] \in S
             /\ \A j \in 1 .. n : Steps[p][j] \in S => i <= j
      BY <1>3, FirstSubtask DEF Subs
    <3>2. Steps[p][i] \in Subs
      BY DEF Subs, Subtasks
    <3>3. ASSUME NEW d \in S, << Steps[p][i], d >> \in New
          PROVE  FALSE
      <4>1. << p, d >> \notin es
        BY <2>1, <2>3, <1>f
      <4>2. \A y \in Task : << Steps[p][i], y >> \notin es
        BY <3>2, <1>a, <1>f
      <4>3. PICK j \in 1 .. n - 1 : Steps[p][i] = Steps[p][j + 1] /\ d = Steps[p][j]
        BY <3>2, <3>3, <4>1, <4>2, <1>a, <1>e
      <4>4. j \in 1 .. n /\ j + 1 \in 1 .. n
        BY <1>a
      <4>5. i = j + 1
        BY <4>3, <4>4, SubtaskFacts
      <4>6. i <= j
        BY <3>1, <4>3, <4>4
      <4> QED
        BY <4>4, <4>5, <4>6
    <3> QED
      BY <3>1, <3>3
  <2> QED
    BY <2>2, <2>3
<1> QED
  BY <1>1, <1>2, <1>3

---------------------------------------------------------------------------
(* Type correctness.                                                       *)

\* A session is a task with subtasks, or the sync command.
LEMMA SessionFacts ==
    /\ Sync \in Session
    /\ \A s \in Session : s # Sync => s \in Task /\ Steps[s] # << >>
BY DEF Session

LEMMA FencesAreEdges == ASSUME NEW active \in SUBSET Task
                        PROVE  ComputeFences(active) \subseteq Edge
<1> SUFFICES ASSUME NEW x \in active, NEW y \in active
             PROVE  orderByPriority(x, y) \in Edge
  BY DEF ComputeFences
<1> QED
  BY DEF orderByPriority, Edge

LEMMA DecompositionIsTyped ==
    ASSUME NEW p \in Task, Steps[p] # << >>,
           NEW es, es \subseteq Edge, NEW fs, fs \subseteq es
    PROVE  /\ rewired(es, p) \cup chain(p) \subseteq Edge
           /\ rewired(fs, p) \subseteq rewired(es, p)
<1>1. rewired(fs, p) \subseteq rewired(es, p)
  BY DEF rewired
<1>2. \A i \in 1 .. Len(Steps[p]) : Steps[p][i] \in Task
  BY SubtaskFacts DEF Subtasks
<1>3. rewired(es, p) \subseteq Edge
  <2> SUFFICES ASSUME NEW e \in rewired(es, p) PROVE e \in Edge
    OBVIOUS
  <2>1. Steps[p][1] \in Task /\ Steps[p][Len(Steps[p])] \in Task
    BY <1>2, SubtaskFacts
  <2>2. CASE e \in es
    BY <2>2
  <2>3. CASE \E d \in Task : e = << Steps[p][1], d >>
    BY <2>1, <2>3 DEF Edge
  <2>4. CASE \E a \in Task : e = << a, Steps[p][Len(Steps[p])] >>
    BY <2>1, <2>4 DEF Edge
  <2> QED
    BY <2>2, <2>3, <2>4 DEF rewired
<1>4. chain(p) \subseteq Edge
  BY <1>2, SubtaskFacts DEF chain, Edge
<1> QED
  BY <1>1, <1>3, <1>4

LEMMA TypeInit == Init => TypeOK
BY DEF Init, TypeOK, Status, Phase, Edge

\* The import and AddEdge keep the types.
LEMMA TypeAdding ==
    ASSUME TypeOK, NEW s \in Session,
           SyncToDAG \/ AddEdge(s) \/ VisitNode(s) \/ RejectEdge(s)
             \/ InsertEdge(s) \/ AddEdgeFails(s)
    PROVE  TypeOK'
<1> USE DEF TypeOK, Adding, EndAdd, GoTo, Fails
<1>1. CASE SyncToDAG
  <2>1. Issue \subseteq Task
    BY DEF Issue
  <2>2. PICK st \in [Issue -> RawStatus] :
           /\ \A t \in Issue : st[t] \in TrackerStatus[t]
           /\ status' = [t \in Task |-> IF t \in Issue /\ ~ Exists(t)
                                          THEN st[t] ELSE status[t]]
    BY <1>1 DEF SyncToDAG
  <2>3. /\ status' \in [Task -> Status \cup RawStatus]
        /\ \A t \in Task : \/ status'[t] \in Status
                           \/ t \in Issue /\ status'[t] \in TrackerStatus[t]
    BY <2>1, <2>2
  <2>4. work' \in [Session -> SUBSET Edge]
    <3>1. PICK ds \in TrackerDeps : work' = [work EXCEPT ![Sync] =
             { e \in ds : status'[e[1]] # "none" /\ status'[e[2]] # "none" }]
      BY <1>1 DEF SyncToDAG
    <3>2. ds \subseteq Edge
      BY <2>1, TrackerAssumption DEF Edge
    <3> QED
      BY <3>1, <3>2, SessionFacts
  <2> QED
    BY <1>1, <2>3, <2>4, SessionFacts DEF SyncToDAG, Phase, graph, history
<1>2. CASE AddEdge(s)
  <2>1. PICK e \in work[s] :
           /\ adding' = [adding EXCEPT ![s] = e]
           /\ queue' = [queue EXCEPT ![s] = { e[2] }]
           /\ work' = [work EXCEPT ![s] = @ \ { e }]
    BY <1>2 DEF AddEdge
  <2>2. e \in Edge /\ e[2] \in Task
    BY DEF Edge
  <2> QED
    BY <1>2, <2>1, <2>2 DEF AddEdge, graph, history
<1>3. CASE VisitNode(s)
  <2>1. PICK n \in queue[s] :
           /\ seen' = [seen EXCEPT ![s] = @ \cup { n }]
           /\ queue' = [queue EXCEPT ![s] =
                          (@ \cup GetDependencies(n)) \ (seen[s] \cup { n })]
    BY <1>3 DEF VisitNode
  <2>2. n \in Task /\ GetDependencies(n) \subseteq Task
    BY DEF GetDependencies
  <2> QED
    BY <1>3, <2>1, <2>2 DEF VisitNode, graph, history
<1>4. CASE RejectEdge(s)
  BY <1>4 DEF RejectEdge, graph, history
<1>5. CASE InsertEdge(s)
  <2>1. adding[s] \in Edge
    BY <1>5 DEF InsertEdge
  <2> QED
    BY <1>5, <2>1 DEF InsertEdge
<1>6. CASE AddEdgeFails(s)
  BY <1>6 DEF AddEdgeFails, graph, history
<1> QED
  BY <1>1, <1>2, <1>3, <1>4, <1>5, <1>6

\* The gate keeps the types.
LEMMA TypeGate ==
    ASSUME TypeOK, NEW s \in Session,
           GateCleans(s) \/ GatePromotes(s) \/ GateListsReady(s)
             \/ GateRechecks(s) \/ GateFences(s) \/ GateEnds(s)
             \/ SessionFails(s)
    PROVE  TypeOK'
<1> USE DEF TypeOK, EndAdd, GoTo, SetStatus, Holding, Fails, Phase, Status,
        graph, history
<1>1. CASE GateCleans(s)
  BY <1>1 DEF GateCleans
<1>2. CASE GatePromotes(s)
  BY <1>2 DEF GatePromotes
<1>3. CASE GateListsReady(s)
  BY <1>3 DEF GateListsReady
<1>4. CASE GateRechecks(s)
  BY <1>4 DEF GateRechecks
<1>5. CASE GateFences(s)
  <2>1. ComputeFences(Holding({ "ready", "running" })) \subseteq Edge
    BY FencesAreEdges
  <2> QED
    BY <1>5, <2>1 DEF GateFences
<1>6. CASE GateEnds(s)
  BY <1>6, SessionFacts DEF GateEnds
<1>7. CASE SessionFails(s)
  BY <1>7, SessionFacts DEF SessionFails
<1> QED
  BY <1>1, <1>2, <1>3, <1>4, <1>5, <1>6, <1>7

\* So does the tick.
LEMMA TypeListing ==
    ASSUME TypeOK, ScanCandidates
    PROVE  TypeOK'
BY DEF TypeOK, Status, graph, session, history, ScanCandidates, GetApprovedNodes,
   Holding

\* So do the agents and people.
LEMMA TypeTasks ==
    ASSUME TypeOK, NEW t \in Task,
           StartTask(t) \/ AgentStep(t) \/ AgentGivesUp(t) \/ PlanSubtasks(t)
             \/ Approve(t) \/ Accept(t) \/ Reject(t) \/ Retry(t) \/ Decompose(t)
    PROVE  TypeOK'
<1> USE DEF TypeOK, SetStatus, Fails, Status, graph, session, history
<1>1. CASE StartTask(t)
  BY <1>1 DEF StartTask
<1>2. CASE AgentDecomposes(t)
  <2>1. CreateSubtasksAtomic(t, "open")
    BY <1>2 DEF AgentDecomposes
  <2>2. edges' \subseteq Edge /\ fences' \subseteq edges'
    BY <2>1, DecompositionIsTyped DEF CreateSubtasksAtomic
  <2>3. /\ status' \in [Task -> Status \cup RawStatus]
        /\ \A u \in Task : status'[u] \in Status \cup { status[u] }
    BY <2>1 DEF CreateSubtasksAtomic
  <2> QED
    BY <1>2, <2>2, <2>3 DEF AgentDecomposes, GoTo, Phase
<1>3. CASE PlanSubtasks(t)
  <2>1. CreateSubtasksAtomic(t, "ready")
    BY <1>3 DEF PlanSubtasks
  <2>2. edges' \subseteq Edge /\ fences' \subseteq edges'
    BY <2>1, DecompositionIsTyped DEF CreateSubtasksAtomic
  <2>3. /\ status' \in [Task -> Status \cup RawStatus]
        /\ \A u \in Task : status'[u] \in Status \cup { status[u] }
    BY <2>1 DEF CreateSubtasksAtomic
  <2> QED
    BY <1>3, <2>2, <2>3 DEF PlanSubtasks
<1>4. CASE AgentCompletes(t)
  BY <1>4 DEF AgentCompletes
<1>5. CASE AgentGivesUp(t)
  BY <1>5 DEF AgentGivesUp
<1>6. CASE Approve(t) \/ Accept(t) \/ Reject(t) \/ Retry(t) \/ Decompose(t)
  BY <1>6 DEF Approve, Accept, Reject, Retry, Decompose
<1> QED
  BY <1>1, <1>2, <1>3, <1>4, <1>5, <1>6 DEF AgentStep

LEMMA TypeNext == TypeOK /\ [Next]_vars => TypeOK'
<1> SUFFICES ASSUME TypeOK, [Next]_vars PROVE TypeOK'
  OBVIOUS
<1>1. CASE SyncToDAG
  BY <1>1, TypeAdding, SessionFacts
<1>2. CASE \E s \in Session : SessionStep(s) \/ AddEdgeFails(s) \/ SessionFails(s)
  BY <1>2, TypeAdding, TypeGate DEF SessionStep
<1>3. CASE ScanCandidates
  BY <1>3, TypeListing
<1>4. CASE \E t \in Task : \/ StartTask(t) \/ AgentStep(t) \/ AgentGivesUp(t)
                            \/ PlanSubtasks(t) \/ Approve(t) \/ Accept(t)
                            \/ Reject(t) \/ Retry(t) \/ Decompose(t)
  BY <1>4, TypeTasks
<1>5. CASE UNCHANGED vars
  BY <1>5 DEF TypeOK, vars, graph, session, history
<1> QED
  BY <1>1, <1>2, <1>3, <1>4, <1>5 DEF Next

\* Every variable keeps its type, whatever the tasks, the decompositions and
\* the bounds are: a row takes no status but those the code knows, and a row
\* of an issue the one it had in the tracker; and a fence is an edge.
THEOREM TypeCorrect == Spec => []TypeOK
BY TypeInit, TypeNext, PTL DEF Spec

---------------------------------------------------------------------------
(* No cycles, when AddEdge calls do not overlap.  The inductive invariant: *)
(* edges join rows that exist, one session adds at a time, and a search    *)
(* has followed every edge of the nodes it has seen.                       *)

Joins(e) == Exists(e[1]) /\ Exists(e[2])

Rows == /\ \A e \in edges : Joins(e)
        /\ \A s \in Session : \A e \in work[s] : Joins(e)
        /\ \A s \in Session : Adding(s) => Joins(adding[s])

OneAdder == \A s, u \in Session : Adding(s) /\ Adding(u) => s = u

Search ==
    \A s \in Session : Adding(s) =>
        /\ adding[s][2] \in seen[s] \cup queue[s]
        /\ adding[s][1] \notin seen[s]
        /\ \A n \in seen[s] : GetDependencies(n) \subseteq seen[s] \cup queue[s]

GraphInv == TypeOK /\ Rows /\ OneAdder /\ Search /\ Acyclic

\* What the steps do to the graph and to the searches.  Most neither add an
\* edge nor touch a search; some end one; AddEdge, VisitNode and InsertEdge
\* drive one; and a decomposition leaves the sessions alone.
RowsKept == \A t \in Task : Exists(t) => Exists(t)'

Passive ==
    /\ RowsKept
    /\ edges' \subseteq edges
    /\ \A s \in Session : \A e \in work'[s] : e \in work[s] \/ Joins(e)'
    /\ UNCHANGED << adding, queue, seen >>

Ends(s) ==
    /\ RowsKept
    /\ edges' \subseteq edges
    /\ \A u \in Session : work'[u] \subseteq work[u]
    /\ EndAdd(s)

Decomposes(p) ==
    /\ \E first \in { "open", "ready" } : CreateSubtasksAtomic(p, first)
    /\ UNCHANGED << work, adding, queue, seen >>

\* The gate's steps, and the sessions that end or fail.
LEMMA GateKinds ==
    ASSUME TypeOK, NEW s \in Session,
           GateCleans(s) \/ GatePromotes(s) \/ GateListsReady(s)
             \/ GateRechecks(s) \/ GateFences(s) \/ GateEnds(s)
    PROVE  Passive
<1> USE DEF TypeOK, SetStatus, Exists, RowsKept, Passive, graph
<1>1. CASE GateCleans(s)
  BY <1>1 DEF GateCleans
<1>2. CASE GatePromotes(s)
  BY <1>2 DEF GatePromotes
<1>3. CASE GateListsReady(s)
  BY <1>3 DEF GateListsReady
<1>4. CASE GateRechecks(s)
  BY <1>4 DEF GateRechecks
<1>5. CASE GateFences(s)
  <2> DEFINE active == Holding({ "ready", "running" })
  <2>1. \A e \in ComputeFences(active) : Joins(e)'
    <3> SUFFICES ASSUME NEW x \in active, NEW y \in active
                 PROVE  Joins(orderByPriority(x, y))'
      BY DEF ComputeFences
    <3>1. Exists(x)' /\ Exists(y)'
      BY <1>5 DEF GateFences, Holding
    <3> QED
      BY <3>1 DEF orderByPriority, Joins
  <2>2. work' = [work EXCEPT ![s] = ComputeFences(active)]
    BY <1>5 DEF GateFences
  <2>3. \A u \in Session : \A e \in work'[u] : e \in work[u] \/ Joins(e)'
    BY <2>1, <2>2
  <2> QED
    BY <1>5, <2>3 DEF GateFences
<1>6. CASE GateEnds(s)
  BY <1>6, SessionFacts DEF GateEnds
<1> QED
  BY <1>1, <1>2, <1>3, <1>4, <1>5, <1>6

LEMMA EndKinds ==
    ASSUME TypeOK, NEW s \in Session,
           RejectEdge(s) \/ AddEdgeFails(s) \/ SessionFails(s)
    PROVE  Ends(s)
<1> USE DEF TypeOK, SetStatus, Exists, RowsKept, Ends, graph
<1>1. CASE RejectEdge(s)
  BY <1>1 DEF RejectEdge
<1>2. CASE AddEdgeFails(s)
  BY <1>2 DEF AddEdgeFails
<1>3. CASE SessionFails(s)
  BY <1>3, SessionFacts DEF SessionFails
<1> QED
  BY <1>1, <1>2, <1>3

LEMMA TaskKinds ==
    ASSUME TypeOK,
           \/ SyncToDAG \/ ScanCandidates
           \/ \E t \in Task : \/ StartTask(t) \/ AgentCompletes(t)
                             \/ AgentGivesUp(t) \/ Approve(t) \/ Accept(t)
                             \/ Reject(t) \/ Retry(t) \/ Decompose(t)
    PROVE  Passive
<1> USE DEF TypeOK, SetStatus, Exists, RowsKept, Passive, graph, session
<1>1. CASE SyncToDAG
  <2>1. PICK ds \in TrackerDeps : work' = [work EXCEPT ![Sync] =
           { e \in ds : status'[e[1]] # "none" /\ status'[e[2]] # "none" }]
    BY <1>1 DEF SyncToDAG
  <2>2. \A e \in work'[Sync] : Joins(e)'
    BY <2>1, SessionFacts DEF Joins
  <2>3. \A u \in Session : \A e \in work'[u] : e \in work[u] \/ Joins(e)'
    BY <2>1, <2>2, SessionFacts
  <2>4. RowsKept
    BY <1>1 DEF SyncToDAG
  <2> QED
    BY <1>1, <2>3, <2>4 DEF SyncToDAG
<1>2. CASE ScanCandidates
  BY <1>2 DEF ScanCandidates
<1>3. ASSUME NEW t \in Task,
             StartTask(t) \/ AgentCompletes(t) \/ AgentGivesUp(t)
               \/ Approve(t) \/ Accept(t) \/ Reject(t) \/ Retry(t) \/ Decompose(t)
      PROVE  Passive
  BY <1>3 DEF StartTask, AgentCompletes, AgentGivesUp, Approve, Accept, Reject,
     Retry, Decompose, Fails
<1> QED
  BY <1>1, <1>2, <1>3

LEMMA Kinds ==
    ASSUME TypeOK, [Next]_vars
    PROVE  \/ Passive
           \/ \E s \in Session : \/ Ends(s) \/ AddEdge(s) \/ VisitNode(s)
                                \/ InsertEdge(s)
           \/ \E p \in Task : Decomposes(p)
<1>1. ASSUME NEW s \in Session, SessionStep(s) \/ AddEdgeFails(s) \/ SessionFails(s)
      PROVE  Passive \/ Ends(s) \/ AddEdge(s) \/ VisitNode(s) \/ InsertEdge(s)
  BY <1>1, GateKinds, EndKinds DEF SessionStep
<1>2. ASSUME NEW p \in Task, AgentDecomposes(p) \/ PlanSubtasks(p)
      PROVE  Decomposes(p)
  BY <1>2 DEF AgentDecomposes, PlanSubtasks, Decomposes, session
<1>3. CASE UNCHANGED vars
  BY <1>3 DEF vars, graph, session, Passive, RowsKept, Exists
<1> QED
  BY <1>1, <1>2, <1>3, TaskKinds DEF Next, AgentStep

---------------------------------------------------------------------------
(* One lemma per part of the invariant, one step per kind.                 *)

LEMMA RowsNext ==
    ASSUME TypeOK, Rows, [Next]_vars
    PROVE  Rows'
<1>a. \A e \in Edge : RowsKept /\ Joins(e) => Joins(e)'
  BY DEF RowsKept, Joins, Edge
<1> USE DEF TypeOK, Rows, Adding
<1>1. CASE Passive
  <2>1. \A s \in Session : \A e \in work'[s] : Joins(e)'
    BY <1>1, <1>a DEF Passive
  <2> QED
    BY <1>1, <1>a, <2>1 DEF Passive
<1>2. ASSUME NEW s \in Session, Ends(s) PROVE Rows'
  BY <1>2, <1>a DEF Ends, EndAdd
<1>3. ASSUME NEW s \in Session, AddEdge(s) PROVE Rows'
  <2>1. \A e : Joins(e) => Joins(e)'
    BY <1>3 DEF AddEdge, Joins, Exists
  <2> QED
    BY <1>3, <2>1 DEF AddEdge, graph
<1>4. ASSUME NEW s \in Session, VisitNode(s) PROVE Rows'
  <2>1. \A e : Joins(e) => Joins(e)'
    BY <1>4 DEF VisitNode, Joins, Exists
  <2> QED
    BY <1>4, <2>1 DEF VisitNode, graph
<1>5. ASSUME NEW s \in Session, InsertEdge(s) PROVE Rows'
  <2>1. \A e : Joins(e) => Joins(e)'
    BY <1>5 DEF InsertEdge, Joins, Exists
  <2>2. \A e \in edges' : Joins(e)'
    BY <1>5, <2>1 DEF InsertEdge
  <2>3. \A u \in Session : adding'[u] # NoEdge => adding'[u] = adding[u]
    BY <1>5 DEF InsertEdge, EndAdd
  <2> QED
    BY <1>5, <2>1, <2>2, <2>3 DEF InsertEdge
<1>6. ASSUME NEW p \in Task, Decomposes(p) PROVE Rows'
  <2>1. PICK first \in { "open", "ready" } : CreateSubtasksAtomic(p, first)
    BY <1>6 DEF Decomposes
  <2>2. Steps[p] # << >>
    BY <2>1 DEF CreateSubtasksAtomic
  <2>3. RowsKept
    BY <2>1 DEF CreateSubtasksAtomic, RowsKept, Exists
  <2>4. \A t \in Subtasks(p) : Exists(t)'
    BY <2>1, <2>2, SubtaskFacts DEF CreateSubtasksAtomic, Subtasks, Exists
  <2>5. ASSUME NEW e \in edges' PROVE Joins(e)'
    <3>1. e \in rewired(edges, p) \cup chain(p)
      BY <2>1 DEF CreateSubtasksAtomic
    <3>2. /\ Steps[p][1] \in Subtasks(p)
          /\ Steps[p][Len(Steps[p])] \in Subtasks(p)
          /\ \A i \in 1 .. Len(Steps[p]) - 1 :
                Steps[p][i] \in Subtasks(p) /\ Steps[p][i + 1] \in Subtasks(p)
      BY <2>2, SubtaskFacts DEF Subtasks
    <3>3. CASE e \in edges
      BY <2>3, <3>3, <1>a
    <3>4. CASE e[1] = Steps[p][1] /\ e[2] \in Task /\ << p, e[2] >> \in edges
      <4>1. Exists(e[2])
        BY <3>4 DEF Joins
      <4> QED
        BY <4>1, <2>3, <2>4, <3>2, <3>4 DEF Joins, RowsKept
    <3>5. CASE /\ e[1] \in Task /\ << e[1], p >> \in edges
               /\ e[2] = Steps[p][Len(Steps[p])]
      <4>1. Exists(e[1])
        BY <3>5 DEF Joins
      <4> QED
        BY <4>1, <2>3, <2>4, <3>2, <3>5 DEF Joins, RowsKept
    <3>6. ASSUME NEW i \in 1 .. Len(Steps[p]) - 1,
                 e = << Steps[p][i + 1], Steps[p][i] >>
          PROVE  Joins(e)'
      <4>1. e[1] \in Subtasks(p) /\ e[2] \in Subtasks(p)
        BY <3>2, <3>6
      <4> QED
        BY <4>1, <2>4 DEF Joins
    <3> QED
      BY <2>2, <3>1, <3>3, <3>4, <3>5, <3>6, RewiredEdge
  <2>6. UNCHANGED << work, adding >>
    BY <1>6 DEF Decomposes
  <2> QED
    BY <2>3, <2>5, <2>6, <1>a
<1> QED
  BY <1>1, <1>2, <1>3, <1>4, <1>5, <1>6, Kinds

LEMMA OneAdderNext ==
    ASSUME TypeOK, OneAdder, ~ Overlap, [Next]_vars
    PROVE  OneAdder'
<1> USE DEF TypeOK, OneAdder, Adding
<1>1. CASE Passive \/ \E p \in Task : Decomposes(p)
  BY <1>1 DEF Passive, Decomposes
<1>2. ASSUME NEW s \in Session, Ends(s) \/ VisitNode(s) \/ InsertEdge(s)
      PROVE  OneAdder'
  <2>1. \A u \in Session : adding'[u] # NoEdge => adding[u] # NoEdge
    BY <1>2 DEF Ends, VisitNode, InsertEdge, EndAdd
  <2> QED
    BY <2>1
<1>3. ASSUME NEW s \in Session, AddEdge(s) PROVE OneAdder'
  <2>1. \A u \in Session : adding[u] = NoEdge
    BY <1>3 DEF AddEdge, NobodyAdds
  <2> QED
    BY <1>3, <2>1 DEF AddEdge
<1> QED
  BY <1>1, <1>2, <1>3, Kinds

LEMMA SearchNext ==
    ASSUME TypeOK, OneAdder, Search, ~ Overlap, [Next]_vars
    PROVE  Search'
<1> USE DEF TypeOK, Search, Adding, GetDependencies
<1>1. CASE Passive
  <2>1. \A n : GetDependencies(n)' \subseteq GetDependencies(n)
    BY <1>1 DEF Passive
  <2> QED
    BY <1>1, <2>1 DEF Passive
<1>2. ASSUME NEW s \in Session, Ends(s) PROVE Search'
  <2>1. \A n : GetDependencies(n)' \subseteq GetDependencies(n)
    BY <1>2 DEF Ends
  <2> QED
    BY <1>2, <2>1 DEF Ends, EndAdd
<1>3. ASSUME NEW s \in Session, AddEdge(s) PROVE Search'
  <2>1. \A u \in Session : adding[u] = NoEdge
    BY <1>3 DEF AddEdge, NobodyAdds
  <2>2. \A u \in Session : u # s => adding'[u] = NoEdge
    BY <1>3, <2>1 DEF AddEdge
  <2>3. adding'[s][2] \in queue'[s] /\ seen'[s] = {}
    BY <1>3 DEF AddEdge
  <2> QED
    BY <2>2, <2>3
<1>4. ASSUME NEW s \in Session, VisitNode(s) PROVE Search'
  <2>1. PICK n \in queue[s] :
           /\ n # adding[s][1]
           /\ seen' = [seen EXCEPT ![s] = @ \cup { n }]
           /\ queue' = [queue EXCEPT ![s] =
                          (@ \cup GetDependencies(n)) \ (seen[s] \cup { n })]
    BY <1>4 DEF VisitNode
  <2>2. /\ seen'[s] = seen[s] \cup { n }
        /\ seen'[s] \cup queue'[s] =
              seen[s] \cup queue[s] \cup { n } \cup GetDependencies(n)
    BY <2>1
  <2>3. UNCHANGED << edges, adding >>
    BY <1>4 DEF VisitNode, graph
  <2>4. \A u \in Session : u # s => seen'[u] = seen[u] /\ queue'[u] = queue[u]
    BY <2>1
  <2> QED
    BY <2>1, <2>2, <2>3, <2>4
<1>5. ASSUME NEW s \in Session, InsertEdge(s) PROVE Search'
  <2>1. \A u \in Session : adding'[u] = NoEdge
    BY <1>5 DEF InsertEdge, EndAdd, OneAdder
  <2> QED
    BY <2>1
<1>6. ASSUME NEW p \in Task, Decomposes(p) PROVE Search'
  BY <1>6 DEF Decomposes, CreateSubtasksAtomic, NobodyAdds
<1> QED
  BY <1>1, <1>2, <1>3, <1>4, <1>5, <1>6, Kinds

LEMMA AcyclicNext ==
    ASSUME TypeOK, Rows, Search, Acyclic, ~ Overlap, [Next]_vars
    PROVE  Acyclic'
<1>a. NoCycle(edges)
  BY DEF Acyclic, NoCycle
<1> SUFFICES NoCycle(edges')
  BY DEF Acyclic, NoCycle
<1>1. CASE edges' \subseteq edges
  BY <1>1, <1>a, NoCycleSubset
<1>2. ASSUME NEW s \in Session, InsertEdge(s) PROVE NoCycle(edges')
  <2>1. edges' = edges \cup { << adding[s][1], adding[s][2] >> }
    BY <1>2 DEF InsertEdge, TypeOK, Adding, Edge
  <2>2. /\ adding[s][1] \in Task /\ adding[s][1] \notin seen[s]
        /\ adding[s][2] \in seen[s]
        /\ seen[s] \in SUBSET Task
    BY <1>2 DEF InsertEdge, TypeOK, Adding, Edge, Search
  <2>3. \A n \in seen[s] : \A d \in Task : << n, d >> \in edges => d \in seen[s]
    BY <1>2 DEF InsertEdge, Search, GetDependencies
  <2> HIDE DEF NoCycle
  <2> QED
    BY <1>a, <2>1, <2>2, <2>3, InsertKeepsNoCycle
<1>3. ASSUME NEW p \in Task, Decomposes(p) PROVE NoCycle(edges')
  <2>1. PICK first \in { "open", "ready" } : CreateSubtasksAtomic(p, first)
    BY <1>3 DEF Decomposes
  <2>2. Steps[p] # << >> /\ edges' = rewired(edges, p) \cup chain(p)
    BY <2>1 DEF CreateSubtasksAtomic
  <2>3. \A t \in Subtasks(p) : ~ Exists(t)
    BY <2>1, <2>2, SubtaskFacts DEF CreateSubtasksAtomic, Children, Subtasks
  <2>4. \A e \in edges : e[1] \notin Subtasks(p) /\ e[2] \notin Subtasks(p)
    BY <2>3 DEF Rows, Joins
  <2> QED
    BY <1>a, <2>2, <2>4, DecompositionKeepsNoCycle DEF TypeOK
<1> QED
  BY <1>1, <1>2, <1>3, Kinds DEF Passive, Ends, AddEdge, VisitNode, graph

LEMMA GraphInit == Init => GraphInv
<1> SUFFICES ASSUME Init PROVE GraphInv
  OBVIOUS
<1>1. Rows /\ OneAdder /\ Search /\ Acyclic
  BY DEF Init, Rows, OneAdder, Search, Acyclic, Adding
<1> QED
  BY <1>1, TypeInit DEF GraphInv

LEMMA GraphNext == ~ Overlap /\ GraphInv /\ [Next]_vars => GraphInv'
BY TypeNext, RowsNext, OneAdderNext, SearchNext, AcyclicNext DEF GraphInv

\* However the imports, the fences and the decompositions follow each other,
\* the edges never close a cycle, as long as AddEdge calls overlap neither
\* one another nor a decomposition.  The search of wouldCreateCycle holds its
\* set of seen nodes across queries; the invariant is that this set stays
\* closed while fences are deleted and statuses change under it.
THEOREM AcyclicHolds ==
    ASSUME ~ Overlap
    PROVE  Spec => []Acyclic
<1>1. Init => GraphInv
  BY GraphInit
<1>2. GraphInv /\ [Next]_vars => GraphInv'
  BY GraphNext
<1>3. GraphInv => Acyclic
  BY DEF GraphInv
<1> QED
  BY <1>1, <1>2, <1>3, PTL DEF Spec
=============================================================================
