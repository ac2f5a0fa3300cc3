---------------------------- MODULE PlansProofs ----------------------------
(***************************************************************************)
(* Proofs about Plans, for any number of connections and refs, every set   *)
(* of drafts that a model may answer with, every configuration and every   *)
(* bound.                                                                  *)
(***************************************************************************)
EXTENDS Plans, FiniteSetTheorems, WellFoundedInduction, TLAPS

---------------------------------------------------------------------------
(* Type correctness.                                                       *)

\* What the types rest on: a request that is about to create the goal has read
\* a draft, and one that creates tasks or edges has a run.
GoalHasDraft == \A c \in Conn : at[c] = "goal" => read[c].draft \in Draft
CreatorHasRun == \A c \in Conn : at[c] \in { "create", "wire" } => mine[c] # 0

TypeInv == TypeOK /\ GoalHasDraft /\ CreatorHasRun

LEMMA DraftParts ==
    ASSUME NEW d \in Draft
    PROVE  /\ d.order \in Seq(Ref) /\ d.deps \in SUBSET (Ref \X Ref)
           /\ d.parent \in [Ref -> Ref \cup { NoRef }] /\ d.gate \in BOOLEAN
           /\ Refs(d) \subseteq Ref
<1>1. d \in DraftType
  BY PlanAssumption
<1>2. /\ d.order \in Seq(Ref) /\ d.deps \in SUBSET (Ref \X Ref)
      /\ d.parent \in [Ref -> Ref \cup { NoRef }] /\ d.gate \in BOOLEAN
  BY <1>1 DEF DraftType
<1>3. \A i \in DOMAIN d.order : d.order[i] \in Ref
  BY <1>2
<1> QED
  BY <1>2, <1>3 DEF Refs

LEMMA NewPlanType == NewPlan \in Row
<1>1. << >> \in Seq(Message)
  OBVIOUS
<1> QED
  BY <1>1 DEF NewPlan, Row, Status

LEMMA TypeInit == Init => TypeInv
<1> SUFFICES ASSUME Init PROVE TypeInv
  OBVIOUS
<1>1. mats \in Seq(Materialization) /\ Len(mats) = 0
  BY DEF Init
<1>2. mine \in [Conn -> 0 .. Len(mats)] /\ done \subseteq 1 .. Len(mats)
  BY <1>1 DEF Init
<1>3. TypeOK
  BY <1>1, <1>2, NewPlanType DEF Init, TypeOK, Point
<1> QED
  BY <1>3 DEF Init, TypeInv, GoalHasDraft, CreatorHasRun

\* A message makes a conversation of messages longer.
LEMMA SaidType ==
    ASSUME TypeOK, NEW c \in Conn, NEW role \in { "user", "assistant" }
    PROVE  /\ Said(c, role) \in Message
           /\ Append(plan.conversation, Said(c, role)) \in Seq(Message)
<1>1. Said(c, role) \in Message
  BY DEF Said, Message, TypeOK
<1>2. plan.conversation \in Seq(Message)
  BY DEF TypeOK, Row
<1> QED
  BY <1>1, <1>2

\* The run of a request that creates, and what a request may do to it.
LEMMA RunType ==
    ASSUME TypeInv, NEW c \in Conn, at[c] \in { "create", "wire" }
    PROVE  /\ mine[c] \in DOMAIN mats /\ DOMAIN mats = 1 .. Len(mats)
           /\ Run(c) \in Materialization /\ Len(mats) \in Nat
<1>1. mine[c] \in 1 .. Len(mats) /\ Len(mats) \in Nat
  BY DEF TypeInv, TypeOK, CreatorHasRun
<1> QED
  BY <1>1 DEF TypeInv, TypeOK, Run

LEMMA ReplaceRun ==
    ASSUME TypeInv, NEW c \in Conn, at[c] \in { "create", "wire" },
           NEW m \in Materialization, mats' = [mats EXCEPT ![mine[c]] = m]
    PROVE  /\ mats' \in Seq(Materialization) /\ Len(mats') = Len(mats)
           /\ mats'[mine[c]] = m
           /\ \A i \in DOMAIN mats : i # mine[c] => mats'[i] = mats[i]
           /\ DOMAIN mats' = DOMAIN mats
<1>1. mine[c] \in DOMAIN mats /\ mats \in Seq(Materialization)
  BY RunType DEF TypeInv, TypeOK
<1> QED
  BY <1>1

---------------------------------------------------------------------------
\* Requests begin, go on and end with well-typed locals.
LEMMA TypeEnd ==
    ASSUME TypeInv, NEW c \in Conn, End(c), Len(mats') \in Nat, Len(mats) <= Len(mats')
    PROVE  /\ at' \in [Conn -> Point] /\ read' \in [Conn -> Row]
           /\ turn' \in [Conn -> Nat] /\ mine' \in [Conn -> 0 .. Len(mats')]
           /\ GoalHasDraft' /\ CreatorHasRun'
<1>1. Len(mats) \in Nat
  BY DEF TypeInv, TypeOK
<1> QED
  BY <1>1, NewPlanType DEF End, TypeInv, TypeOK, GoalHasDraft, CreatorHasRun, Point

\* A request that ends and leaves the runs alone.
LEMMA TypeEnds ==
    ASSUME TypeInv, NEW c \in Conn, End(c), plan' \in Row, mats' \in Seq(Materialization),
           Len(mats') = Len(mats),
           done' \subseteq 1 .. Len(mats), granted' \in Nat, raced' \in BOOLEAN,
           lost' \in BOOLEAN, forgotten' \in BOOLEAN,
           UNCHANGED << requests, turns >>, faults' \in Nat
    PROVE  TypeInv'
<1>1. Len(mats') \in Nat /\ Len(mats) <= Len(mats')
  BY DEF TypeInv, TypeOK
<1>2. /\ at' \in [Conn -> Point] /\ read' \in [Conn -> Row]
      /\ turn' \in [Conn -> Nat] /\ mine' \in [Conn -> 0 .. Len(mats')]
      /\ GoalHasDraft' /\ CreatorHasRun'
  BY <1>1, TypeEnd
<1> QED
  BY <1>2 DEF TypeInv, TypeOK

\* A request that begins or goes on and leaves the runs alone.
LEMMA TypeKept ==
    ASSUME TypeInv, UNCHANGED << mats, mine, done >>, plan' \in Row,
           at' \in [Conn -> Point], read' \in [Conn -> Row], turn' \in [Conn -> Nat],
           GoalHasDraft', CreatorHasRun', granted' \in Nat, raced' \in BOOLEAN,
           lost' \in BOOLEAN, forgotten' \in BOOLEAN,
           requests' \in Nat, turns' \in Nat, faults' \in Nat
    PROVE  TypeInv'
BY DEF TypeInv, TypeOK

LEMMA TypeSetStatus ==
    ASSUME TypeInv, NEW s \in Status, SetStatus(s)
    PROVE  plan' \in Row
BY DEF TypeInv, TypeOK, Row, SetStatus

LEMMA TypeForget ==
    ASSUME TypeInv, NEW c \in Conn, Forget(c), mats' \in Seq(Materialization),
           Len(mats) = Len(mats'), done' = done, granted' = granted, raced' = raced,
           lost' = lost, UNCHANGED << requests, turns >>, faults' \in Nat
    PROVE  TypeInv'
BY TypeEnds DEF Forget, TypeInv, TypeOK

LEMMA TypeBackToApproved ==
    ASSUME TypeInv, NEW c \in Conn, BackToApproved(c), mats' \in Seq(Materialization),
           Len(mats) = Len(mats'), done' = done, granted' = granted, raced' = raced,
           lost' = lost, UNCHANGED << requests, turns >>, faults' \in Nat
    PROVE  TypeInv'
<1>1. CASE Forget(c)
  BY <1>1, TypeForget
<1>2. CASE SetStatus("approved") /\ UNCHANGED forgotten /\ End(c)
  <2>1. plan' \in Row
    BY <1>2, TypeSetStatus DEF Status
  <2> QED
    BY <1>2, <2>1, TypeEnds DEF TypeInv, TypeOK
<1> QED
  BY <1>1, <1>2 DEF BackToApproved

LEMMA TypeGroom ==
    ASSUME TypeInv, NEW c \in Conn,
           GroomBegin(c) \/ GroomAppend(c) \/ GroomStatus(c) \/ GroomAnswer(c)
    PROVE  TypeInv'
<1> USE DEF TypeInv, TypeOK, GoalHasDraft, CreatorHasRun, Point, history
<1>1. CASE GroomBegin(c)
  <2>1. turns + 1 \in Nat /\ requests + 1 \in Nat
    OBVIOUS
  <2> QED
    BY <1>1, <2>1 DEF GroomBegin, BeginTurn, Begin
<1>2. CASE GroomAppend(c)
  <2>1. plan' \in Row
    BY <1>2, SaidType DEF GroomAppend, Row
  <2> QED
    BY <1>2, <2>1 DEF GroomAppend, GoOn
<1>3. CASE GroomStatus(c)
  <2>1. plan' \in Row
    BY <1>3 DEF GroomStatus, UpdatePlan, Row, Status
  <2>2. faults' \in Nat
    BY <1>3 DEF GroomStatus, Fails
  <2>3. raced' \in BOOLEAN
    <3>1. raced' = (raced \/ ReliedOn) \/ raced' = raced
      BY <1>3 DEF GroomStatus
    <3> QED
      BY <3>1
  <2>4. at' \in [Conn -> Point] /\ GoalHasDraft' /\ CreatorHasRun'
    BY <1>3 DEF GroomStatus, GoOn
  <2>5. UNCHANGED << mats, mine, done >>
    BY <1>3 DEF GroomStatus, GoOn
  <2>6. /\ read' \in [Conn -> Row] /\ turn' \in [Conn -> Nat]
        /\ granted' \in Nat /\ lost' \in BOOLEAN /\ forgotten' \in BOOLEAN
        /\ requests' \in Nat /\ turns' \in Nat
    BY <1>3 DEF GroomStatus, GoOn
  <2> HIDE DEF TypeInv, TypeOK, GoalHasDraft, CreatorHasRun, Point
  <2> QED
    BY <2>1, <2>2, <2>3, <2>4, <2>5, <2>6, TypeKept
<1>4. CASE GroomAnswer(c)
  <2>1. plan' \in Row
    BY <1>4, SaidType DEF GroomAnswer, Row
  <2> QED
    BY <1>4, <2>1, TypeEnds DEF GroomAnswer
<1> QED
  BY <1>1, <1>2, <1>3, <1>4

LEMMA TypeWrite ==
    ASSUME TypeInv, NEW c \in Conn,
           \/ SessionCreate(c) \/ SessionMessage(c) \/ InterviewBegin(c)
           \/ InterviewWrite(c) \/ DecomposeBegin(c) \/ DecomposeWrite(c)
    PROVE  TypeInv'
<1> USE DEF TypeInv, TypeOK, GoalHasDraft, CreatorHasRun, Point, history
<1>0. turns + 1 \in Nat /\ requests + 1 \in Nat
  OBVIOUS
<1>1. CASE SessionCreate(c)
  <2>1. plan' \in Row
    BY <1>1, TypeSetStatus DEF SessionCreate, TransitionPlanStatus, Status
  <2> QED
    BY <1>0, <1>1, <2>1 DEF SessionCreate, request
<1>2. CASE SessionMessage(c)
  <2>1. [turn |-> turns + 1, role |-> "user"] \in Message
    BY <1>0 DEF Message
  <2>2. Append(plan.conversation, [turn |-> turns + 1, role |-> "user"]) \in Seq(Message)
    BY <2>1 DEF Row
  <2>3. plan' \in Row
    BY <1>2, <2>2 DEF SessionMessage, Row
  <2>4. UNCHANGED << mats, mine, done >>
    BY <1>2 DEF SessionMessage, request
  <2>5. /\ at' \in [Conn -> Point] /\ read' \in [Conn -> Row] /\ turn' \in [Conn -> Nat]
        /\ GoalHasDraft' /\ CreatorHasRun'
        /\ granted' \in Nat /\ raced' \in BOOLEAN
        /\ lost' \in BOOLEAN /\ forgotten' \in BOOLEAN
        /\ requests' \in Nat /\ turns' \in Nat /\ faults' \in Nat
    BY <1>0, <1>2 DEF SessionMessage, request
  <2> HIDE DEF TypeInv, TypeOK, GoalHasDraft, CreatorHasRun, Point
  <2> QED
    BY <2>3, <2>4, <2>5, TypeKept
<1>3. CASE InterviewBegin(c)
  BY <1>0, <1>3 DEF InterviewBegin, BeginTurn, Begin
<1>4. CASE InterviewWrite(c)
  <2>1. read[c].conversation \in Seq(Message)
    BY DEF Row
  <2>2. << Said(c, "user"), Said(c, "assistant") >> \in Seq(Message)
    BY SaidType
  <2>3. read[c].conversation \o << Said(c, "user"), Said(c, "assistant") >> \in Seq(Message)
    BY <2>1, <2>2
  <2>4. plan' \in Row
    BY <1>4, <2>3 DEF InterviewWrite, Row, Status
  <2> QED
    BY <1>4, <2>4, TypeEnds DEF InterviewWrite
<1>5. CASE DecomposeBegin(c)
  BY <1>0, <1>5 DEF DecomposeBegin, Begin
<1>6. CASE DecomposeWrite(c)
  <2>1. plan' \in Row
    BY <1>6 DEF DecomposeWrite, Row, Status
  <2>2. raced' \in BOOLEAN
    BY <1>6 DEF DecomposeWrite, ReliedOn
  <2> QED
    BY <1>6, <2>1, <2>2, TypeEnds DEF DecomposeWrite
<1> QED
  BY <1>1, <1>2, <1>3, <1>4, <1>5, <1>6

LEMMA TypeApprove ==
    ASSUME TypeInv, NEW c \in Conn,
           \/ ApproveBegin(c) \/ ApproveWrite(c)
           \/ MaterializeBegin(c) \/ MaterializeRefused(c) \/ MaterializeRead(c)
    PROVE  TypeInv'
<1> USE DEF TypeInv, TypeOK, GoalHasDraft, CreatorHasRun, Point, history
<1>0. granted + 1 \in Nat /\ requests + 1 \in Nat
  OBVIOUS
<1>1. CASE ApproveBegin(c)
  BY <1>0, <1>1 DEF ApproveBegin, Begin
<1>2. CASE ApproveWrite(c)
  <2>1. plan' \in Row
    BY <1>2, TypeSetStatus DEF ApproveWrite, Status
  <2> QED
    BY <1>0, <1>2, <2>1, TypeEnds DEF ApproveWrite
<1>3. CASE MaterializeBegin(c)
  <2>1. plan' \in Row
    BY <1>3, TypeSetStatus DEF MaterializeBegin, TransitionPlanStatus, Status
  <2> QED
    BY <1>0, <1>3, <2>1 DEF MaterializeBegin, Begin
<1>4. CASE MaterializeRefused(c)
  BY <1>4, TypeBackToApproved DEF MaterializeRefused
<1>5. CASE MaterializeRead(c)
  BY <1>5 DEF MaterializeRead, Row
<1> QED
  BY <1>1, <1>2, <1>3, <1>4, <1>5

\* What creates a run and works on it.
LEMMA TypeCreateGoal ==
    ASSUME TypeInv, NEW c \in Conn, CreateGoal(c)
    PROVE  TypeInv'
<1>1. PICK v \in Config \ { "refused" } : mats' = Append(mats,
           [draft |-> read[c].draft, via |-> v,
            issues |-> IF v = "beads" THEN { Goal } ELSE {}, tasks |-> { Goal },
            parent |-> [r \in Ref |-> NoRef], links |-> {}, edges |-> {}])
  BY DEF CreateGoal
<1> DEFINE m == [draft |-> read[c].draft, via |-> v,
            issues |-> IF v = "beads" THEN { Goal } ELSE {}, tasks |-> { Goal },
            parent |-> [r \in Ref |-> NoRef], links |-> {}, edges |-> {}]
<1>2. read[c].draft \in Draft /\ v \in { "beads", "dag" }
  BY PlanAssumption DEF CreateGoal, TypeInv, GoalHasDraft
<1>3. m \in Materialization
  BY <1>2 DEF Materialization, Item
<1>4. mats \in Seq(Materialization)
  BY DEF TypeInv, TypeOK
<1> HIDE DEF m
<1>5. mats' \in Seq(Materialization) /\ Len(mats') = Len(mats) + 1 /\ Len(mats) \in Nat
  BY <1>1, <1>3, <1>4 DEF m
<1> QED
  BY <1>5 DEF CreateGoal, TypeInv, TypeOK, GoalHasDraft, CreatorHasRun, Point, history

\* The run as a step leaves it when it touches one: more issues and tasks, a
\* parent, more links and edges.
Grown(c, issues, tasks, parent, links, edges) ==
    [Run(c) EXCEPT !.issues = issues, !.tasks = tasks, !.parent = parent,
                   !.links = links, !.edges = edges]

LEMMA GrownType ==
    ASSUME TypeInv, NEW c \in Conn, at[c] \in { "create", "wire" },
           NEW issues \in SUBSET Item, NEW tasks \in SUBSET Item,
           NEW parent \in [Ref -> Item \cup { NoRef }],
           NEW links \in SUBSET (Ref \X Ref), NEW edges \in SUBSET (Ref \X Ref),
           mats' = [mats EXCEPT ![mine[c]] = Grown(c, issues, tasks, parent, links, edges)]
    PROVE  /\ mats' \in Seq(Materialization) /\ Len(mats') = Len(mats)
           /\ DOMAIN mats' = DOMAIN mats
           /\ mats'[mine[c]] = Grown(c, issues, tasks, parent, links, edges)
           /\ mats'[mine[c]].draft = Run(c).draft /\ mats'[mine[c]].via = Run(c).via
           /\ mats'[mine[c]].issues = issues /\ mats'[mine[c]].tasks = tasks
           /\ mats'[mine[c]].parent = parent
           /\ mats'[mine[c]].links = links /\ mats'[mine[c]].edges = edges
           /\ \A i \in DOMAIN mats : i # mine[c] => mats'[i] = mats[i]
<1>1. Run(c) \in Materialization
  BY RunType
<1> DEFINE g == Grown(c, issues, tasks, parent, links, edges)
<1>2. /\ g \in Materialization /\ g.draft = Run(c).draft /\ g.via = Run(c).via
      /\ g.issues = issues /\ g.tasks = tasks /\ g.parent = parent
      /\ g.links = links /\ g.edges = edges
  BY <1>1 DEF Grown, Materialization
<1> HIDE DEF g
<1>3. mats' = [mats EXCEPT ![mine[c]] = g]
  BY DEF g
<1>4. /\ mats' \in Seq(Materialization) /\ Len(mats') = Len(mats)
      /\ mats'[mine[c]] = g /\ DOMAIN mats' = DOMAIN mats
      /\ \A i \in DOMAIN mats : i # mine[c] => mats'[i] = mats[i]
  BY <1>2, <1>3, ReplaceRun
<1> QED
  BY <1>2, <1>4 DEF g

\* The parts of a run, and the forms in which the handler changes it.
LEMMA RunParts ==
    ASSUME TypeInv, NEW c \in Conn, at[c] \in { "create", "wire" }
    PROVE  /\ Run(c).draft \in Draft /\ Run(c).via \in { "beads", "dag" }
           /\ Run(c).issues \in SUBSET Item /\ Run(c).tasks \in SUBSET Item
           /\ Run(c).parent \in [Ref -> Item \cup { NoRef }]
           /\ Run(c).links \in SUBSET (Ref \X Ref) /\ Run(c).edges \in SUBSET (Ref \X Ref)
           /\ \A p \in Run(c).draft.deps : Tracked(c, { p }) \in SUBSET (Ref \X Ref)
           /\ \A r \in Ref : Tracked(c, { r }) \in SUBSET Item
<1>1. Run(c) \in Materialization
  BY RunType
<1>2. Run(c).draft \in Draft
  BY <1>1 DEF Materialization
<1>3. Run(c).draft.deps \in SUBSET (Ref \X Ref)
  BY <1>2, DraftParts
<1> QED
  BY <1>1, <1>3 DEF Materialization, Tracked, Item

\* A task is created.
LEMMA ItemGrows ==
    ASSUME TypeInv, NEW c \in Conn, CreateItem(c)
    PROVE  \E r \in Ref :
             /\ NextItem(Run(c), r)
             /\ mats' = [mats EXCEPT ![mine[c]] =
                   Grown(c, Run(c).issues \cup Tracked(c, { r }), Run(c).tasks \cup { r },
                         [Run(c).parent EXCEPT ![r] =
                            IF Run(c).draft.parent[r] \in Run(c).tasks
                              THEN Run(c).draft.parent[r] ELSE Goal],
                         Run(c).links, Run(c).edges)]
<1>1. at[c] \in { "create", "wire" }
  BY DEF CreateItem
<1>2. Run(c) \in Materialization /\ mine[c] \in DOMAIN mats /\ mats[mine[c]] = Run(c)
  BY <1>1, RunType DEF Run
<1>3. PICK r \in Ref : NextItem(Run(c), r) /\ mats' = [mats EXCEPT
             ![mine[c]].issues = @ \cup Tracked(c, { r }),
             ![mine[c]].tasks = @ \cup { r },
             ![mine[c]].parent[r] =
                 IF Run(c).draft.parent[r] \in Run(c).tasks
                   THEN Run(c).draft.parent[r] ELSE Goal]
  BY DEF CreateItem
<1>4. mats' = [mats EXCEPT ![mine[c]] =
                   Grown(c, Run(c).issues \cup Tracked(c, { r }), Run(c).tasks \cup { r },
                         [Run(c).parent EXCEPT ![r] =
                            IF Run(c).draft.parent[r] \in Run(c).tasks
                              THEN Run(c).draft.parent[r] ELSE Goal],
                         Run(c).links, Run(c).edges)]
  BY <1>2, <1>3 DEF Grown, Materialization, TypeInv, TypeOK
<1> QED
  BY <1>3, <1>4

\* A dependency is wired.
LEMMA EdgeGrows ==
    ASSUME TypeInv, NEW c \in Conn, WireDependency(c)
    PROVE  \E p \in Run(c).draft.deps :
             /\ ~ Cyclic(Run(c).edges \cup { p })
             /\ mats' = [mats EXCEPT ![mine[c]] =
                   Grown(c, Run(c).issues, Run(c).tasks, Run(c).parent,
                         Run(c).links \cup Tracked(c, { p }), Run(c).edges \cup { p })]
<1>1. at[c] \in { "create", "wire" }
  BY DEF WireDependency
<1>2. Run(c) \in Materialization /\ mine[c] \in DOMAIN mats /\ mats[mine[c]] = Run(c)
  BY <1>1, RunType DEF Run
<1>3. PICK p \in Run(c).draft.deps \ Run(c).edges :
        /\ ~ Cyclic(Run(c).edges \cup { p })
        /\ mats' = [mats EXCEPT ![mine[c]].links = @ \cup Tracked(c, { p }),
                                ![mine[c]].edges = @ \cup { p }]
  BY DEF WireDependency
<1>4. mats' = [mats EXCEPT ![mine[c]] =
                   Grown(c, Run(c).issues, Run(c).tasks, Run(c).parent,
                         Run(c).links \cup Tracked(c, { p }), Run(c).edges \cup { p })]
  BY <1>2, <1>3 DEF Grown, Materialization, TypeInv, TypeOK
<1> QED
  BY <1>3, <1>4

\* What a failure leaves: an issue without its mirror, a link without its edge.
LEMMA IssueGrows ==
    ASSUME TypeInv, NEW c \in Conn, at[c] \in { "create", "wire" }, NEW r \in Ref,
           mats' = [mats EXCEPT ![mine[c]].issues = @ \cup Tracked(c, { r })]
    PROVE  mats' = [mats EXCEPT ![mine[c]] =
                      Grown(c, Run(c).issues \cup Tracked(c, { r }), Run(c).tasks,
                            Run(c).parent, Run(c).links, Run(c).edges)]
<1>1. Run(c) \in Materialization /\ mine[c] \in DOMAIN mats /\ mats[mine[c]] = Run(c)
  BY RunType DEF Run
<1> QED
  BY <1>1 DEF Grown, Materialization, TypeInv, TypeOK

LEMMA LinkGrows ==
    ASSUME TypeInv, NEW c \in Conn, at[c] \in { "create", "wire" },
           NEW p \in Run(c).draft.deps,
           mats' = [mats EXCEPT ![mine[c]].links = @ \cup Tracked(c, { p })]
    PROVE  mats' = [mats EXCEPT ![mine[c]] =
                      Grown(c, Run(c).issues, Run(c).tasks, Run(c).parent,
                            Run(c).links \cup Tracked(c, { p }), Run(c).edges)]
<1>1. Run(c) \in Materialization /\ mine[c] \in DOMAIN mats /\ mats[mine[c]] = Run(c)
  BY RunType DEF Run
<1> QED
  BY <1>1 DEF Grown, Materialization, TypeInv, TypeOK

\* No step on a run touches another one, or changes the run's draft.
Touched(c) ==
    /\ mats' \in Seq(Materialization) /\ Len(mats') = Len(mats)
    /\ DOMAIN mats' = DOMAIN mats
    /\ \A i \in DOMAIN mats : /\ i # mine[c] => mats'[i] = mats[i]
                             /\ mats'[i].draft = mats[i].draft

LEMMA Unchanged_Touched ==
    ASSUME TypeInv, NEW c \in Conn, UNCHANGED mats
    PROVE  Touched(c)
BY DEF Touched, TypeInv, TypeOK

LEMMA Grown_Touched ==
    ASSUME TypeInv, NEW c \in Conn, at[c] \in { "create", "wire" },
           NEW issues \in SUBSET Item, NEW tasks \in SUBSET Item,
           NEW parent \in [Ref -> Item \cup { NoRef }],
           NEW links \in SUBSET (Ref \X Ref), NEW edges \in SUBSET (Ref \X Ref),
           mats' = [mats EXCEPT ![mine[c]] = Grown(c, issues, tasks, parent, links, edges)]
    PROVE  Touched(c)
<1>1. /\ mats' \in Seq(Materialization) /\ Len(mats') = Len(mats)
      /\ DOMAIN mats' = DOMAIN mats /\ mats'[mine[c]].draft = Run(c).draft
      /\ \A i \in DOMAIN mats : i # mine[c] => mats'[i] = mats[i]
  BY GrownType
<1> QED
  BY <1>1 DEF Touched, Run

LEMMA StepTouches ==
    ASSUME TypeInv, NEW c \in Conn,
           \/ CreateItem(c) \/ WireDependency(c) \/ CycleRefused(c) \/ MaterializeFails(c)
    PROVE  Touched(c)
<1>1. CASE CreateItem(c)
  <2>1. at[c] \in { "create", "wire" }
    BY <1>1 DEF CreateItem
  <2>2. PICK r \in Ref : mats' = [mats EXCEPT ![mine[c]] =
                   Grown(c, Run(c).issues \cup Tracked(c, { r }), Run(c).tasks \cup { r },
                         [Run(c).parent EXCEPT ![r] =
                            IF Run(c).draft.parent[r] \in Run(c).tasks
                              THEN Run(c).draft.parent[r] ELSE Goal],
                         Run(c).links, Run(c).edges)]
    BY <1>1, ItemGrows
  <2> DEFINE parent == [Run(c).parent EXCEPT ![r] =
                            IF Run(c).draft.parent[r] \in Run(c).tasks
                              THEN Run(c).draft.parent[r] ELSE Goal]
             issues == Run(c).issues \cup Tracked(c, { r })
             tasks == Run(c).tasks \cup { r }
  <2>3. issues \in SUBSET Item /\ tasks \in SUBSET Item
    BY <2>1, RunParts DEF Item
  <2>4. parent \in [Ref -> Item \cup { NoRef }]
    <3>1. Run(c).parent \in [Ref -> Item \cup { NoRef }] /\ Run(c).tasks \in SUBSET Item
      BY <2>1, RunParts
    <3> QED
      BY <3>1 DEF Item
  <2>5. Run(c).links \in SUBSET (Ref \X Ref) /\ Run(c).edges \in SUBSET (Ref \X Ref)
    BY <2>1, RunParts
  <2>6. mats' = [mats EXCEPT ![mine[c]] =
                    Grown(c, issues, tasks, parent, Run(c).links, Run(c).edges)]
    BY <2>2
  <2> HIDE DEF issues, tasks, parent
  <2> QED
    BY <2>1, <2>3, <2>4, <2>5, <2>6, Grown_Touched
<1>2. CASE WireDependency(c)
  <2>1. at[c] \in { "create", "wire" }
    BY <1>2 DEF WireDependency
  <2>2. PICK p \in Run(c).draft.deps : mats' = [mats EXCEPT ![mine[c]] =
                   Grown(c, Run(c).issues, Run(c).tasks, Run(c).parent,
                         Run(c).links \cup Tracked(c, { p }), Run(c).edges \cup { p })]
    BY <1>2, EdgeGrows
  <2>3. p \in Ref \X Ref
    BY <2>1, RunParts, DraftParts
  <2>4. /\ Run(c).links \cup Tracked(c, { p }) \in SUBSET (Ref \X Ref)
        /\ Run(c).edges \cup { p } \in SUBSET (Ref \X Ref)
    BY <2>1, <2>3, RunParts
  <2> QED
    BY <2>1, <2>2, <2>4, RunParts, Grown_Touched
<1>3. ASSUME at[c] \in { "create", "wire" }, NEW p \in Run(c).draft.deps,
             mats' = [mats EXCEPT ![mine[c]].links = @ \cup Tracked(c, { p })]
      PROVE  Touched(c)
  <2>1. Run(c).links \cup Tracked(c, { p }) \in SUBSET (Ref \X Ref)
    BY <1>3, RunParts
  <2>2. mats' = [mats EXCEPT ![mine[c]] =
                    Grown(c, Run(c).issues, Run(c).tasks, Run(c).parent,
                          Run(c).links \cup Tracked(c, { p }), Run(c).edges)]
    BY <1>3, LinkGrows
  <2>3. at[c] \in { "create", "wire" }
    BY <1>3
  <2> QED
    BY <2>1, <2>2, <2>3, RunParts, Grown_Touched
<1>4. CASE CycleRefused(c)
  BY <1>3, <1>4 DEF CycleRefused
<1>5. CASE MaterializeFails(c)
  <2>1. ASSUME at[c] = "create", NEW r \in Ref,
               mats' = [mats EXCEPT ![mine[c]].issues = @ \cup Tracked(c, { r })]
        PROVE  Touched(c)
    <3>1. Run(c).issues \cup Tracked(c, { r }) \in SUBSET Item
      BY <2>1, RunParts
    <3>2. mats' = [mats EXCEPT ![mine[c]] =
                      Grown(c, Run(c).issues \cup Tracked(c, { r }), Run(c).tasks,
                            Run(c).parent, Run(c).links, Run(c).edges)]
      BY <2>1, IssueGrows
    <3>3. at[c] \in { "create", "wire" }
      BY <2>1
    <3> QED
      BY <3>1, <3>2, <3>3, RunParts, Grown_Touched
  <2> QED
    BY <1>3, <1>5, <2>1, Unchanged_Touched DEF MaterializeFails
<1> QED
  BY <1>1, <1>2, <1>4, <1>5

LEMMA TypeMaterialize ==
    ASSUME TypeInv, NEW c \in Conn,
           \/ ParentsRefused(c) \/ CreateItem(c) \/ ItemsCreated(c)
           \/ WireDependency(c) \/ CycleRefused(c) \/ MaterializeDone(c)
           \/ ReadFails(c) \/ LastWriteFails(c) \/ MaterializeFails(c) \/ RequestLost(c)
    PROVE  TypeInv'
<1>1. CASE ParentsRefused(c)
  BY <1>1, TypeBackToApproved DEF ParentsRefused, TypeInv, TypeOK
<1>2. CASE CreateItem(c) \/ WireDependency(c)
  <2>1. mats' \in Seq(Materialization) /\ Len(mats') = Len(mats)
    BY <1>2, StepTouches DEF Touched
  <2>2. UNCHANGED << plan, request, done, history, requests, turns, faults >>
    BY <1>2 DEF CreateItem, WireDependency
  <2> QED
    BY <2>1, <2>2 DEF TypeInv, TypeOK, GoalHasDraft, CreatorHasRun, request, history
<1>3. CASE ItemsCreated(c)
  BY <1>3 DEF ItemsCreated, GoOn, TypeInv, TypeOK, GoalHasDraft, CreatorHasRun, Point, history
<1>4. CASE CycleRefused(c)
  <2>1. mats' \in Seq(Materialization) /\ Len(mats') = Len(mats)
    BY <1>4, StepTouches DEF Touched
  <2> QED
    BY <1>4, <2>1, TypeBackToApproved DEF CycleRefused, TypeInv, TypeOK
<1>5. CASE MaterializeDone(c)
  <2>1. mine[c] \in 1 .. Len(mats) /\ Len(mats) \in Nat
    <3>1. at[c] \in { "create", "wire" }
      BY <1>5 DEF MaterializeDone
    <3> QED
      BY <3>1, RunType
  <2>2. mine[c] \in Nat
    BY <2>1
  <2>3. plan' \in Row
    BY <1>5, <2>2 DEF MaterializeDone, TypeInv, TypeOK, Row, Status
  <2> QED
    BY <1>5, <2>1, <2>3, TypeEnds DEF MaterializeDone, TypeInv, TypeOK, history
<1>6. CASE MaterializeFails(c)
  <2>1. mats' \in Seq(Materialization) /\ Len(mats') = Len(mats)
    BY <1>6, StepTouches DEF Touched
  <2>2. faults' \in Nat
    BY <1>6 DEF MaterializeFails, Fails, TypeInv, TypeOK
  <2> QED
    BY <1>6, <2>1, <2>2, TypeBackToApproved DEF MaterializeFails
<1>7. CASE RequestLost(c)
  <2>1. faults' \in Nat /\ lost' \in BOOLEAN
    BY <1>7 DEF RequestLost, Fails, TypeInv, TypeOK
  <2> QED
    BY <1>7, <2>1, TypeEnds DEF RequestLost, TypeInv, TypeOK
<1>8. CASE ReadFails(c) \/ LastWriteFails(c)
  <2>1. faults' \in Nat
    BY <1>8 DEF ReadFails, LastWriteFails, Fails, TypeInv, TypeOK
  <2> QED
    BY <1>8, <2>1, TypeForget DEF ReadFails, LastWriteFails, TypeInv, TypeOK
<1> QED
  BY <1>1, <1>2, <1>3, <1>4, <1>5, <1>6, <1>7, <1>8

LEMMA TypeNext == TypeInv /\ [Next]_vars => TypeInv'
<1> SUFFICES ASSUME TypeInv, [Next]_vars PROVE TypeInv'
  OBVIOUS
<1>1. CASE UNCHANGED vars
  BY <1>1 DEF vars, request, history, TypeInv, TypeOK, GoalHasDraft, CreatorHasRun
<1>2. ASSUME NEW c \in Conn, Handler(c) PROVE TypeInv'
  BY <1>2, TypeGroom, TypeWrite, TypeApprove, TypeCreateGoal, TypeMaterialize DEF Handler
<1> QED
  BY <1>1, <1>2 DEF Next

\* Every variable keeps its type: statuses are known ones, a draft is one that
\* a model has answered with, a request that creates has a run of its own.
THEOREM TypeCorrect == Spec => []TypeOK
<1>1. TypeInv => TypeOK
  BY DEF TypeInv
<1> QED
  BY <1>1, TypeInit, TypeNext, PTL DEF Spec

---------------------------------------------------------------------------
(* A plan in materializing has a request at work on it.                    *)

\* A step of another kind leaves the status in materializing only if it was
\* there, and ends no request that materializes.
LEMMA WorkerStays ==
    ASSUME TypeInv, MaterializingHasWorker, NEW c \in Conn,
           UNCHANGED << lost, forgotten >>,
           plan'.status = "materializing" => plan.status = "materializing",
           \/ at[c] \notin Materializing
           \/ at'[c] \in Materializing,
           \A k \in Conn \ { c } : at'[k] = at[k]
    PROVE  MaterializingHasWorker'
<1> SUFFICES ASSUME plan'.status = "materializing"
             PROVE  lost' \/ forgotten' \/ \E k \in Conn : at'[k] \in Materializing
  BY DEF MaterializingHasWorker, Materializing
<1>1. lost \/ forgotten \/ \E k \in Conn : at[k] \in Materializing
  BY DEF MaterializingHasWorker
<1>2. CASE lost \/ forgotten
  BY <1>2
<1>3. ASSUME NEW k \in Conn, at[k] \in Materializing
      PROVE  \E j \in Conn : at'[j] \in Materializing
  BY <1>3
<1> QED
  BY <1>1, <1>2, <1>3

LEMMA WorkerBack ==
    ASSUME TypeInv, NEW c \in Conn, BackToApproved(c)
    PROVE  MaterializingHasWorker'
BY DEF BackToApproved, Forget, SetStatus, MaterializingHasWorker, TypeInv, TypeOK, Row

LEMMA WorkerNext ==
    ASSUME TypeInv, MaterializingHasWorker, NEW c \in Conn, Handler(c)
    PROVE  MaterializingHasWorker'
<1> USE DEF TypeInv, TypeOK, Materializing, history, request
<1>1. CASE GroomBegin(c)
  BY <1>1, WorkerStays DEF GroomBegin, BeginTurn, Begin
<1>2. CASE GroomAppend(c)
  BY <1>2, WorkerStays DEF GroomAppend, GoOn, Row
<1>3. CASE GroomStatus(c)
  <2>1. plan'.status = "materializing" => plan.status = "materializing"
    BY <1>3 DEF GroomStatus, UpdatePlan, Row
  <2> QED
    BY <1>3, <2>1, WorkerStays DEF GroomStatus, GoOn
<1>4. CASE GroomAnswer(c)
  BY <1>4, WorkerStays DEF GroomAnswer, End, Row
<1>5. CASE SessionCreate(c)
  BY <1>5, WorkerStays DEF SessionCreate, TransitionPlanStatus, SetStatus, Row
<1>6. CASE SessionMessage(c)
  BY <1>6, WorkerStays DEF SessionMessage, Row
<1>7. CASE InterviewBegin(c)
  BY <1>7, WorkerStays DEF InterviewBegin, BeginTurn, Begin
<1>8. CASE InterviewWrite(c)
  <2>1. plan'.status = "needs_input"
    BY <1>8 DEF InterviewWrite, Row
  <2> QED
    BY <2>1 DEF MaterializingHasWorker
<1>9. CASE DecomposeBegin(c)
  BY <1>9, WorkerStays DEF DecomposeBegin, Begin
<1>10. CASE DecomposeWrite(c)
  <2>1. plan'.status = "decomposed"
    BY <1>10 DEF DecomposeWrite, Row
  <2> QED
    BY <2>1 DEF MaterializingHasWorker
<1>11. CASE ApproveBegin(c)
  BY <1>11, WorkerStays DEF ApproveBegin, Begin
<1>12. CASE ApproveWrite(c)
  <2>1. plan'.status = "approved"
    BY <1>12 DEF ApproveWrite, SetStatus, Row
  <2> QED
    BY <2>1 DEF MaterializingHasWorker
<1>13. CASE MaterializeBegin(c)
  <2>1. at'[c] = "read"
    BY <1>13 DEF MaterializeBegin, Begin
  <2> QED
    BY <2>1 DEF MaterializingHasWorker
<1>14. CASE MaterializeRead(c)
  BY <1>14, WorkerStays DEF MaterializeRead
<1>15. CASE CreateGoal(c)
  BY <1>15, WorkerStays DEF CreateGoal
<1>16. CASE CreateItem(c) \/ WireDependency(c)
  BY <1>16, WorkerStays DEF CreateItem, WireDependency
<1>17. CASE ItemsCreated(c)
  BY <1>17, WorkerStays DEF ItemsCreated, GoOn
<1>18. CASE MaterializeRefused(c) \/ ParentsRefused(c) \/ CycleRefused(c) \/ MaterializeFails(c)
  BY <1>18, WorkerBack DEF MaterializeRefused, ParentsRefused, CycleRefused, MaterializeFails
<1>19. CASE MaterializeDone(c)
  <2>1. plan'.status = "materialized"
    BY <1>19 DEF MaterializeDone, Row
  <2> QED
    BY <2>1 DEF MaterializingHasWorker
<1>20. CASE RequestLost(c)
  <2>1. CASE at[c] \in Materializing
    BY <1>20, <2>1 DEF RequestLost, MaterializingHasWorker
  <2>2. CASE at[c] \notin Materializing
    BY <1>20, <2>2, WorkerStays DEF RequestLost, End
  <2> QED
    BY <2>1, <2>2
<1>21. CASE ReadFails(c) \/ LastWriteFails(c)
  BY <1>21 DEF ReadFails, LastWriteFails, Forget, MaterializingHasWorker
<1> QED
  BY <1>1, <1>2, <1>3, <1>4, <1>5, <1>6, <1>7, <1>8, <1>9, <1>10, <1>11, <1>12,
     <1>13, <1>14, <1>15, <1>16, <1>17, <1>18, <1>19, <1>20, <1>21 DEF Handler

\* A plan whose status says materializing has a request at work on it, its
\* client has left in the middle, or the code could not read or write the
\* plan's own row: whatever else fails, and however many requests overlap, the
\* handler gives the status back.
THEOREM WorkerHolds == Spec => []MaterializingHasWorker
<1>1. Init => MaterializingHasWorker
  BY DEF Init, NewPlan, MaterializingHasWorker
<1>2. TypeInv /\ MaterializingHasWorker /\ [Next]_vars => MaterializingHasWorker'
  <2> SUFFICES ASSUME TypeInv, MaterializingHasWorker, [Next]_vars
               PROVE  MaterializingHasWorker'
    OBVIOUS
  <2>1. CASE UNCHANGED vars
    BY <2>1 DEF vars, request, history, MaterializingHasWorker
  <2> QED
    BY <2>1, WorkerNext DEF Next
<1> QED
  BY <1>1, <1>2, TypeInit, TypeNext, PTL DEF Spec

---------------------------------------------------------------------------
(* What is materialized has passed the gate.                               *)

\* Why the next run will be gated: the row holds a gated draft as soon as it is
\* approved or anybody relies on it, and a request that has read one keeps it.
Gated(d) == d \in Draft /\ d.gate
RowGated == plan.status = "approved" \/ ReliedOn => Gated(plan.draft)
ReadGated == \A c \in Conn : at[c] = "goal" => Gated(read[c].draft)
GateInv == ~ raced => /\ RowGated /\ ReadGated
                      /\ \A i \in DOMAIN mats : mats[i].draft.gate

\* Steps that leave draft and runs alone, let nobody new rely on the draft and
\* approve nothing.
LEMMA GateStays ==
    ASSUME TypeInv, GateInv, NEW c \in Conn, raced' = raced, plan'.draft = plan.draft,
           plan'.status = "approved" => plan.status = "approved" \/ ReliedOn,
           at'[c] \in Materializing \cup { "approve" }
             => plan.status = "approved" \/ ReliedOn,
           at'[c] # "goal", \A k \in Conn \ { c } : at'[k] = at[k] /\ read'[k] = read[k],
           mats' = mats
    PROVE  GateInv'
<1> SUFFICES ASSUME ~ raced
             PROVE  RowGated' /\ ReadGated' /\ \A i \in DOMAIN mats' : mats'[i].draft.gate
  BY DEF GateInv
<1>1. RowGated'
  <2>1. ReliedOn' => plan.status = "approved" \/ ReliedOn
    BY DEF ReliedOn, Materializing
  <2>2. Gated(plan.draft) => Gated(plan'.draft)
    OBVIOUS
  <2> QED
    BY <2>1, <2>2 DEF GateInv, RowGated
<1>2. ReadGated'
  BY DEF GateInv, ReadGated
<1> QED
  BY <1>1, <1>2 DEF GateInv

\* A draft is written: that is a race as soon as anybody relies on the old one.
LEMMA GateWrites ==
    ASSUME TypeInv, GateInv, NEW c \in Conn, raced' = (raced \/ ReliedOn),
           plan'.status # "approved",
           at[c] \notin Materializing, at'[c] \notin Materializing \cup { "approve" },
           \A k \in Conn \ { c } : at'[k] = at[k] /\ read'[k] = read[k],
           mats' = mats
    PROVE  GateInv'
<1> SUFFICES ASSUME ~ raced, ~ ReliedOn
             PROVE  RowGated' /\ ReadGated' /\ \A i \in DOMAIN mats' : mats'[i].draft.gate
  BY DEF GateInv
<1>1. ~ ReliedOn'
  BY DEF ReliedOn, Materializing
<1>2. RowGated'
  BY <1>1 DEF RowGated
<1>3. ReadGated'
  BY DEF GateInv, ReadGated, Materializing
<1> QED
  BY <1>2, <1>3 DEF GateInv

\* A materialization that works on its run, or gives up.
LEMMA GateTouches ==
    ASSUME TypeInv, GateInv, NEW c \in Conn, raced' = raced, Touched(c),
           plan'.draft = plan.draft, at[c] \in Materializing, at'[c] # "goal",
           \A k \in Conn \ { c } : at'[k] = at[k] /\ read'[k] = read[k]
    PROVE  GateInv'
<1> SUFFICES ASSUME ~ raced
             PROVE  RowGated' /\ ReadGated' /\ \A i \in DOMAIN mats' : mats'[i].draft.gate
  BY DEF GateInv
<1>1. ReliedOn
  BY DEF ReliedOn
<1>2. RowGated'
  BY <1>1 DEF GateInv, RowGated
<1>3. ReadGated'
  BY DEF GateInv, ReadGated
<1>4. \A i \in DOMAIN mats' : mats'[i].draft.gate
  BY DEF GateInv, Touched
<1> QED
  BY <1>2, <1>3, <1>4

LEMMA GateNext ==
    ASSUME TypeInv, GateInv, NEW c \in Conn, Handler(c)
    PROVE  GateInv'
<1> USE DEF TypeInv, TypeOK, Materializing, history, request
<1>1. CASE GroomBegin(c)
  BY <1>1, GateStays DEF GroomBegin, BeginTurn, Begin
<1>2. CASE GroomAppend(c)
  BY <1>2, GateStays DEF GroomAppend, GoOn, Row
<1>3. CASE GroomStatus(c)
  <2>1. /\ at[c] \notin Materializing /\ at'[c] \notin Materializing \cup { "approve" }
        /\ at'[c] # "goal" /\ mats' = mats
        /\ \A k \in Conn \ { c } : at'[k] = at[k] /\ read'[k] = read[k]
    BY <1>3 DEF GroomStatus, GoOn
  <2>2. CASE UNCHANGED << plan, raced >>
    BY <2>1, <2>2, GateStays
  <2>3. CASE /\ UpdatePlan([read[c] EXCEPT !.status = "grooming"])
             /\ raced' = (raced \/ ReliedOn)
    <3>1. plan'.status # "approved"
      BY <2>3 DEF UpdatePlan, Row
    <3> QED
      BY <2>1, <2>3, <3>1, GateWrites
  <2> QED
    BY <1>3, <2>2, <2>3 DEF GroomStatus
<1>4. CASE GroomAnswer(c)
  BY <1>4, GateStays DEF GroomAnswer, End, Row
<1>5. CASE SessionCreate(c)
  BY <1>5, GateStays DEF SessionCreate, TransitionPlanStatus, SetStatus, Row
<1>6. CASE SessionMessage(c)
  BY <1>6, GateStays DEF SessionMessage, Row
<1>7. CASE InterviewBegin(c)
  BY <1>7, GateStays DEF InterviewBegin, BeginTurn, Begin
<1>8. CASE InterviewWrite(c)
  <2>1. plan'.status = "needs_input" /\ plan'.draft = plan.draft
    BY <1>8 DEF InterviewWrite, Row
  <2> QED
    BY <1>8, <2>1, GateStays DEF InterviewWrite, End
<1>9. CASE DecomposeBegin(c)
  BY <1>9, GateStays DEF DecomposeBegin, Begin
<1>10. CASE DecomposeWrite(c)
  <2>1. plan'.status = "decomposed"
    BY <1>10 DEF DecomposeWrite, Row
  <2> QED
    BY <1>10, <2>1, GateWrites DEF DecomposeWrite, End
<1>11. CASE ApproveBegin(c)
  <2> SUFFICES ASSUME ~ raced PROVE RowGated' /\ ReadGated' /\ \A i \in DOMAIN mats' : mats'[i].draft.gate
    BY <1>11 DEF GateInv, ApproveBegin
  <2>1. plan' = plan /\ Gated(plan.draft)
    BY <1>11 DEF ApproveBegin, Gated, Row
  <2>2. RowGated'
    BY <2>1 DEF RowGated
  <2>3. ReadGated'
    BY <1>11 DEF GateInv, ReadGated, ApproveBegin, Begin
  <2> QED
    BY <1>11, <2>2, <2>3 DEF GateInv, ApproveBegin
<1>12. CASE ApproveWrite(c)
  <2>1. ReliedOn
    BY <1>12 DEF ApproveWrite, ReliedOn
  <2>2. plan'.draft = plan.draft
    BY <1>12 DEF ApproveWrite, SetStatus, Row
  <2> QED
    BY <1>12, <2>1, <2>2, GateStays DEF ApproveWrite, End
<1>13. CASE MaterializeBegin(c)
  <2>1. plan.status = "approved" /\ plan'.draft = plan.draft /\ plan'.status # "approved"
    BY <1>13 DEF MaterializeBegin, TransitionPlanStatus, SetStatus, Row
  <2> QED
    BY <1>13, <2>1, GateStays DEF MaterializeBegin, Begin
<1>14. CASE MaterializeRead(c)
  <2> SUFFICES ASSUME ~ raced PROVE RowGated' /\ ReadGated' /\ \A i \in DOMAIN mats' : mats'[i].draft.gate
    BY <1>14 DEF GateInv, MaterializeRead
  <2>1. ReliedOn
    BY <1>14 DEF MaterializeRead, ReliedOn
  <2>2. Gated(plan.draft) /\ plan' = plan /\ read'[c] = plan
    BY <1>14, <2>1 DEF MaterializeRead, GateInv, RowGated
  <2>3. RowGated'
    BY <2>2 DEF RowGated
  <2>4. ReadGated'
    BY <1>14, <2>2 DEF GateInv, ReadGated, MaterializeRead
  <2> QED
    BY <1>14, <2>3, <2>4 DEF GateInv, MaterializeRead
<1>15. CASE CreateGoal(c)
  <2> SUFFICES ASSUME ~ raced PROVE RowGated' /\ ReadGated' /\ \A i \in DOMAIN mats' : mats'[i].draft.gate
    BY <1>15 DEF GateInv, CreateGoal
  <2>1. Gated(read[c].draft)
    BY <1>15 DEF GateInv, ReadGated, CreateGoal
  <2>2. ReliedOn /\ plan' = plan
    BY <1>15 DEF CreateGoal, ReliedOn
  <2>3. RowGated'
    BY <2>2 DEF GateInv, RowGated
  <2>4. ReadGated'
    BY <1>15 DEF GateInv, ReadGated, CreateGoal
  <2>5. PICK m : m.draft = read[c].draft /\ mats' = Append(mats, m)
    BY <1>15 DEF CreateGoal
  <2>6. \A i \in DOMAIN mats' : mats'[i] = m \/ (i \in DOMAIN mats /\ mats'[i] = mats[i])
    BY <2>5
  <2>7. \A i \in DOMAIN mats' : mats'[i].draft.gate
    BY <2>1, <2>5, <2>6 DEF GateInv, Gated
  <2> QED
    BY <2>3, <2>4, <2>7
<1>16. CASE CreateItem(c) \/ WireDependency(c)
  <2>1. Touched(c)
    BY <1>16, StepTouches
  <2> QED
    BY <1>16, <2>1, GateTouches DEF CreateItem, WireDependency
<1>17. CASE ItemsCreated(c)
  BY <1>17, GateTouches, Unchanged_Touched DEF ItemsCreated, GoOn
<1>18. CASE MaterializeRefused(c) \/ ParentsRefused(c) \/ CycleRefused(c) \/ MaterializeFails(c)
  <2>1. Touched(c)
    BY <1>18, StepTouches, Unchanged_Touched DEF MaterializeRefused, ParentsRefused
  <2>2. BackToApproved(c) /\ at[c] \in Materializing /\ raced' = raced
    BY <1>18 DEF MaterializeRefused, ParentsRefused, CycleRefused, MaterializeFails
  <2>3. plan'.draft = plan.draft
    BY <2>2 DEF BackToApproved, Forget, SetStatus, Row
  <2> QED
    BY <2>1, <2>2, <2>3, GateTouches DEF BackToApproved, Forget, End
<1>19. CASE MaterializeDone(c)
  <2>1. plan'.draft = plan.draft
    BY <1>19 DEF MaterializeDone, Row
  <2> QED
    BY <1>19, <2>1, GateTouches, Unchanged_Touched DEF MaterializeDone, End
<1>20. CASE RequestLost(c)
  BY <1>20, GateStays DEF RequestLost, End
<1>21. CASE ReadFails(c) \/ LastWriteFails(c)
  BY <1>21, GateStays DEF ReadFails, LastWriteFails, Forget, End
<1> QED
  BY <1>1, <1>2, <1>3, <1>4, <1>5, <1>6, <1>7, <1>8, <1>9, <1>10, <1>11, <1>12,
     <1>13, <1>14, <1>15, <1>16, <1>17, <1>18, <1>19, <1>20, <1>21 DEF Handler

\* Whatever is decomposed, approved and materialized over and over: as long as
\* no draft is written under an approval or a materialization, only drafts that
\* have passed the checks of handlePlanApprove become tasks.
THEOREM GateHolds == Spec => []GatedUnlessRaced
<1>1. Init => GateInv
  BY DEF Init, NewPlan, GateInv, RowGated, ReadGated, ReliedOn, Materializing
<1>2. TypeInv /\ GateInv /\ [Next]_vars => GateInv'
  <2> SUFFICES ASSUME TypeInv, GateInv, [Next]_vars PROVE GateInv'
    OBVIOUS
  <2>1. CASE UNCHANGED vars
    BY <2>1 DEF vars, request, history, GateInv, RowGated, ReadGated, ReliedOn
  <2> QED
    BY <2>1, GateNext DEF Next
<1>3. GateInv => GatedUnlessRaced
  BY DEF GateInv, GatedUnlessRaced
<1> QED
  BY <1>1, <1>2, <1>3, TypeInit, TypeNext, PTL DEF Spec

---------------------------------------------------------------------------
(* An approval is spent once.                                              *)

\* What every approval has become: a materialized run, a request that
\* materializes, the status of the row, or nothing.
Workers == { c \in Conn : at[c] \in Materializing }
Pledge == IF plan.status = "approved" THEN 1 ELSE 0
BudgetInv == /\ IsFiniteSet(done)
             /\ Cardinality(done) + Cardinality(Workers) + Pledge <= granted

LEMMA Numbers ==
    ASSUME TypeInv, BudgetInv
    PROVE  /\ Cardinality(done) \in Nat
           /\ IsFiniteSet(Workers) /\ Cardinality(Workers) \in Nat
           /\ Pledge \in { 0, 1 } /\ granted \in Nat
<1>1. Workers \subseteq Conn
  BY DEF Workers
<1> QED
  BY <1>1, PlanAssumption, FS_Subset, FS_CardinalityType
     DEF BudgetInv, Pledge, TypeInv, TypeOK

\* Most steps create no pledge.
LEMMA BudgetKept ==
    ASSUME TypeInv, BudgetInv, UNCHANGED << done, granted >>, Workers' \subseteq Workers,
           plan'.status = "approved" => plan.status = "approved"
    PROVE  BudgetInv'
<1>1. Cardinality(Workers') \in Nat /\ Cardinality(Workers') <= Cardinality(Workers)
  BY Numbers, FS_Subset, FS_CardinalityType
<1>2. Pledge' <= Pledge /\ Pledge' \in { 0, 1 }
  BY DEF Pledge
<1> QED
  BY <1>1, <1>2, Numbers DEF BudgetInv

\* A request that ends stops being a worker, and no other one changes.
LEMMA WorkersAfterEnd ==
    ASSUME TypeInv, NEW c \in Conn, End(c)
    PROVE  Workers' = Workers \ { c }
BY DEF Workers, End, Materializing, TypeInv, TypeOK

\* The worker gives its approval back.
LEMMA BudgetBack ==
    ASSUME TypeInv, BudgetInv, NEW c \in Conn, at[c] \in Materializing,
           BackToApproved(c), UNCHANGED << done, granted >>
    PROVE  BudgetInv'
<1>1. c \in Workers /\ Workers' = Workers \ { c }
  BY WorkersAfterEnd DEF BackToApproved, Forget, Workers
<1>2. Cardinality(Workers') = Cardinality(Workers) - 1
  BY <1>1, Numbers, FS_RemoveElement
<1>3. Pledge' \in { 0, 1 }
  BY DEF Pledge
<1> QED
  BY <1>2, <1>3, Numbers DEF BudgetInv

LEMMA BudgetNext ==
    ASSUME TypeInv, BudgetInv, NEW c \in Conn, Handler(c)
    PROVE  BudgetInv'
<1> USE DEF TypeInv, TypeOK, history, request
<1>1. CASE GroomBegin(c)
  <2>1. Workers' \subseteq Workers
    BY <1>1 DEF GroomBegin, BeginTurn, Begin, Materializing, Workers
  <2> QED
    BY <1>1, <2>1, BudgetKept DEF GroomBegin, BeginTurn, Begin
<1>2. CASE GroomAppend(c)
  <2>1. Workers' \subseteq Workers
    BY <1>2 DEF GroomAppend, GoOn, Row, Materializing, Workers
  <2> QED
    BY <1>2, <2>1, BudgetKept DEF GroomAppend, GoOn, Row
<1>3. CASE GroomStatus(c)
  <2>1. plan'.status = "approved" => plan.status = "approved"
    BY <1>3 DEF GroomStatus, UpdatePlan, Row
  <2>2. Workers' \subseteq Workers
    BY <1>3 DEF GroomStatus, GoOn, Materializing, Workers
  <2> QED
    BY <1>3, <2>1, <2>2, BudgetKept DEF GroomStatus
<1>4. CASE GroomAnswer(c)
  BY <1>4, BudgetKept, WorkersAfterEnd DEF GroomAnswer, Row
<1>5. CASE SessionCreate(c)
  BY <1>5, BudgetKept DEF SessionCreate, TransitionPlanStatus, SetStatus, Row, Workers
<1>6. CASE SessionMessage(c)
  BY <1>6, BudgetKept DEF SessionMessage, Row, Workers
<1>7. CASE InterviewBegin(c)
  <2>1. Workers' \subseteq Workers
    BY <1>7 DEF InterviewBegin, BeginTurn, Begin, Materializing, Workers
  <2> QED
    BY <1>7, <2>1, BudgetKept DEF InterviewBegin, BeginTurn, Begin
<1>8. CASE InterviewWrite(c)
  <2>1. plan'.status = "needs_input"
    BY <1>8 DEF InterviewWrite, Row
  <2> QED
    BY <1>8, <2>1, BudgetKept, WorkersAfterEnd DEF InterviewWrite
<1>9. CASE DecomposeBegin(c)
  <2>1. Workers' \subseteq Workers
    BY <1>9 DEF DecomposeBegin, Begin, Materializing, Workers
  <2> QED
    BY <1>9, <2>1, BudgetKept DEF DecomposeBegin, Begin
<1>10. CASE DecomposeWrite(c)
  <2>1. plan'.status = "decomposed"
    BY <1>10 DEF DecomposeWrite, Row
  <2> QED
    BY <1>10, <2>1, BudgetKept, WorkersAfterEnd DEF DecomposeWrite
<1>11. CASE ApproveBegin(c)
  <2>1. Workers' \subseteq Workers
    BY <1>11 DEF ApproveBegin, Begin, Materializing, Workers
  <2> QED
    BY <1>11, <2>1, BudgetKept DEF ApproveBegin, Begin
<1>12. CASE ApproveWrite(c)
  <2>1. Workers' = Workers
    BY <1>12, WorkersAfterEnd DEF ApproveWrite, Workers, Materializing
  <2>2. Pledge' \in { 0, 1 }
    BY DEF Pledge
  <2> QED
    BY <1>12, <2>1, <2>2, Numbers DEF ApproveWrite, BudgetInv
<1>13. CASE MaterializeBegin(c)
  <2>1. Workers' = Workers \cup { c } /\ c \notin Workers
    BY <1>13 DEF MaterializeBegin, Begin, Workers, Materializing
  <2>2. Cardinality(Workers') = Cardinality(Workers) + 1
    BY <2>1, Numbers, FS_AddElement
  <2>3. Pledge = 1 /\ Pledge' = 0
    BY <1>13 DEF MaterializeBegin, TransitionPlanStatus, SetStatus, Pledge, Row
  <2> QED
    BY <1>13, <2>2, <2>3, Numbers DEF MaterializeBegin, BudgetInv
<1>14. CASE MaterializeRead(c)
  <2>1. c \in Workers
    BY <1>14 DEF MaterializeRead, Workers, Materializing
  <2>2. Workers' = Workers
    BY <1>14, <2>1 DEF MaterializeRead, Materializing, Workers
  <2> QED
    BY <1>14, <2>2, BudgetKept DEF MaterializeRead
<1>15. CASE CreateGoal(c)
  <2>1. c \in Workers
    BY <1>15 DEF CreateGoal, Workers, Materializing
  <2>2. Workers' = Workers
    BY <1>15, <2>1 DEF CreateGoal, Materializing, Workers
  <2> QED
    BY <1>15, <2>2, BudgetKept DEF CreateGoal
<1>16. CASE CreateItem(c) \/ WireDependency(c)
  BY <1>16, BudgetKept DEF CreateItem, WireDependency, Workers
<1>17. CASE ItemsCreated(c)
  <2>1. c \in Workers
    BY <1>17 DEF ItemsCreated, Workers, Materializing
  <2>2. Workers' = Workers
    BY <1>17, <2>1 DEF ItemsCreated, GoOn, Materializing, Workers
  <2> QED
    BY <1>17, <2>2, BudgetKept DEF ItemsCreated
<1>18. CASE MaterializeRefused(c) \/ ParentsRefused(c) \/ CycleRefused(c) \/ MaterializeFails(c)
  BY <1>18, BudgetBack DEF MaterializeRefused, ParentsRefused, CycleRefused,
     MaterializeFails, Materializing
<1>19. CASE MaterializeDone(c)
  <2>1. c \in Workers /\ Workers' = Workers \ { c }
    BY <1>19, WorkersAfterEnd DEF MaterializeDone, Workers, Materializing
  <2>2. Cardinality(Workers') = Cardinality(Workers) - 1
    BY <2>1, Numbers, FS_RemoveElement
  <2>3. done' = done \cup { mine[c] } /\ IsFiniteSet(done)
    BY <1>19 DEF MaterializeDone, BudgetInv
  <2>4. /\ IsFiniteSet(done')
        /\ Cardinality(done') = Cardinality(done) \/ Cardinality(done') = Cardinality(done) + 1
    BY <2>3, FS_AddElement
  <2>5. Pledge' = 0
    BY <1>19 DEF MaterializeDone, Pledge, Row
  <2> QED
    BY <1>19, <2>2, <2>4, <2>5, Numbers DEF MaterializeDone, BudgetInv
<1>20. CASE RequestLost(c)
  BY <1>20, BudgetKept, WorkersAfterEnd DEF RequestLost
<1>21. CASE ReadFails(c) \/ LastWriteFails(c)
  BY <1>21, BudgetKept, WorkersAfterEnd DEF ReadFails, LastWriteFails, Forget
<1> QED
  BY <1>1, <1>2, <1>3, <1>4, <1>5, <1>6, <1>7, <1>8, <1>9, <1>10, <1>11, <1>12,
     <1>13, <1>14, <1>15, <1>16, <1>17, <1>18, <1>19, <1>20, <1>21 DEF Handler

\* However many requests approve and materialize a plan at once, and however
\* many of them fail and are repeated, no more runs complete than people have
\* granted approvals.
THEOREM ApprovalsSpentOnce == Spec => []ApprovalSpentOnce
<1>1. Init => BudgetInv
  <2> SUFFICES ASSUME Init PROVE BudgetInv
    OBVIOUS
  <2>1. Workers = {} /\ done = {} /\ Pledge = 0 /\ granted = 0
    BY DEF Init, Workers, Materializing, Pledge, NewPlan
  <2> QED
    BY <2>1, FS_EmptySet DEF BudgetInv
<1>2. TypeInv /\ BudgetInv /\ [Next]_vars => BudgetInv'
  <2> SUFFICES ASSUME TypeInv, BudgetInv, [Next]_vars PROVE BudgetInv'
    OBVIOUS
  <2>1. CASE UNCHANGED vars
    BY <2>1 DEF vars, request, history, BudgetInv, Workers, Pledge
  <2> QED
    BY <2>1, BudgetNext DEF Next
<1>3. TypeInv /\ BudgetInv => ApprovalSpentOnce
  BY Numbers DEF BudgetInv, ApprovalSpentOnce
<1> QED
  BY <1>1, <1>2, <1>3, TypeInit, TypeNext, PTL DEF Spec

---------------------------------------------------------------------------
(* Materialized means complete.                                            *)

\* What the handler keeps while it works on a run, and what is left when it
\* reports the run as materialized.
Clean(m) ==
    /\ Goal \in m.tasks /\ m.tasks \subseteq Refs(m.draft) \cup { Goal }
    /\ m.issues = IF m.via = "beads" THEN m.tasks ELSE {}
    /\ \A r \in m.tasks \ { Goal } :
        m.parent[r] = IF m.draft.parent[r] = NoRef THEN Goal ELSE m.draft.parent[r]
    /\ m.edges \subseteq m.draft.deps
    /\ m.links = IF m.via = "beads" THEN m.edges ELSE {}
    /\ ~ Cyclic(m.edges)
Complete(m) ==
    /\ m.tasks = Refs(m.draft) \cup { Goal }
    /\ m.issues = IF m.via = "beads" THEN m.tasks ELSE {}
    /\ \A r \in Refs(m.draft) :
        m.parent[r] = IF m.draft.parent[r] = NoRef THEN Goal ELSE m.draft.parent[r]
    /\ m.edges = m.draft.deps
    /\ m.links = IF m.via = "beads" THEN m.edges ELSE {}
    /\ ~ Cyclic(m.edges)

Creating == { c \in Conn : at[c] \in { "create", "wire" } }
RunsClean == \A c \in Creating : Clean(mats[mine[c]]) /\ mine[c] \notin done
RunsOwned == \A c, k \in Creating : c # k => mine[c] # mine[k]
WiredLast == \A c \in Conn :
    at[c] = "wire" => Refs(mats[mine[c]].draft) \subseteq mats[mine[c]].tasks
DoneComplete == \A i \in done : Complete(mats[i])
DoneNamed == plan.status = "materialized" => plan.goal \in done
RunInv == RunsClean /\ RunsOwned /\ WiredLast /\ DoneComplete /\ DoneNamed

\* Steps that leave the runs alone and take up no new one.
LEMMA RunsStay ==
    ASSUME TypeInv, RunInv, NEW c \in Conn, UNCHANGED << mats, done >>,
           at'[c] \notin { "create", "wire" },
           \A k \in Conn \ { c } : at'[k] = at[k] /\ mine'[k] = mine[k],
           plan'.status = "materialized" => plan.status = "materialized" /\ plan'.goal = plan.goal
    PROVE  RunInv'
<1>1. Creating' = Creating \ { c } /\ \A k \in Creating' : mine'[k] = mine[k]
  BY DEF Creating
<1>2. RunsClean' /\ RunsOwned'
  BY <1>1 DEF RunInv, RunsClean, RunsOwned
<1>3. WiredLast'
  BY DEF RunInv, WiredLast
<1>4. DoneComplete' /\ DoneNamed'
  BY DEF RunInv, DoneComplete, DoneNamed
<1> QED
  BY <1>2, <1>3, <1>4 DEF RunInv

\* A run of a request that creates is nobody else's, and not a reported one.
LEMMA OthersApart ==
    ASSUME TypeInv, RunInv, NEW c \in Creating, Touched(c)
    PROVE  /\ \A k \in Creating \ { c } : /\ mine[k] \in DOMAIN mats
                                         /\ mats'[mine[k]] = mats[mine[k]]
           /\ \A i \in done : mats'[i] = mats[i]
<1>1. \A k \in Creating : mine[k] \in DOMAIN mats
  BY RunType DEF Creating
<1>2. \A k \in Creating \ { c } : mine[k] # mine[c]
  BY DEF RunInv, RunsOwned
<1>3. done \subseteq DOMAIN mats /\ mine[c] \notin done
  BY DEF RunInv, RunsClean, TypeInv, TypeOK
<1> QED
  BY <1>1, <1>2, <1>3 DEF Touched

\* A request leaves its run, whatever it has done to it last.
LEMMA RunLeft ==
    ASSUME TypeInv, RunInv, NEW c \in Creating, Touched(c), done' = done,
           at'[c] \notin { "create", "wire" },
           \A k \in Conn \ { c } : at'[k] = at[k] /\ mine'[k] = mine[k],
           plan'.status = "materialized" => plan.status = "materialized" /\ plan'.goal = plan.goal
    PROVE  RunInv'
<1>1. Creating' = Creating \ { c } /\ \A k \in Creating' : mine'[k] = mine[k]
  BY DEF Creating
<1>2. /\ \A k \in Creating' : mats'[mine'[k]] = mats[mine[k]]
      /\ \A i \in done : mats'[i] = mats[i]
  BY <1>1, OthersApart
<1>3. RunsClean' /\ RunsOwned'
  BY <1>1, <1>2 DEF RunInv, RunsClean, RunsOwned
<1>4. WiredLast'
  <2>1. \A k \in Conn : at'[k] = "wire" => k \in Creating' /\ at[k] = "wire"
    BY DEF Creating
  <2> QED
    BY <1>2, <2>1 DEF RunInv, WiredLast
<1>5. DoneComplete' /\ DoneNamed'
  BY <1>2 DEF RunInv, DoneComplete, DoneNamed
<1> QED
  BY <1>3, <1>4, <1>5 DEF RunInv

\* A request goes on with its run.
LEMMA RunGoesOn ==
    ASSUME TypeInv, RunInv, NEW c \in Creating, Touched(c), done' = done, plan' = plan,
           mine' = mine, at'[c] \in { "create", "wire" },
           \A k \in Conn \ { c } : at'[k] = at[k],
           Clean(mats'[mine[c]]),
           at'[c] = "wire" => Refs(mats'[mine[c]].draft) \subseteq mats'[mine[c]].tasks
    PROVE  RunInv'
<1>1. Creating' = Creating
  BY DEF Creating
<1>2. /\ \A k \in Creating \ { c } : mats'[mine[k]] = mats[mine[k]]
      /\ \A i \in done : mats'[i] = mats[i]
  BY OthersApart
<1>3. RunsClean' /\ RunsOwned'
  BY <1>1, <1>2 DEF RunInv, RunsClean, RunsOwned
<1>4. WiredLast'
  <2>1. \A k \in Conn \ { c } : at'[k] = "wire" => k \in Creating \ { c } /\ at[k] = "wire"
    BY DEF Creating
  <2> QED
    BY <1>2, <2>1 DEF RunInv, WiredLast
<1>5. DoneComplete' /\ DoneNamed'
  BY <1>2 DEF RunInv, DoneComplete, DoneNamed
<1> QED
  BY <1>3, <1>4, <1>5 DEF RunInv

\* An item and an edge leave a clean run clean.
LEMMA CleanItem ==
    ASSUME TypeInv, NEW c \in Creating, Clean(Run(c)), CreateItem(c)
    PROVE  Clean(mats'[mine[c]])
<1>1. at[c] \in { "create", "wire" } /\ c \in Conn
  BY DEF Creating
<1>2. PICK r \in Ref :
             /\ NextItem(Run(c), r)
             /\ mats' = [mats EXCEPT ![mine[c]] =
                   Grown(c, Run(c).issues \cup Tracked(c, { r }), Run(c).tasks \cup { r },
                         [Run(c).parent EXCEPT ![r] =
                            IF Run(c).draft.parent[r] \in Run(c).tasks
                              THEN Run(c).draft.parent[r] ELSE Goal],
                         Run(c).links, Run(c).edges)]
  BY <1>1, ItemGrows
<1> DEFINE issues == Run(c).issues \cup Tracked(c, { r })
           tasks == Run(c).tasks \cup { r }
           parent == [Run(c).parent EXCEPT ![r] =
                        IF Run(c).draft.parent[r] \in Run(c).tasks
                          THEN Run(c).draft.parent[r] ELSE Goal]
           m == mats'[mine[c]]
<1>3. /\ Run(c).draft \in Draft /\ Run(c).tasks \in SUBSET Item /\ Run(c).issues \in SUBSET Item
      /\ Run(c).parent \in [Ref -> Item \cup { NoRef }]
      /\ Run(c).links \in SUBSET (Ref \X Ref) /\ Run(c).edges \in SUBSET (Ref \X Ref)
      /\ Tracked(c, { r }) \in SUBSET Item
  BY <1>1, RunParts
<1>5. mats' = [mats EXCEPT ![mine[c]] = Grown(c, issues, tasks, parent, Run(c).links, Run(c).edges)]
  BY <1>2
<1>6. /\ parent[r] = IF Run(c).draft.parent[r] = NoRef THEN Goal ELSE Run(c).draft.parent[r]
      /\ \A q \in Ref \ { r } : parent[q] = Run(c).parent[q]
  <2>1. NoRef \notin Run(c).tasks
    BY <1>3, PlanAssumption
  <2>2. Run(c).draft.parent[r] \in Run(c).tasks \cup { NoRef }
    BY <1>2 DEF NextItem
  <2> QED
    BY <1>3, <2>1, <2>2
<1>7. r \in Refs(Run(c).draft)
  BY <1>2 DEF NextItem
<1> HIDE DEF issues, tasks, parent, m
<1>8. /\ m.draft = Run(c).draft /\ m.via = Run(c).via /\ m.issues = issues /\ m.tasks = tasks
      /\ m.parent = parent /\ m.links = Run(c).links /\ m.edges = Run(c).edges
  <2>1. /\ Run(c) \in Materialization
        /\ mats'[mine[c]] = Grown(c, issues, tasks, parent, Run(c).links, Run(c).edges)
    BY <1>1, <1>5, RunType
  <2>2. /\ mats'[mine[c]].draft = Run(c).draft /\ mats'[mine[c]].via = Run(c).via
        /\ mats'[mine[c]].issues = issues /\ mats'[mine[c]].tasks = tasks
        /\ mats'[mine[c]].parent = parent
        /\ mats'[mine[c]].links = Run(c).links /\ mats'[mine[c]].edges = Run(c).edges
    BY <2>1 DEF Grown, Materialization
  <2> QED
    BY <2>2 DEF m
<1>9. \A q \in tasks \ { Goal } :
         parent[q] = IF Run(c).draft.parent[q] = NoRef THEN Goal ELSE Run(c).draft.parent[q]
  <2>1. \A q \in Run(c).tasks \ { Goal } :
          Run(c).parent[q] = IF Run(c).draft.parent[q] = NoRef THEN Goal ELSE Run(c).draft.parent[q]
    BY DEF Clean
  <2>2. \A q \in tasks \ { Goal } : q \in Ref /\ (q = r \/ q \in Run(c).tasks \ { Goal })
    BY <1>3 DEF tasks, Item
  <2> QED
    BY <1>6, <2>1, <2>2
<1>10. issues = IF Run(c).via = "beads" THEN tasks ELSE {}
  BY DEF issues, tasks, Tracked, Clean
<1>11. Goal \in tasks /\ tasks \subseteq Refs(Run(c).draft) \cup { Goal }
  BY <1>7 DEF tasks, Clean
<1>12. Clean(m)
  BY <1>8, <1>9, <1>10, <1>11 DEF Clean
<1> QED
  BY <1>12 DEF m

LEMMA CleanEdge ==
    ASSUME TypeInv, NEW c \in Creating, Clean(Run(c)), WireDependency(c)
    PROVE  Clean(mats'[mine[c]]) /\ mats'[mine[c]].tasks = Run(c).tasks
<1>1. at[c] \in { "create", "wire" } /\ c \in Conn
  BY DEF Creating
<1>2. PICK p \in Run(c).draft.deps :
             /\ ~ Cyclic(Run(c).edges \cup { p })
             /\ mats' = [mats EXCEPT ![mine[c]] =
                   Grown(c, Run(c).issues, Run(c).tasks, Run(c).parent,
                         Run(c).links \cup Tracked(c, { p }), Run(c).edges \cup { p })]
  BY <1>1, EdgeGrows
<1> DEFINE links == Run(c).links \cup Tracked(c, { p })
           edges == Run(c).edges \cup { p }
           m == mats'[mine[c]]
<1>4. mats' = [mats EXCEPT ![mine[c]] =
                 Grown(c, Run(c).issues, Run(c).tasks, Run(c).parent, links, edges)]
  BY <1>2
<1>5. links = (IF Run(c).via = "beads" THEN edges ELSE {}) /\ edges \subseteq Run(c).draft.deps
  BY <1>2 DEF Tracked, Clean
<1>6. ~ Cyclic(edges)
  BY <1>2
<1> HIDE DEF links, edges, m
<1>7. /\ m.draft = Run(c).draft /\ m.via = Run(c).via /\ m.issues = Run(c).issues
      /\ m.tasks = Run(c).tasks /\ m.parent = Run(c).parent
      /\ m.links = links /\ m.edges = edges
  <2>1. /\ Run(c) \in Materialization
        /\ mats'[mine[c]] = Grown(c, Run(c).issues, Run(c).tasks, Run(c).parent, links, edges)
    BY <1>1, <1>4, RunType
  <2>2. /\ mats'[mine[c]].draft = Run(c).draft /\ mats'[mine[c]].via = Run(c).via
        /\ mats'[mine[c]].issues = Run(c).issues /\ mats'[mine[c]].tasks = Run(c).tasks
        /\ mats'[mine[c]].parent = Run(c).parent
        /\ mats'[mine[c]].links = links /\ mats'[mine[c]].edges = edges
    BY <2>1 DEF Grown, Materialization
  <2> QED
    BY <2>2 DEF m
<1>8. Clean(m)
  BY <1>5, <1>6, <1>7 DEF Clean
<1> QED
  BY <1>7, <1>8 DEF m

\* A new run is clean, and nobody else's.
LEMMA RunBegins ==
    ASSUME TypeInv, RunInv, NEW c \in Conn, CreateGoal(c)
    PROVE  RunInv'
<1>1. PICK v \in Config \ { "refused" } : mats' = Append(mats,
           [draft |-> read[c].draft, via |-> v,
            issues |-> IF v = "beads" THEN { Goal } ELSE {}, tasks |-> { Goal },
            parent |-> [r \in Ref |-> NoRef], links |-> {}, edges |-> {}])
  BY DEF CreateGoal
<1> DEFINE m == [draft |-> read[c].draft, via |-> v,
            issues |-> IF v = "beads" THEN { Goal } ELSE {}, tasks |-> { Goal },
            parent |-> [r \in Ref |-> NoRef], links |-> {}, edges |-> {}]
<1>2. Clean(m)
  BY DEF Clean, Cyclic
<1>3. m.tasks = { Goal }
  OBVIOUS
<1>4. mats' = Append(mats, m)
  BY <1>1
<1> HIDE DEF m
<1>5. /\ Len(mats) \in Nat /\ DOMAIN mats = 1 .. Len(mats)
      /\ mats'[Len(mats) + 1] = m /\ mine'[c] = Len(mats) + 1
      /\ \A i \in DOMAIN mats : mats'[i] = mats[i]
  BY <1>4 DEF CreateGoal, TypeInv, TypeOK
<1>6. Creating' = Creating \cup { c } /\ c \notin Creating
  BY DEF Creating, CreateGoal, TypeInv, TypeOK
<1>7. \A k \in Creating : mine'[k] = mine[k] /\ mine[k] \in DOMAIN mats
  BY <1>6, RunType DEF Creating, CreateGoal, TypeInv, TypeOK
<1>8. done' = done /\ done \subseteq DOMAIN mats /\ Len(mats) + 1 \notin DOMAIN mats
  BY <1>5 DEF CreateGoal, TypeInv, TypeOK
<1>9. RunsClean'
  BY <1>2, <1>5, <1>6, <1>7, <1>8 DEF RunInv, RunsClean
<1>10. RunsOwned'
  BY <1>5, <1>6, <1>7, <1>8 DEF RunInv, RunsOwned
<1>11. WiredLast'
  <2>1. \A k \in Conn : at'[k] = "wire" => k \in Creating /\ at[k] = "wire"
    BY DEF CreateGoal, Creating, TypeInv, TypeOK
  <2> QED
    BY <1>5, <1>7, <2>1 DEF RunInv, WiredLast
<1>12. DoneComplete' /\ DoneNamed'
  BY <1>5, <1>8 DEF RunInv, DoneComplete, DoneNamed, CreateGoal
<1> QED
  BY <1>9, <1>10, <1>11, <1>12 DEF RunInv

\* A clean run whose tasks and edges are all there is complete.
LEMMA CleanComplete ==
    ASSUME TypeInv, NEW c \in Creating, Clean(Run(c)),
           Refs(Run(c).draft) \subseteq Run(c).tasks, Run(c).draft.deps \subseteq Run(c).edges
    PROVE  Complete(Run(c))
<1>1. Run(c).draft \in Draft
  BY RunParts DEF Creating
<1>2. Goal \notin Refs(Run(c).draft)
  BY <1>1, DraftParts, PlanAssumption
<1> QED
  BY <1>2 DEF Clean, Complete

LEMMA RunDone ==
    ASSUME TypeInv, RunInv, NEW c \in Conn, MaterializeDone(c)
    PROVE  RunInv'
<1>1. c \in Creating
  BY DEF Creating, MaterializeDone
<1>2. Complete(mats[mine[c]])
  BY <1>1, CleanComplete DEF RunInv, RunsClean, WiredLast, MaterializeDone, Run
<1>3. Creating' = Creating \ { c } /\ \A k \in Creating' : mine'[k] = mine[k]
  BY DEF Creating, MaterializeDone, End, TypeInv, TypeOK
<1>4. \A k \in Creating' : mine[k] # mine[c]
  BY <1>1, <1>3 DEF RunInv, RunsOwned
<1>5. mats' = mats /\ done' = done \cup { mine[c] }
  BY DEF MaterializeDone
<1>6. RunsClean' /\ RunsOwned'
  BY <1>3, <1>4, <1>5 DEF RunInv, RunsClean, RunsOwned
<1>7. WiredLast'
  <2>1. \A k \in Conn : at'[k] = "wire" => k \in Creating' /\ at[k] = "wire"
    BY DEF Creating, MaterializeDone, End, TypeInv, TypeOK
  <2> QED
    BY <1>3, <1>5, <2>1 DEF RunInv, WiredLast
<1>8. DoneComplete'
  BY <1>2, <1>5 DEF RunInv, DoneComplete
<1>9. DoneNamed'
  BY <1>5 DEF DoneNamed, MaterializeDone, TypeInv, TypeOK, Row
<1> QED
  BY <1>6, <1>7, <1>8, <1>9 DEF RunInv

LEMMA RunWorks ==
    ASSUME TypeInv, RunInv, NEW c \in Conn,
           CreateItem(c) \/ ItemsCreated(c) \/ WireDependency(c)
    PROVE  RunInv'
<1>a. c \in Creating
  BY DEF Creating, CreateItem, ItemsCreated, WireDependency
<1>b. Clean(Run(c))
  BY <1>a DEF RunInv, RunsClean, Run
<1>1. CASE CreateItem(c)
  <2>1. Clean(mats'[mine[c]]) /\ Touched(c)
    BY <1>a, <1>b, <1>1, CleanItem, StepTouches
  <2> QED
    BY <1>a, <1>1, <2>1, RunGoesOn DEF CreateItem, request
<1>2. CASE ItemsCreated(c)
  <2>1. Touched(c)
    BY <1>2, Unchanged_Touched DEF ItemsCreated
  <2>2. at' = [at EXCEPT ![c] = "wire"] /\ mine' = mine /\ mats' = mats
    BY <1>2 DEF ItemsCreated, GoOn
  <2>3. at'[c] = "wire" /\ \A k \in Conn \ { c } : at'[k] = at[k]
    BY <2>2 DEF TypeInv, TypeOK
  <2>4. /\ Refs(mats'[mine[c]].draft) \subseteq mats'[mine[c]].tasks
        /\ Clean(mats'[mine[c]])
    BY <1>b, <1>2, <2>2 DEF ItemsCreated, Run
  <2> QED
    BY <1>a, <1>2, <2>1, <2>2, <2>3, <2>4, RunGoesOn DEF ItemsCreated
<1>3. CASE WireDependency(c)
  <2>1. Clean(mats'[mine[c]]) /\ mats'[mine[c]].tasks = Run(c).tasks /\ Touched(c)
    BY <1>a, <1>b, <1>3, CleanEdge, StepTouches
  <2>2. mats'[mine[c]].draft = Run(c).draft
    BY <1>a, <2>1, RunType DEF Creating, Touched, Run
  <2>3. Refs(Run(c).draft) \subseteq Run(c).tasks
    BY <1>3 DEF RunInv, WiredLast, WireDependency, Run
  <2> QED
    BY <1>a, <1>3, <2>1, <2>2, <2>3, RunGoesOn DEF WireDependency, request
<1> QED
  BY <1>1, <1>2, <1>3

LEMMA RunGivenUp ==
    ASSUME TypeInv, RunInv, NEW c \in Conn,
           \/ MaterializeRefused(c) \/ ParentsRefused(c)
           \/ CycleRefused(c) \/ MaterializeFails(c)
    PROVE  RunInv'
<1>1. Touched(c)
  BY StepTouches, Unchanged_Touched DEF MaterializeRefused, ParentsRefused
<1>2. BackToApproved(c) /\ done' = done
  BY DEF MaterializeRefused, ParentsRefused, CycleRefused, MaterializeFails
<1>3. plan' = plan \/ plan'.status = "approved"
  BY <1>2 DEF BackToApproved, Forget, SetStatus, TypeInv, TypeOK, Row
<1>4. /\ at'[c] = "idle"
      /\ \A k \in Conn \ { c } : at'[k] = at[k] /\ mine'[k] = mine[k]
  BY <1>2 DEF BackToApproved, Forget, End, TypeInv, TypeOK
<1>5. CASE c \in Creating
  BY <1>1, <1>2, <1>3, <1>4, <1>5, RunLeft
<1>6. CASE c \notin Creating
  <2>1. mats' = mats
    BY <1>6 DEF Creating, MaterializeRefused, ParentsRefused, CycleRefused, MaterializeFails
  <2> QED
    BY <1>2, <1>3, <1>4, <2>1, RunsStay
<1> QED
  BY <1>5, <1>6

LEMMA RunNext ==
    ASSUME TypeInv, RunInv, NEW c \in Conn, Handler(c)
    PROVE  RunInv'
<1> USE DEF TypeInv, TypeOK, history, request
<1>1. CASE GroomBegin(c)
  BY <1>1, RunsStay DEF GroomBegin, BeginTurn, Begin
<1>2. CASE GroomAppend(c)
  BY <1>2, RunsStay DEF GroomAppend, GoOn, Row
<1>3. CASE GroomStatus(c)
  <2>1. plan'.status = "materialized" => plan.status = "materialized" /\ plan'.goal = plan.goal
    BY <1>3 DEF GroomStatus, UpdatePlan, Row
  <2> QED
    BY <1>3, <2>1, RunsStay DEF GroomStatus, GoOn
<1>4. CASE GroomAnswer(c)
  BY <1>4, RunsStay DEF GroomAnswer, End, Row
<1>5. CASE SessionCreate(c)
  BY <1>5, RunsStay DEF SessionCreate, TransitionPlanStatus, SetStatus, Row
<1>6. CASE SessionMessage(c)
  BY <1>6, RunsStay DEF SessionMessage, Row
<1>7. CASE InterviewBegin(c)
  BY <1>7, RunsStay DEF InterviewBegin, BeginTurn, Begin
<1>8. CASE InterviewWrite(c)
  <2>1. plan'.status = "needs_input"
    BY <1>8 DEF InterviewWrite, Row
  <2> QED
    BY <1>8, <2>1, RunsStay DEF InterviewWrite, End
<1>9. CASE DecomposeBegin(c)
  BY <1>9, RunsStay DEF DecomposeBegin, Begin
<1>10. CASE DecomposeWrite(c)
  <2>1. plan'.status = "decomposed"
    BY <1>10 DEF DecomposeWrite, Row
  <2> QED
    BY <1>10, <2>1, RunsStay DEF DecomposeWrite, End
<1>11. CASE ApproveBegin(c)
  BY <1>11, RunsStay DEF ApproveBegin, Begin
<1>12. CASE ApproveWrite(c)
  BY <1>12, RunsStay DEF ApproveWrite, SetStatus, End, Row
<1>13. CASE MaterializeBegin(c)
  BY <1>13, RunsStay DEF MaterializeBegin, Begin, TransitionPlanStatus, SetStatus, Row
<1>14. CASE MaterializeRead(c)
  BY <1>14, RunsStay DEF MaterializeRead
<1>15. CASE RequestLost(c)
  BY <1>15, RunsStay DEF RequestLost, End
<1>16. CASE ReadFails(c) \/ LastWriteFails(c)
  BY <1>16, RunsStay DEF ReadFails, LastWriteFails, Forget, End
<1> QED
  BY <1>1, <1>2, <1>3, <1>4, <1>5, <1>6, <1>7, <1>8, <1>9, <1>10, <1>11, <1>12,
     <1>13, <1>14, <1>15, <1>16, RunBegins, RunDone, RunWorks, RunGivenUp DEF Handler

\* A run that is reported as materialized has every task, issue, parent, edge
\* and link of its draft and no cycle, whatever other requests did meanwhile,
\* and a plan says materialized only when it names such a run.
THEOREM MaterializedIsComplete == Spec => []MaterializedComplete
<1>1. Init => RunInv
  BY DEF Init, NewPlan, RunInv, RunsClean, RunsOwned, WiredLast, DoneComplete,
     DoneNamed, Creating
<1>2. TypeInv /\ RunInv /\ [Next]_vars => RunInv'
  <2> SUFFICES ASSUME TypeInv, RunInv, [Next]_vars PROVE RunInv'
    OBVIOUS
  <2>1. CASE UNCHANGED vars
    BY <2>1 DEF vars, request, history, RunInv, RunsClean, RunsOwned, WiredLast,
       DoneComplete, DoneNamed, Creating
  <2> QED
    BY <2>1, RunNext DEF Next
<1>3. RunInv => MaterializedComplete
  BY DEF RunInv, DoneComplete, DoneNamed, Complete, MaterializedComplete
<1> QED
  BY <1>1, <1>2, <1>3, TypeInit, TypeNext, PTL DEF Spec

---------------------------------------------------------------------------
(* A task comes in a later batch than what it depends on.  computeBatches  *)
(* visits the tasks of the draft one after the other, as many times as     *)
(* there are tasks: one more task is settled by every pass, because an     *)
(* acyclic draft always has one whose dependencies all are.                *)

\* A set of numbers has a least one.
LEMMA LeastNumber ==
    ASSUME NEW T, T \subseteq Nat, T # {}
    PROVE  \E b \in T : \A c \in T : b <= c
<1>1. PICK b \in T : \A c \in T : ~ (<< c, b >> \in OpToRel(<, Nat))
  BY NatLessThanWellFounded, WFMin
<1>2. ASSUME NEW c \in T PROVE b <= c
  <2>1. ~ (c < b) /\ b \in Nat /\ c \in Nat
    BY <1>1 DEF OpToRel
  <2> QED
    BY <2>1
<1> QED
  BY <1>2

\* The k-th visit is to the task Slot(d, k), and gives it its batch.
Slot(d, k) == d.order[((k - 1) % Len(d.order)) + 1]
Visit(d, batch, k) == [batch EXCEPT ![Slot(d, k)] = Raised(d, batch, Slot(d, k))]

\* f: the batches after each of m visits.
Visits(d, m, f) ==
    f = [k \in 0 .. m |-> IF k = 0 THEN [t \in Refs(d) |-> 0] ELSE Visit(d, f[k - 1], k)]

LEMMA VisitsExist ==
    ASSUME NEW d
    PROVE  \A m \in Nat : \E f : Visits(d, m, f)
<1> DEFINE Without == { m \in Nat : ~ \E f : Visits(d, m, f) }
<1> SUFFICES ASSUME Without # {} PROVE FALSE
  OBVIOUS
<1>1. PICK m \in Without : \A c \in Without : m <= c
  BY LeastNumber
<1>2. CASE m = 0
  <2>1. Visits(d, 0, [k \in 0 .. 0 |-> [t \in Refs(d) |-> 0]])
    BY DEF Visits
  <2> QED
    BY <1>1, <1>2, <2>1
<1>3. CASE m # 0
  <2>1. m \in Nat /\ m - 1 \in Nat /\ m - 1 \notin Without
    BY <1>1, <1>3
  <2>2. PICK g : Visits(d, m - 1, g)
    BY <2>1
  <2> DEFINE f == [k \in 0 .. m |-> IF k = m THEN Visit(d, g[m - 1], m) ELSE g[k]]
             h == [k \in 0 .. m |-> IF k = 0 THEN [t \in Refs(d) |-> 0]
                                             ELSE Visit(d, f[k - 1], k)]
  <2>3. ASSUME NEW k \in 0 .. m PROVE f[k] = h[k]
    <3>1. CASE k = m
      <4>1. m - 1 \in 0 .. m /\ m - 1 # m
        BY <2>1
      <4>2. f[m - 1] = g[m - 1]
        BY <4>1
      <4> QED
        BY <1>3, <3>1, <4>2
    <3>2. CASE k # m
      <4>1. k \in 0 .. m - 1
        BY <2>1, <3>2
      <4>2. f[k] = g[k]
        BY <3>2
      <4>3. CASE k = 0
        BY <2>2, <4>1, <4>2, <4>3 DEF Visits
      <4>4. CASE k # 0
        <5>1. k - 1 \in 0 .. m /\ k - 1 # m
          BY <2>1, <4>1, <4>4
        <5>2. f[k - 1] = g[k - 1]
          BY <5>1
        <5>3. g[k] = Visit(d, g[k - 1], k)
          BY <2>2, <4>1, <4>4 DEF Visits
        <5> QED
          BY <4>2, <4>4, <5>2, <5>3
      <4> QED
        BY <4>3, <4>4
    <3> QED
      BY <3>1, <3>2
  <2>4. f = h
    BY <2>3
  <2>5. Visits(d, m, f)
    BY <2>4 DEF Visits
  <2> QED
    BY <1>1, <2>5
<1> QED
  BY <1>2, <1>3

LEMMA BatchesAreVisits ==
    ASSUME NEW d \in Draft, NEW n \in Nat, n = Len(d.order)
    PROVE  \E f : Visits(d, n * n, f) /\ computeBatches(d) = f[n * n]
<1> DEFINE P(f) == Visits(d, n * n, f)
<1>1. \E f : P(f)
  <2>1. n * n \in Nat
    OBVIOUS
  <2> QED
    BY <2>1, VisitsExist
<1>2. P(CHOOSE f : P(f))
  <2> HIDE DEF P
  <2> QED
    BY <1>1
<1>3. computeBatches(d) = (CHOOSE f : P(f))[n * n]
  BY DEF computeBatches, Visits, Visit, Slot
<1> QED
  BY <1>2, <1>3

\* The batches after k visits: none is above k, and a task that has been moved
\* up has a dependency that explains it, for batches never go down.
Sound(d, batch, k) ==
    /\ batch \in [Refs(d) -> 0 .. k]
    /\ \A t \in Refs(d) :
        batch[t] = 0 \/ \E u \in Refs(d) : << t, u >> \in d.deps /\ batch[t] <= batch[u] + 1

LEMMA RaisedIs ==
    ASSUME NEW d \in Draft, NEW k \in Nat, NEW batch, Sound(d, batch, k),
           NEW t \in Refs(d)
    PROVE  LET r == Raised(d, batch, t) IN
           /\ r \in 0 .. k + 1 /\ batch[t] <= r
           /\ \A u \in Refs(d) : << t, u >> \in d.deps => batch[u] + 1 <= r
           /\ r = batch[t] \/ \E u \in Refs(d) : << t, u >> \in d.deps /\ r = batch[u] + 1
<1> DEFINE above == { batch[u] + 1 : u \in { v \in Refs(d) : << t, v >> \in d.deps } }
                       \cup { batch[t] }
           Room == { k + 1 - a : a \in above }
<1>1. \A u \in Refs(d) : batch[u] \in 0 .. k
  BY DEF Sound
<1>2. above \subseteq 0 .. k + 1 /\ batch[t] \in above
  <2>1. \A u \in Refs(d) : batch[u] + 1 \in 0 .. k + 1 /\ batch[u] \in 0 .. k + 1
    BY <1>1
  <2> QED
    BY <2>1
<1>3. Room \subseteq Nat /\ Room # {}
  <2> HIDE DEF above
  <2>1. \A a \in above : k + 1 - a \in Nat
    <3> SUFFICES ASSUME NEW a \in 0 .. k + 1 PROVE k + 1 - a \in Nat
      BY <1>2
    <3> QED
      OBVIOUS
  <2> QED
    BY <1>2, <2>1
<1>4. PICK b \in Room : \A c \in Room : b <= c
  <2> HIDE DEF Room
  <2> QED
    BY <1>3, LeastNumber
<1>5. PICK m \in above : b = k + 1 - m
  <2> HIDE DEF above
  <2> QED
    BY <1>4
<1>6. ASSUME NEW n \in above PROVE n <= m
  <2>1. b <= k + 1 - n
    BY <1>4
  <2>2. n \in 0 .. k + 1 /\ m \in 0 .. k + 1
    BY <1>2
  <2> HIDE DEF above, Room
  <2> QED
    BY <1>5, <2>1, <2>2
<1> DEFINE Top(a) == a \in above /\ \A n \in above : n <= a
<1>7. Raised(d, batch, t) = CHOOSE a : Top(a)
  BY DEF Raised
<1>8. Top(m)
  BY <1>6
<1>9. Top(Raised(d, batch, t))
  <2> HIDE DEF Top
  <2> QED
    BY <1>7, <1>8
<1> QED
  BY <1>2, <1>9

LEMMA SlotType ==
    ASSUME NEW d \in Draft, NEW k \in Nat \ { 0 }
    PROVE  Slot(d, k) \in Refs(d)
<1> DEFINE n == Len(d.order)
<1>1. d.order \in Seq(Ref) /\ n \in Nat \ { 0 }
  BY DraftParts, PlanAssumption
<1>2. (k - 1) % n \in 0 .. n - 1
  <2> HIDE DEF n
  <2> QED
    BY <1>1
<1>3. ((k - 1) % n) + 1 \in DOMAIN d.order
  <2>1. DOMAIN d.order = 1 .. n
    BY <1>1
  <2> HIDE DEF n
  <2> QED
    BY <1>1, <1>2, <2>1
<1> QED
  BY <1>3 DEF Slot, Refs

\* A visit leaves the batches sound.
LEMMA VisitSound ==
    ASSUME NEW d \in Draft, NEW k \in Nat, NEW batch, Sound(d, batch, k)
    PROVE  Sound(d, Visit(d, batch, k + 1), k + 1)
<1> DEFINE s == Slot(d, k + 1)
           r == Raised(d, batch, s)
           next == Visit(d, batch, k + 1)
<1>1. s \in Refs(d)
  BY SlotType
<1>2. /\ r \in 0 .. k + 1 /\ batch[s] <= r
      /\ r = batch[s] \/ \E u \in Refs(d) : << s, u >> \in d.deps /\ r = batch[u] + 1
  <2> HIDE DEF s
  <2> QED
    BY <1>1, RaisedIs
<1>3. batch \in [Refs(d) -> 0 .. k]
  BY DEF Sound
<1>4. next = [batch EXCEPT ![s] = r]
  BY DEF Visit
<1> HIDE DEF s, r, next
<1>5. /\ next[s] = r /\ \A t \in Refs(d) : t # s => next[t] = batch[t]
      /\ next \in [Refs(d) -> 0 .. k + 1]
  BY <1>1, <1>2, <1>3, <1>4
<1>6. \A t \in Refs(d) : batch[t] \in Nat /\ next[t] \in Nat /\ batch[t] <= next[t]
  BY <1>2, <1>3, <1>5
<1>7. ASSUME NEW t \in Refs(d), next[t] # 0
      PROVE  \E u \in Refs(d) : << t, u >> \in d.deps /\ next[t] <= next[u] + 1
  <2>1. next[t] = batch[t] \/ \E u \in Refs(d) : << t, u >> \in d.deps /\ next[t] = batch[u] + 1
    BY <1>2, <1>5
  <2>2. \E u \in Refs(d) : << t, u >> \in d.deps /\ next[t] <= batch[u] + 1
    BY <1>6, <1>7, <2>1 DEF Sound
  <2> QED
    BY <1>6, <2>2
<1>8. Sound(d, next, k + 1)
  BY <1>5, <1>7 DEF Sound
<1> QED
  BY <1>8 DEF next

LEMMA VisitsStart ==
    ASSUME NEW d, NEW m \in Nat, NEW f, Visits(d, m, f)
    PROVE  f[0] = [t \in Refs(d) |-> 0]
BY DEF Visits

LEMMA VisitsStep ==
    ASSUME NEW d, NEW m \in Nat, NEW f, Visits(d, m, f), NEW k \in 0 .. m - 1
    PROVE  f[k + 1] = Visit(d, f[k], k + 1)
<1>1. k + 1 \in 0 .. m /\ k + 1 # 0 /\ (k + 1) - 1 = k
  OBVIOUS
<1>2. f[k + 1] = Visit(d, f[(k + 1) - 1], k + 1)
  BY <1>1 DEF Visits
<1> QED
  BY <1>1, <1>2

LEMMA VisitsSound ==
    ASSUME NEW d \in Draft, NEW m \in Nat, NEW f, Visits(d, m, f)
    PROVE  \A k \in 0 .. m : Sound(d, f[k], k)
<1> DEFINE Bad == { k \in 0 .. m : ~ Sound(d, f[k], k) }
<1> SUFFICES ASSUME Bad # {} PROVE FALSE
  OBVIOUS
<1>1. PICK k \in Bad : \A c \in Bad : k <= c
  <2>1. Bad \subseteq Nat
    OBVIOUS
  <2> HIDE DEF Bad
  <2> QED
    BY <2>1, LeastNumber
<1>2. CASE k = 0
  <2>1. f[0] = [t \in Refs(d) |-> 0]
    BY VisitsStart
  <2>2. Sound(d, f[0], 0)
    BY <2>1 DEF Sound
  <2> QED
    BY <1>1, <1>2, <2>2
<1>3. CASE k # 0
  <2>1. k - 1 \in 0 .. m - 1 /\ k - 1 \in 0 .. m /\ (k - 1) + 1 = k /\ ~ (k <= k - 1)
    BY <1>1, <1>3
  <2>2. Sound(d, f[k - 1], k - 1)
    BY <1>1, <2>1
  <2> DEFINE j == k - 1
  <2>3. f[j + 1] = Visit(d, f[j], j + 1)
    <3>1. j \in 0 .. m - 1
      BY <2>1
    <3> HIDE DEF j
    <3> QED
      BY <3>1, VisitsStep
  <2>4. Sound(d, Visit(d, f[k - 1], (k - 1) + 1), (k - 1) + 1)
    BY <2>1, <2>2, VisitSound
  <2> QED
    BY <1>1, <2>1, <2>3, <2>4
<1> QED
  BY <1>2, <1>3

\* The tasks of F have their final batches: nothing they depend on is missing
\* from F, and each is in the batch after the last one of what it depends on.
Settled(d, F, batch) ==
    /\ F \subseteq Refs(d)
    /\ \A t \in F :
        /\ \A u \in Refs(d) : << t, u >> \in d.deps => u \in F /\ batch[u] < batch[t]
        /\ batch[t] = 0 \/ \E u \in Refs(d) : << t, u >> \in d.deps /\ batch[t] = batch[u] + 1

\* What is settled stays as it is.
LEMMA VisitKeeps ==
    ASSUME NEW d \in Draft, NEW k \in Nat, NEW batch, Sound(d, batch, k),
           NEW F, Settled(d, F, batch)
    PROVE  Settled(d, F, Visit(d, batch, k + 1))
<1> DEFINE s == Slot(d, k + 1)
           r == Raised(d, batch, s)
           next == Visit(d, batch, k + 1)
<1>1. s \in Refs(d)
  BY SlotType
<1>2. /\ r \in 0 .. k + 1 /\ batch[s] <= r
      /\ r = batch[s] \/ \E u \in Refs(d) : << s, u >> \in d.deps /\ r = batch[u] + 1
  <2> HIDE DEF s
  <2> QED
    BY <1>1, RaisedIs
<1>3. batch \in [Refs(d) -> 0 .. k]
  BY DEF Sound
<1>4. next = [batch EXCEPT ![s] = r]
  BY DEF Visit
<1> HIDE DEF s, r, next
<1>5. next[s] = r /\ \A t \in Refs(d) : t # s => next[t] = batch[t]
  BY <1>1, <1>3, <1>4
<1>6. ASSUME s \in F PROVE r = batch[s]
  <2>1. \A u \in Refs(d) : << s, u >> \in d.deps => batch[u] + 1 <= batch[s]
    BY <1>1, <1>3, <1>6 DEF Settled
  <2>2. CASE r = batch[s]
    BY <2>2
  <2>3. ASSUME NEW u \in Refs(d), << s, u >> \in d.deps, r = batch[u] + 1
        PROVE  r = batch[s]
    <3>1. r \in Nat /\ batch[s] \in Nat /\ r <= batch[s] /\ batch[s] <= r
      BY <1>1, <1>2, <1>3, <2>1, <2>3
    <3> QED
      BY <3>1
  <2> QED
    BY <1>2, <2>2, <2>3
<1>7. \A t \in F : next[t] = batch[t]
  BY <1>5, <1>6 DEF Settled
<1>8. \A t \in F, u \in Refs(d) : << t, u >> \in d.deps => u \in F
  BY DEF Settled
<1>9. Settled(d, F, next)
  BY <1>7, <1>8 DEF Settled
<1> QED
  BY <1>9 DEF next

LEMMA SettledStays ==
    ASSUME NEW d \in Draft, NEW m \in Nat, NEW f, Visits(d, m, f),
           NEW k \in 0 .. m, NEW F, Settled(d, F, f[k])
    PROVE  \A l \in k .. m : Settled(d, F, f[l])
<1> DEFINE Bad == { l \in k .. m : ~ Settled(d, F, f[l]) }
<1> SUFFICES ASSUME Bad # {} PROVE FALSE
  OBVIOUS
<1>1. PICK l \in Bad : \A c \in Bad : l <= c
  <2>1. Bad \subseteq Nat
    OBVIOUS
  <2> HIDE DEF Bad
  <2> QED
    BY <2>1, LeastNumber
<1>2. l # k
  BY <1>1
<1>3. /\ l - 1 \in k .. m /\ l - 1 \in 0 .. m - 1 /\ l - 1 \in 0 .. m
      /\ (l - 1) + 1 = l /\ ~ (l <= l - 1)
  BY <1>1, <1>2
<1>4. Settled(d, F, f[l - 1])
  BY <1>1, <1>3
<1> DEFINE j == l - 1
<1>5. f[j + 1] = Visit(d, f[j], j + 1)
  <2>1. j \in 0 .. m - 1
    BY <1>3
  <2> HIDE DEF j, Bad
  <2> QED
    BY <2>1, VisitsStep
<1>6. Sound(d, f[l - 1], l - 1)
  BY <1>3, VisitsSound
<1>7. Settled(d, F, Visit(d, f[l - 1], (l - 1) + 1))
  BY <1>3, <1>4, <1>6, VisitKeeps
<1> QED
  BY <1>1, <1>3, <1>5, <1>7

\* A visit settles a task whose dependencies are settled.
LEMMA VisitSettles ==
    ASSUME NEW d \in Draft, NEW k \in Nat, NEW batch, Sound(d, batch, k),
           NEW F, Settled(d, F, batch), Slot(d, k + 1) \notin F,
           \A u \in Refs(d) : << Slot(d, k + 1), u >> \in d.deps => u \in F
    PROVE  Settled(d, F \cup { Slot(d, k + 1) }, Visit(d, batch, k + 1))
<1> DEFINE s == Slot(d, k + 1)
           r == Raised(d, batch, s)
           next == Visit(d, batch, k + 1)
<1>1. s \in Refs(d) /\ s \notin F
  BY SlotType
<1>2. /\ r \in 0 .. k + 1 /\ batch[s] <= r
      /\ \A u \in Refs(d) : << s, u >> \in d.deps => batch[u] + 1 <= r
      /\ r = batch[s] \/ \E u \in Refs(d) : << s, u >> \in d.deps /\ r = batch[u] + 1
  <2> HIDE DEF s
  <2> QED
    BY <1>1, RaisedIs
<1>3. batch \in [Refs(d) -> 0 .. k]
  BY DEF Sound
<1>4. next = [batch EXCEPT ![s] = r]
  BY DEF Visit
<1>5. \A u \in Refs(d) : << s, u >> \in d.deps => u \in F
  OBVIOUS
<1>6. batch[s] = 0 \/ \E u \in Refs(d) : << s, u >> \in d.deps /\ batch[s] <= batch[u] + 1
  BY <1>1 DEF Sound
<1>7. Settled(d, F, next)
  BY VisitKeeps
<1>8. ASSUME Settled(d, F \cup { s }, next)
      PROVE  Settled(d, F \cup { Slot(d, k + 1) }, Visit(d, batch, k + 1))
  BY <1>8
<1> HIDE DEF s, r, next
<1>9. next[s] = r /\ \A t \in F : next[t] = batch[t]
  BY <1>1, <1>3, <1>4 DEF Settled
<1>10. \A u \in Refs(d) : << s, u >> \in d.deps => u \in F /\ next[u] < r
  <2>1. \A u \in Refs(d) : batch[u] \in Nat
    BY <1>3
  <2> QED
    BY <1>2, <1>5, <1>9, <2>1
<1>11. r = 0 \/ \E u \in Refs(d) : << s, u >> \in d.deps /\ r = next[u] + 1
  <2>1. \A u \in Refs(d) : batch[u] \in Nat
    BY <1>3
  <2>2. r = 0 \/ \E u \in Refs(d) : << s, u >> \in d.deps /\ r = batch[u] + 1
    BY <1>1, <1>2, <1>6, <2>1
  <2> QED
    BY <1>5, <1>9, <2>2
<1>12. Settled(d, F \cup { s }, next)
  BY <1>1, <1>7, <1>9, <1>10, <1>11 DEF Settled
<1> QED
  BY <1>8, <1>12

\* In an acyclic draft whose refs are valid, a task remains that depends on
\* settled ones only.
LEMMA SomeTaskIsNext ==
    ASSUME NEW d \in Draft, ValidRefs(d), ~ Cyclic(d.deps),
           NEW F, F \subseteq Refs(d), F # Refs(d)
    PROVE  \E x \in Refs(d) \ F : \A u \in Refs(d) : << x, u >> \in d.deps => u \in F
<1> SUFFICES ASSUME \A x \in Refs(d) \ F : \E u \in Refs(d) \ F : << x, u >> \in d.deps
             PROVE  FALSE
  OBVIOUS
<1> DEFINE S == Refs(d) \ F
<1>1. S \in (SUBSET Ref) \ { {} }
  BY DraftParts
<1>2. \A x \in S : \E u \in S : << x, u >> \in d.deps
  OBVIOUS
<1> HIDE DEF S
<1> QED
  BY <1>1, <1>2 DEF Cyclic

\* The tasks of a draft are finitely many, and no more than its list is long.
LEMMA RefsCounted ==
    ASSUME NEW d \in Draft
    PROVE  /\ IsFiniteSet(Refs(d)) /\ Len(d.order) \in Nat \ { 0 }
           /\ Cardinality(Refs(d)) \in Nat /\ Cardinality(Refs(d)) <= Len(d.order)
<1> DEFINE n == Len(d.order)
<1>1. d.order \in Seq(Ref) /\ n \in Nat \ { 0 } /\ DOMAIN d.order = 1 .. n
  BY DraftParts, PlanAssumption
<1>2. d.order \in Surjection(1 .. n, Refs(d))
  <2>1. d.order \in [1 .. n -> Refs(d)]
    BY <1>1 DEF Refs
  <2>2. \A t \in Refs(d) : \E i \in 1 .. n : d.order[i] = t
    BY <1>1 DEF Refs
  <2> HIDE DEF n
  <2> QED
    BY <2>1, <2>2 DEF Surjection
<1>3. IsFiniteSet(1 .. n) /\ Cardinality(1 .. n) = n
  <2> HIDE DEF n
  <2> QED
    BY <1>1, FS_Interval
<1>4. IsFiniteSet(Refs(d)) /\ Cardinality(Refs(d)) <= n
  <2> HIDE DEF n
  <2> QED
    BY <1>2, <1>3, FS_Surjection
<1> QED
  BY <1>1, <1>4, FS_CardinalityType

\* Every pass over the tasks settles one more of them, as long as one is left.
Passed(d, p, batch) ==
    \E F \in SUBSET Refs(d) :
        Settled(d, F, batch) /\ (F = Refs(d) \/ Cardinality(F) >= p)

\* The pass after p passes visits the i-th task after n * p + (i - 1) visits.
LEMMA PassPositions ==
    ASSUME NEW n \in Nat \ { 0 }, NEW p \in 0 .. n - 1
    PROVE  /\ n * p \in 0 .. n * n /\ n * (p + 1) \in n * p .. n * n
           /\ \A i \in 1 .. n : LET k == n * p + (i - 1) IN
               /\ k \in Nat /\ k \in n * p .. n * n /\ k \in 0 .. n * n - 1
               /\ k \in 0 .. n * n
               /\ k + 1 \in 0 .. n * n /\ n * (p + 1) \in k + 1 .. n * n
               /\ (((k + 1) - 1) % n) + 1 = i
<1>1. /\ n * p \in Nat /\ n * (p + 1) \in Nat /\ n * n \in Nat
      /\ n * (p + 1) = n * p + n
  OBVIOUS
<1>2. n * (p + 1) <= n * n
  OBVIOUS
<1>3. ASSUME NEW i \in 1 .. n PROVE (n * p + (i - 1)) % n = i - 1
  <2>1. \A r \in 0 .. n - 1, q \in Nat : (q * n + r) % n = r
    OBVIOUS
  <2>2. i - 1 \in 0 .. n - 1 /\ p \in Nat /\ n * p = p * n
    OBVIOUS
  <2> QED
    BY <2>1, <2>2
<1>4. ASSUME NEW i \in 1 .. n
      PROVE  LET k == n * p + (i - 1) IN
             /\ k \in Nat /\ k \in n * p .. n * n /\ k \in 0 .. n * n - 1
             /\ k \in 0 .. n * n
             /\ k + 1 \in 0 .. n * n /\ n * (p + 1) \in k + 1 .. n * n
             /\ (((k + 1) - 1) % n) + 1 = i
  <2> DEFINE a == n * p
             b == n * (p + 1)
             c == n * n
  <2>1. /\ a \in Nat /\ b \in Nat /\ c \in Nat /\ b = a + n /\ b <= c
        /\ (a + (i - 1)) % n = i - 1
    BY <1>1, <1>2, <1>3
  <2> SUFFICES LET k == a + (i - 1) IN
               /\ k \in Nat /\ k \in a .. c /\ k \in 0 .. c - 1
               /\ k \in 0 .. c
               /\ k + 1 \in 0 .. c /\ b \in k + 1 .. c
               /\ (((k + 1) - 1) % n) + 1 = i
    OBVIOUS
  <2> HIDE DEF a, b, c
  <2>2. (a + (i - 1) + 1) - 1 = a + (i - 1)
    BY <2>1
  <2> QED
    BY <2>1, <2>2
<1> QED
  BY <1>1, <1>2, <1>4

LEMMA PassSettles ==
    ASSUME NEW d \in Draft, ValidRefs(d), ~ Cyclic(d.deps),
           NEW n \in Nat, n = Len(d.order),
           NEW f, Visits(d, n * n, f),
           NEW p \in 0 .. n - 1, Passed(d, p, f[n * p])
    PROVE  Passed(d, p + 1, f[n * (p + 1)])
<1>1. n \in Nat \ { 0 } /\ n * n \in Nat
  BY RefsCounted
<1>2. n * p \in 0 .. n * n /\ n * (p + 1) \in n * p .. n * n
  BY <1>1, PassPositions
<1>3. PICK F \in SUBSET Refs(d) :
          Settled(d, F, f[n * p]) /\ (F = Refs(d) \/ Cardinality(F) >= p)
  BY DEF Passed
<1>4. CASE F = Refs(d)
  <2>1. Settled(d, F, f[n * (p + 1)])
    BY <1>1, <1>2, <1>3, SettledStays
  <2> QED
    BY <1>4, <2>1 DEF Passed
<1>5. CASE F # Refs(d)
  <2>1. PICK x \in Refs(d) \ F : \A u \in Refs(d) : << x, u >> \in d.deps => u \in F
    BY <1>5, SomeTaskIsNext
  <2>2. PICK i \in 1 .. n : d.order[i] = x
    <3>1. DOMAIN d.order = 1 .. n
      BY DraftParts
    <3> QED
      BY <2>1, <3>1 DEF Refs
  <2> DEFINE k == n * p + (i - 1)
             G == F \cup { x }
  <2>3. /\ k \in Nat /\ k \in n * p .. n * n /\ k \in 0 .. n * n - 1 /\ k \in 0 .. n * n
        /\ k + 1 \in 0 .. n * n /\ n * (p + 1) \in k + 1 .. n * n
        /\ (((k + 1) - 1) % n) + 1 = i
    BY <1>1, <2>2, PassPositions
  <2>4. Slot(d, k + 1) = x
    <3> HIDE DEF k
    <3> QED
      BY <2>2, <2>3 DEF Slot
  <2> HIDE DEF k
  <2>5. Settled(d, F, f[k])
    BY <1>1, <1>2, <1>3, <2>3, SettledStays
  <2>6. Sound(d, f[k], k)
    BY <1>1, <2>3, VisitsSound
  <2>7. f[k + 1] = Visit(d, f[k], k + 1)
    <3> DEFINE m == n * n
    <3>1. m \in Nat /\ Visits(d, m, f) /\ k \in 0 .. m - 1
      BY <1>1, <2>3
    <3> HIDE DEF m
    <3> QED
      BY <3>1, VisitsStep
  <2>8. Settled(d, G, f[k + 1])
    BY <2>1, <2>3, <2>4, <2>5, <2>6, <2>7, VisitSettles
  <2>9. Settled(d, G, f[n * (p + 1)])
    <3> HIDE DEF G
    <3> QED
      BY <1>1, <2>3, <2>8, SettledStays
  <2>10. Cardinality(G) >= p + 1
    <3>1. IsFiniteSet(F) /\ Cardinality(F) \in Nat
      BY RefsCounted, FS_Subset, FS_CardinalityType
    <3>2. Cardinality(G) = Cardinality(F) + 1
      BY <2>1, <3>1, FS_AddElement
    <3> QED
      BY <1>3, <1>5, <3>1, <3>2
  <2>11. G \in SUBSET Refs(d)
    BY <2>1
  <2> HIDE DEF G
  <2> QED
    BY <2>9, <2>10, <2>11 DEF Passed
<1> QED
  BY <1>4, <1>5

LEMMA PassesSettle ==
    ASSUME NEW d \in Draft, ValidRefs(d), ~ Cyclic(d.deps),
           NEW n \in Nat, n = Len(d.order), NEW f, Visits(d, n * n, f)
    PROVE  \A p \in 0 .. n : Passed(d, p, f[n * p])
<1> DEFINE Bad == { p \in 0 .. n : ~ Passed(d, p, f[n * p]) }
<1> SUFFICES ASSUME Bad # {} PROVE FALSE
  OBVIOUS
<1>1. PICK p \in Bad : \A c \in Bad : p <= c
  <2>1. Bad \subseteq Nat
    OBVIOUS
  <2> HIDE DEF Bad
  <2> QED
    BY <2>1, LeastNumber
<1>2. CASE p = 0
  <2>1. Settled(d, {}, f[n * 0])
    BY DEF Settled
  <2>2. Cardinality({}) >= 0
    BY FS_EmptySet
  <2>3. Passed(d, 0, f[n * 0])
    BY <2>1, <2>2 DEF Passed
  <2> QED
    BY <1>1, <1>2, <2>3
<1>3. CASE p # 0
  <2> DEFINE q == p - 1
  <2>1. q \in 0 .. n - 1 /\ q \in 0 .. n /\ ~ (p <= q) /\ q + 1 = p
    BY <1>1, <1>3
  <2> HIDE DEF q
  <2>2. Passed(d, q, f[n * q])
    BY <1>1, <2>1
  <2> HIDE DEF Bad
  <2>3. Passed(d, q + 1, f[n * (q + 1)])
    BY <2>1, <2>2, PassSettles
  <2> USE DEF Bad
  <2> QED
    BY <1>1, <2>1, <2>3
<1> QED
  BY <1>2, <1>3

\* computeBatches, for every draft: after as many passes as there are tasks
\* all of them are settled.
LEMMA BatchesSettled ==
    ASSUME NEW d \in Draft, ValidRefs(d), ~ Cyclic(d.deps)
    PROVE  /\ computeBatches(d) \in [Refs(d) -> Nat]
           /\ Settled(d, Refs(d), computeBatches(d))
<1> DEFINE n == Len(d.order)
<1>1. n \in Nat /\ n * n \in Nat /\ n * n \in 0 .. n * n /\ n \in 0 .. n
  BY RefsCounted
<1>2. PICK f : Visits(d, n * n, f) /\ computeBatches(d) = f[n * n]
  BY <1>1, BatchesAreVisits
<1>3. Passed(d, n, f[n * n])
  BY <1>1, <1>2, PassesSettle
<1>4. PICK F \in SUBSET Refs(d) :
          Settled(d, F, f[n * n]) /\ (F = Refs(d) \/ Cardinality(F) >= n)
  BY <1>3 DEF Passed
<1>5. F = Refs(d)
  <2>1. /\ IsFiniteSet(Refs(d)) /\ Cardinality(Refs(d)) \in Nat
        /\ Cardinality(Refs(d)) <= n
    BY RefsCounted
  <2>2. IsFiniteSet(F) /\ Cardinality(F) <= Cardinality(Refs(d))
    BY <2>1, FS_Subset
  <2>3. Cardinality(F) \in Nat
    BY <2>2, FS_CardinalityType
  <2>4. CASE Cardinality(F) >= n
    <3>1. Cardinality(F) = Cardinality(Refs(d))
      <4> HIDE DEF n
      <4> QED
        BY <1>1, <2>1, <2>2, <2>3, <2>4
    <3> QED
      BY <2>1, <3>1, FS_Subset
  <2> QED
    BY <1>4, <2>4
<1>6. Sound(d, f[n * n], n * n)
  BY <1>1, <1>2, VisitsSound
<1> QED
  BY <1>2, <1>4, <1>5, <1>6 DEF Sound

\* In an acyclic draft with valid refs a task is in a later batch than all it
\* depends on, and no batch before it is empty, whatever the model has listed
\* in whatever order (computeBatches).
THEOREM BatchesInOrder == Spec => []BatchOrder
<1>1. ASSUME TypeOK PROVE BatchOrder
  <2> DEFINE d == plan.draft
             batch == computeBatches(d)
  <2> SUFFICES ASSUME d # NoRef, ValidRefs(d), ~ Cyclic(d.deps), NEW t \in Refs(d)
               PROVE  /\ \A u \in Ref : << t, u >> \in d.deps => batch[u] < batch[t]
                      /\ batch[t] > 0 => \E u \in Refs(d) : batch[u] = batch[t] - 1
    BY DEF BatchOrder
  <2>1. d \in Draft
    BY <1>1 DEF TypeOK, Row
  <2> HIDE DEF d
  <2>2. batch \in [Refs(d) -> Nat] /\ Settled(d, Refs(d), batch)
    BY <2>1, BatchesSettled
  <2> HIDE DEF batch
  <2>3. \A u \in Ref : << t, u >> \in d.deps => u \in Refs(d)
    BY DEF ValidRefs
  <2>4. \A u \in Ref : << t, u >> \in d.deps => batch[u] < batch[t]
    BY <2>2, <2>3 DEF Settled
  <2>5. ASSUME batch[t] > 0 PROVE \E u \in Refs(d) : batch[u] = batch[t] - 1
    <3>1. batch[t] \in Nat /\ batch[t] # 0
      BY <2>2, <2>5
    <3>2. PICK u \in Refs(d) : batch[t] = batch[u] + 1
      BY <2>2, <3>1 DEF Settled
    <3>3. batch[u] \in Nat
      BY <2>2
    <3> QED
      BY <3>2, <3>3
  <2> QED
    BY <2>4, <2>5
<1> QED
  BY <1>1, TypeCorrect, PTL
=============================================================================
