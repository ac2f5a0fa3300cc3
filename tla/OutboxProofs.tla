---------------------------- MODULE OutboxProofs ----------------------------
(***************************************************************************)
(* Proofs about Outbox, for every set of tasks and workers, every batch    *)
(* size, number of attempts, selection of faults and bound.                *)
(***************************************************************************)
EXTENDS Outbox, WellFoundedInduction, TLAPS

USE DEF outbox, task, worker, Key

---------------------------------------------------------------------------
(* Type correctness.                                                       *)

\* What the types rest on: a worker has a batch exactly when it delivers one.
BatchPhase == \A w \in Worker : batch[w] = {} <=> phase[w] \in { "idle", "scan" }

TypeInv == TypeOK /\ BatchPhase

LEMMA TypeInit == Init => TypeInv
BY DEF Init, TypeInv, TypeOK, BatchPhase, State, IssueStatus, Result, WorkerPhase

LEMMA KeyParts == \A k \in Key : k[1] \in Task
OBVIOUS

\* A batch has a first row.
LEMMA CurrentInBatch ==
    ASSUME TypeInv, NEW w \in Worker, batch[w] # {}
    PROVE  /\ current(w) \in batch[w] /\ current(w) \in Key /\ current(w)[1] \in Task
           /\ \A j \in batch[w] : id[current(w)] <= id[j]
<1> DEFINE I == { id[k] : k \in batch[w] }
           R == OpToRel(<, Nat)
<1>1. batch[w] \subseteq Key /\ \A k \in batch[w] : id[k] \in Nat
  BY DEF TypeInv, TypeOK
<1>2. I \subseteq Nat /\ I # {}
  BY <1>1
<1>3. PICK i \in I : \A j \in I : ~ (<< j, i >> \in R)
  <2> HIDE DEF I, R
  <2>1. IsWellFoundedOn(R, Nat)
    BY NatLessThanWellFounded DEF R
  <2> QED
    BY <1>2, <2>1, WFMin
<1>4. \A j \in I : i <= j
  <2> SUFFICES ASSUME NEW j \in I, ~ (i <= j) PROVE FALSE
    OBVIOUS
  <2>1. i \in Nat /\ j \in Nat /\ j < i
    BY <1>2
  <2>2. << j, i >> \in R
    BY <2>1 DEF OpToRel
  <2> QED
    BY <2>2, <1>3
<1>5. \E k \in batch[w] : \A j \in batch[w] : id[k] <= id[j]
  BY <1>3, <1>4
<1>6. current(w) \in batch[w] /\ \A j \in batch[w] : id[current(w)] <= id[j]
  BY <1>5 DEF current
<1> QED
  BY <1>1, <1>6, KeyParts

\* An event that is enqueued.
LEMMA TypeEnqueue ==
    ASSUME TypeInv, NEW k \in Key, NEW to \in IssueStatus, EnqueueBeadsOutbox(k, to)
    PROVE  /\ state' \in [Key -> State] /\ attempts' = attempts
           /\ target' \in [Key -> IssueStatus] /\ id' \in [Key -> Nat] /\ lastId' \in Nat
           /\ \A j \in Key : state[j] # "absent" =>
                /\ state'[j] = state[j] /\ target'[j] = target[j] /\ id'[j] = id[j]
           /\ \A j \in Key : state[j] = "absent" => state'[j] \in { "absent", "pending" }
           /\ \A j \in Key : state'[j] # state[j] => j = k
BY DEF EnqueueBeadsOutbox, TypeInv, TypeOK, State

\* What the tasks do to the outbox: at most one row comes, as pending.
Enqueued ==
    /\ state' \in [Key -> State] /\ attempts' = attempts
    /\ target' \in [Key -> IssueStatus] /\ id' \in [Key -> Nat] /\ lastId' \in Nat
    /\ \A j \in Key : state[j] # "absent" =>
         /\ state'[j] = state[j] /\ target'[j] = target[j] /\ id'[j] = id[j]
    /\ \A j \in Key : state[j] = "absent" => state'[j] \in { "absent", "pending" }
    /\ \A i, j \in Key : state'[i] # state[i] /\ state'[j] # state[j] => i = j

LEMMA NothingEnqueued ==
    ASSUME TypeInv, UNCHANGED outbox
    PROVE  Enqueued
BY DEF Enqueued, TypeInv, TypeOK

LEMMA TaskSteps ==
    ASSUME TypeInv, NEW t \in Task, TaskStep(t)
    PROVE  /\ Enqueued
           /\ running' \in SUBSET Task /\ startDue' \in SUBSET Task
           /\ outcome' \in [Task -> IssueStatus] /\ runs' \in [Task -> Nat]
           /\ UNCHANGED << issue, worker, peak, abandoned >>
<1>1. ASSUME NEW k \in Key, NEW to \in IssueStatus, EnqueueBeadsOutbox(k, to)
      PROVE  Enqueued
  BY <1>1, TypeEnqueue DEF Enqueued
<1>2. ASSUME NEW to \in { "done", "blocked" }, EnqueueTaskTerminal(t, to)
      PROVE  Enqueued /\ outcome' \in [Task -> IssueStatus]
  <2>1. << t, "task_terminal" >> \in Key /\ to \in IssueStatus
    BY DEF EventType, IssueStatus
  <2>2. Enqueued
    BY <1>1, <1>2, <2>1, NothingEnqueued DEF EnqueueTaskTerminal
  <2> QED
    BY <1>2, <2>1, <2>2 DEF EnqueueTaskTerminal, TypeInv, TypeOK
<1>3. CASE TaskRuns(t)
  <2>1. runs' \in [Task -> Nat]
    BY <1>3 DEF TaskRuns, TypeInv, TypeOK
  <2> QED
    BY <1>3, <2>1, NothingEnqueued DEF TaskRuns, TypeInv, TypeOK
<1>4. CASE EnqueueTaskStarted(t)
  <2>1. << t, "task_started" >> \in Key /\ "in_progress" \in IssueStatus
    BY DEF EventType, IssueStatus
  <2>2. Enqueued
    BY <1>1, <1>4, <2>1, NothingEnqueued DEF EnqueueTaskStarted
  <2> QED
    BY <1>4, <2>2 DEF EnqueueTaskStarted, TypeInv, TypeOK
<1>5. CASE TaskCloses(t)
  <2>1. Enqueued /\ outcome' \in [Task -> IssueStatus]
    BY <1>2, <1>5, NothingEnqueued DEF TaskCloses, TypeInv, TypeOK
  <2> QED
    BY <1>5, <2>1 DEF TaskCloses, TypeInv, TypeOK
<1>6. CASE MergedTaskCompletes(t)
  BY <1>2, <1>6 DEF MergedTaskCompletes, TypeInv, TypeOK
<1> QED
  BY <1>3, <1>4, <1>5, <1>6 DEF TaskStep

LEMMA TypeScan ==
    ASSUME TypeInv, NEW w \in Worker,
           \/ ScanProject(w) \/ \E t \in Task : unblockStaleBlockedIssues(w, t)
           \/ ClaimFails(w)
    PROVE  TypeInv'
<1> USE DEF TypeInv, TypeOK, BatchPhase, WorkerPhase
<1>1. CASE ScanProject(w)
  <2>1. listed' \in [Worker -> SUBSET Task]
    BY <1>1 DEF ScanProject
  <2>2. phase' \in [Worker -> WorkerPhase] /\ BatchPhase'
    BY <1>1 DEF ScanProject
  <2> QED
    BY <1>1, <2>1, <2>2 DEF ScanProject
<1>2. ASSUME NEW t \in Task, unblockStaleBlockedIssues(w, t) PROVE TypeInv'
  <2>1. issue' \in [Task -> IssueStatus]
    BY <1>2 DEF unblockStaleBlockedIssues, IssueStatus
  <2>2. listed' \in [Worker -> SUBSET Task]
    BY <1>2 DEF unblockStaleBlockedIssues
  <2>3. phase' \in [Worker -> WorkerPhase] /\ BatchPhase'
    BY <1>2 DEF unblockStaleBlockedIssues
  <2> QED
    BY <1>2, <2>1, <2>2, <2>3 DEF unblockStaleBlockedIssues
<1>3. CASE ClaimFails(w)
  BY <1>3 DEF ClaimFails
<1> QED
  BY <1>1, <1>2, <1>3

\* A claim takes rows that are pending, and gives them to the worker alone.
LEMMA ClaimFacts ==
    ASSUME TypeInv, NEW w \in Worker, ClaimBeadsOutboxBatch(w)
    PROVE  \E rows \in SUBSET Key :
             /\ \A k \in rows : state[k] = "pending"
             /\ state' = [k \in Key |-> IF k \in rows THEN "inflight" ELSE state[k]]
             /\ batch' = [batch EXCEPT ![w] = rows]
             /\ phase' = [phase EXCEPT ![w] = IF rows = {} THEN "idle" ELSE "show"]
             /\ phase[w] = "scan"
<1>1. PICK due \in SUBSET { k \in Key : attempts[k] > 0 } :
      \E rows \in SUBSET claimable(due) :
         /\ state' = [k \in Key |-> IF k \in rows THEN "inflight" ELSE state[k]]
         /\ batch' = [batch EXCEPT ![w] = rows]
         /\ phase' = [phase EXCEPT ![w] = IF rows = {} THEN "idle" ELSE "show"]
  BY DEF ClaimBeadsOutboxBatch
<1>2. claimable(due) \subseteq Key /\ \A k \in claimable(due) : state[k] = "pending"
  BY DEF claimable
<1> QED
  BY <1>1, <1>2 DEF ClaimBeadsOutboxBatch

LEMMA TypeClaim ==
    ASSUME TypeInv, NEW w \in Worker, ClaimBeadsOutboxBatch(w)
    PROVE  TypeInv'
<1>1. PICK rows \in SUBSET Key :
             /\ state' = [k \in Key |-> IF k \in rows THEN "inflight" ELSE state[k]]
             /\ batch' = [batch EXCEPT ![w] = rows]
             /\ phase' = [phase EXCEPT ![w] = IF rows = {} THEN "idle" ELSE "show"]
  BY ClaimFacts
<1>2. state' \in [Key -> State] /\ batch' \in [Worker -> SUBSET Key]
  BY <1>1 DEF TypeInv, TypeOK, State
<1>3. phase' \in [Worker -> WorkerPhase] /\ BatchPhase'
  BY <1>1 DEF TypeInv, TypeOK, BatchPhase, WorkerPhase
<1> QED
  BY <1>2, <1>3 DEF TypeInv, TypeOK, ClaimBeadsOutboxBatch

LEMMA RankType == \A s : statusRank(s) \in 0 .. 3
BY DEF statusRank

LEMMA TypeDeliver ==
    ASSUME TypeInv, NEW w \in Worker, ShowIssue(w) \/ UpdateIssue(w) \/ MarkRow(w)
    PROVE  TypeInv'
<1>1. CASE ShowIssue(w)
  BY <1>1 DEF ShowIssue, TypeInv, TypeOK, BatchPhase, WorkerPhase, Result
<1>2. CASE UpdateIssue(w)
  <2>1. current(w) \in Key /\ current(w)[1] \in Task
    BY <1>2, CurrentInBatch DEF UpdateIssue, TypeInv, BatchPhase
  <2>2. issue' \in [Task -> IssueStatus]
    BY <1>2, <2>1 DEF UpdateIssue, TypeInv, TypeOK
  <2>3. peak' \in [Task -> 0 .. 3]
    BY <1>2, <2>1, RankType DEF UpdateIssue, TypeInv, TypeOK
  <2>4. result' \in [Worker -> Result]
    BY <1>2 DEF UpdateIssue, TypeInv, TypeOK, Result
  <2>5. phase' \in [Worker -> WorkerPhase] /\ BatchPhase'
    BY <1>2 DEF UpdateIssue, TypeInv, TypeOK, BatchPhase, WorkerPhase
  <2> QED
    BY <1>2, <2>2, <2>3, <2>4, <2>5 DEF UpdateIssue, TypeInv, TypeOK
<1>3. CASE MarkRow(w)
  <2>1. current(w) \in Key
    BY <1>3, CurrentInBatch DEF MarkRow, TypeInv, BatchPhase
  <2>2. settled(w, current(w)) \in State
    BY DEF settled, State
  <2>3. state' \in [Key -> State] /\ attempts' \in [Key -> Nat]
    BY <1>3, <2>1, <2>2 DEF MarkRow, TypeInv, TypeOK
  <2>4. batch' \in [Worker -> SUBSET Key] /\ result' \in [Worker -> Result]
    BY <1>3 DEF MarkRow, TypeInv, TypeOK, Result
  <2>5. phase' \in [Worker -> WorkerPhase] /\ BatchPhase'
    BY <1>3 DEF MarkRow, TypeInv, TypeOK, BatchPhase, WorkerPhase
  <2> QED
    BY <1>3, <2>3, <2>4, <2>5 DEF MarkRow, TypeInv, TypeOK
<1> QED
  BY <1>1, <1>2, <1>3

LEMMA TypeAbandon ==
    ASSUME TypeInv, NEW w \in Worker, abandon(w)
    PROVE  TypeInv'
BY DEF abandon, TypeInv, TypeOK, BatchPhase, WorkerPhase, Result

LEMMA TypeNext == TypeInv /\ [Next]_vars => TypeInv'
<1> SUFFICES ASSUME TypeInv, [Next]_vars PROVE TypeInv'
  OBVIOUS
<1>1. CASE UNCHANGED vars
  BY <1>1 DEF vars, TypeInv, TypeOK, BatchPhase
<1>2. ASSUME NEW t \in Task, TaskStep(t) PROVE TypeInv'
  <2>1. /\ state' \in [Key -> State] /\ attempts' = attempts
        /\ target' \in [Key -> IssueStatus] /\ id' \in [Key -> Nat] /\ lastId' \in Nat
        /\ running' \in SUBSET Task /\ startDue' \in SUBSET Task
        /\ outcome' \in [Task -> IssueStatus] /\ runs' \in [Task -> Nat]
        /\ UNCHANGED << issue, worker, peak, abandoned >>
    BY <1>2, TaskSteps DEF Enqueued
  <2> QED
    BY <2>1 DEF TypeInv, TypeOK, BatchPhase
<1>3. ASSUME NEW w \in Worker, WorkerStep(w) PROVE TypeInv'
  BY <1>3, TypeScan, TypeClaim, TypeDeliver DEF WorkerStep
<1>4. ASSUME NEW w \in Worker, MarkFails(w) \/ WorkerDies(w) PROVE TypeInv'
  BY <1>4, TypeAbandon DEF MarkFails, WorkerDies
<1> QED
  BY <1>1, <1>2, <1>3, <1>4 DEF Next

\* Every variable keeps its type: a row's state is one the schema knows, and a
\* worker that delivers has a row to deliver.
THEOREM TypeCorrect == Spec => []TypeOK
<1>1. TypeInv => TypeOK
  BY DEF TypeInv
<1> QED
  BY <1>1, TypeInit, TypeNext, PTL DEF Spec

---------------------------------------------------------------------------
(* A row has one worker.                                                   *)

\* The part of InflightOwned that is inductive together with the other one.
LEMMA OwnedInit == Init => InflightOwned
BY DEF Init, InflightOwned

\* Steps that touch no row but may enqueue one, and no batch.
LEMMA OwnedKept ==
    ASSUME TypeInv, InflightOwned, Enqueued, UNCHANGED << batch, abandoned >>
    PROVE  InflightOwned'
<1>1. \A k \in Key : state'[k] = "inflight" <=> state[k] = "inflight"
  BY DEF Enqueued
<1> QED
  BY <1>1 DEF InflightOwned

LEMMA OwnedClaim ==
    ASSUME TypeInv, InflightOwned, NEW w \in Worker, ClaimBeadsOutboxBatch(w)
    PROVE  InflightOwned'
<1>1. PICK rows \in SUBSET Key :
             /\ \A k \in rows : state[k] = "pending"
             /\ state' = [k \in Key |-> IF k \in rows THEN "inflight" ELSE state[k]]
             /\ batch' = [batch EXCEPT ![w] = rows]
             /\ phase[w] = "scan"
  BY ClaimFacts
<1>2. batch[w] = {}
  BY <1>1 DEF TypeInv, BatchPhase
<1>3. batch'[w] = rows /\ \A v \in Worker \ { w } : batch'[v] = batch[v]
  BY <1>1 DEF TypeInv, TypeOK
<1>4. \A v \in Worker : \A k \in batch[v] : k \in Key /\ k \notin rows
  BY <1>1 DEF InflightOwned, TypeInv, TypeOK
<1>5. \A k \in Key : k \notin rows => state'[k] = state[k]
  BY <1>1
<1>6. \A k \in rows : state'[k] = "inflight"
  BY <1>1
<1>7. abandoned' = abandoned
  BY DEF ClaimBeadsOutboxBatch
<1> SUFFICES ASSUME NEW k \in Key
             PROVE  /\ (state'[k] = "inflight" /\ abandoned = 0)
                          => \E v \in Worker : k \in batch'[v]
                    /\ \A u \in Worker : k \in batch'[u] =>
                          /\ state'[k] = "inflight"
                          /\ \A v \in Worker \ { u } : k \notin batch'[v]
  BY <1>7 DEF InflightOwned
<1>8. CASE k \in rows
  BY <1>3, <1>4, <1>6, <1>8
<1>9. CASE k \notin rows
  BY <1>2, <1>3, <1>5, <1>9 DEF InflightOwned
<1> QED
  BY <1>8, <1>9

LEMMA OwnedMark ==
    ASSUME TypeInv, InflightOwned, NEW w \in Worker, MarkRow(w)
    PROVE  InflightOwned'
<1> DEFINE k == current(w)
<1>1. k \in batch[w] /\ k \in Key
  BY CurrentInBatch DEF MarkRow, TypeInv, BatchPhase
<1>2. /\ state' = [state EXCEPT ![k] = settled(w, k)]
      /\ batch' = [batch EXCEPT ![w] = @ \ { k }]
      /\ abandoned' = abandoned
  BY DEF MarkRow
<1>3. settled(w, k) # "inflight"
  BY DEF settled
<1> HIDE DEF k
<1>4. state'[k] # "inflight" /\ \A j \in Key \ { k } : state'[j] = state[j]
  BY <1>1, <1>2, <1>3 DEF TypeInv, TypeOK
<1>5. batch'[w] = batch[w] \ { k } /\ \A v \in Worker \ { w } : batch'[v] = batch[v]
  BY <1>2 DEF TypeInv, TypeOK
<1>6. \A v \in Worker : k \notin batch'[v]
  BY <1>1, <1>5 DEF InflightOwned
<1> SUFFICES ASSUME NEW j \in Key \ { k }
             PROVE  /\ (state'[j] = "inflight" /\ abandoned = 0)
                          => \E v \in Worker : j \in batch'[v]
                    /\ \A u \in Worker : j \in batch'[u] =>
                          /\ state'[j] = "inflight"
                          /\ \A v \in Worker \ { u } : j \notin batch'[v]
  BY <1>2, <1>4, <1>6 DEF InflightOwned
<1>7. \A v \in Worker : j \in batch'[v] <=> j \in batch[v]
  BY <1>5
<1> QED
  BY <1>4, <1>7 DEF InflightOwned

LEMMA OwnedAbandon ==
    ASSUME TypeInv, InflightOwned, NEW w \in Worker, abandon(w)
    PROVE  InflightOwned'
<1>1. abandoned' > 0 /\ state' = state
  BY DEF abandon, TypeInv, TypeOK
<1>2. \A v \in Worker : batch'[v] \subseteq batch[v]
  BY DEF abandon, TypeInv, TypeOK
<1> QED
  BY <1>1, <1>2 DEF InflightOwned

LEMMA OwnedNext == TypeInv /\ InflightOwned /\ [Next]_vars => InflightOwned'
<1> SUFFICES ASSUME TypeInv, InflightOwned, [Next]_vars PROVE InflightOwned'
  OBVIOUS
<1>1. CASE UNCHANGED vars
  BY <1>1 DEF vars, InflightOwned
<1>2. ASSUME NEW t \in Task, TaskStep(t) PROVE InflightOwned'
  BY <1>2, TaskSteps, OwnedKept
<1>3. ASSUME NEW w \in Worker, WorkerStep(w) PROVE InflightOwned'
  <2>1. CASE ClaimBeadsOutboxBatch(w)
    BY <2>1, OwnedClaim
  <2>2. CASE MarkRow(w)
    BY <2>2, OwnedMark
  <2>3. CASE \/ ScanProject(w) \/ \E t \in Task : unblockStaleBlockedIssues(w, t)
             \/ ClaimFails(w) \/ ShowIssue(w) \/ UpdateIssue(w)
    <3>1. UNCHANGED << outbox, batch, abandoned >>
      BY <2>3 DEF ScanProject, unblockStaleBlockedIssues, ClaimFails, ShowIssue, UpdateIssue
    <3> QED
      BY <3>1, NothingEnqueued, OwnedKept
  <2> QED
    BY <1>3, <2>1, <2>2, <2>3 DEF WorkerStep
<1>4. ASSUME NEW w \in Worker, MarkFails(w) \/ WorkerDies(w) PROVE InflightOwned'
  BY <1>4, OwnedAbandon DEF MarkFails, WorkerDies
<1> QED
  BY <1>1, <1>2, <1>3, <1>4 DEF Next

\* However many workers overlap, no row is in two batches, a row in a batch is
\* inflight, and an inflight row has a worker until a batch is abandoned.
THEOREM InflightOwnedHolds == Spec => []InflightOwned
BY TypeInit, TypeNext, OwnedInit, OwnedNext, PTL DEF Spec

---------------------------------------------------------------------------
(* Attempts.                                                               *)

LEMMA AttemptsInit == Init => AttemptsBounded
BY BoundAssumption DEF Init, AttemptsBounded

LEMMA AttemptsKept ==
    ASSUME TypeInv, AttemptsBounded, attempts' = attempts,
           \A k \in Key : state'[k] = "dead_letter" <=> state[k] = "dead_letter"
    PROVE  AttemptsBounded'
BY DEF AttemptsBounded

LEMMA AttemptsMark ==
    ASSUME TypeInv, InflightOwned, AttemptsBounded, NEW w \in Worker, MarkRow(w)
    PROVE  AttemptsBounded'
<1> DEFINE k == current(w)
<1>1. k \in batch[w] /\ k \in Key
  BY CurrentInBatch DEF MarkRow, TypeInv, BatchPhase
<1>2. /\ state' = [state EXCEPT ![k] = settled(w, k)]
      /\ attempts' = IF result[w] = "error" THEN [attempts EXCEPT ![k] = @ + 1] ELSE attempts
  BY DEF MarkRow
<1>3. settled(w, k) = "dead_letter" <=> result[w] = "error" /\ attempts[k] + 1 >= MaxAttempts
  BY DEF settled, exhausted
<1> HIDE DEF k
<1>4. attempts[k] \in Nat /\ attempts[k] <= MaxAttempts /\ attempts[k] # MaxAttempts
  <2>1. state[k] = "inflight"
    BY <1>1 DEF InflightOwned
  <2> QED
    BY <1>1, <2>1 DEF AttemptsBounded, TypeInv, TypeOK
<1>5. /\ state'[k] = settled(w, k)
      /\ attempts'[k] = IF result[w] = "error" THEN attempts[k] + 1 ELSE attempts[k]
      /\ \A j \in Key \ { k } : state'[j] = state[j] /\ attempts'[j] = attempts[j]
  BY <1>1, <1>2 DEF TypeInv, TypeOK
<1>6. attempts'[k] <= MaxAttempts /\ (state'[k] = "dead_letter" <=> attempts'[k] = MaxAttempts)
  BY <1>3, <1>4, <1>5, BoundAssumption
<1> QED
  BY <1>5, <1>6 DEF AttemptsBounded

LEMMA AttemptsNext ==
    TypeInv /\ InflightOwned /\ AttemptsBounded /\ [Next]_vars => AttemptsBounded'
<1> SUFFICES ASSUME TypeInv, InflightOwned, AttemptsBounded, [Next]_vars
             PROVE  AttemptsBounded'
  OBVIOUS
<1>1. CASE UNCHANGED vars
  BY <1>1 DEF vars, AttemptsBounded
<1>2. ASSUME NEW t \in Task, TaskStep(t) PROVE AttemptsBounded'
  BY <1>2, TaskSteps, AttemptsKept DEF Enqueued
<1>3. ASSUME NEW w \in Worker, ClaimBeadsOutboxBatch(w) PROVE AttemptsBounded'
  <2>1. attempts' = attempts
    BY <1>3 DEF ClaimBeadsOutboxBatch
  <2>2. \A k \in Key : state'[k] = "dead_letter" <=> state[k] = "dead_letter"
    BY <1>3, ClaimFacts
  <2> QED
    BY <2>1, <2>2, AttemptsKept
<1>4. ASSUME NEW w \in Worker, UNCHANGED outbox PROVE AttemptsBounded'
  BY <1>4, AttemptsKept
<1>5. ASSUME NEW w \in Worker, WorkerStep(w) PROVE AttemptsBounded'
  BY <1>3, <1>4, <1>5, AttemptsMark DEF WorkerStep, ScanProject, unblockStaleBlockedIssues,
     ClaimFails, ShowIssue, UpdateIssue
<1>6. ASSUME NEW w \in Worker, MarkFails(w) \/ WorkerDies(w) PROVE AttemptsBounded'
  BY <1>4, <1>6 DEF MarkFails, WorkerDies, abandon
<1> QED
  BY <1>1, <1>2, <1>5, <1>6 DEF Next

\* A row is given up after max_attempts failed deliveries and neither earlier
\* nor later, however its workers overlap and leave.
THEOREM AttemptsBoundedHolds == Spec => []AttemptsBounded
BY TypeInit, TypeNext, OwnedInit, OwnedNext, AttemptsInit, AttemptsNext, PTL DEF Spec

---------------------------------------------------------------------------
(* What is marked delivered has reached the tracker.                       *)

\* Why a worker may say that its row is delivered.
IssueBelowPeak == \A t \in Task : peak[t] >= statusRank(issue[t])
DeliveryMade == \A w \in Worker :
    phase[w] = "mark" /\ result[w] = "ok"
      => peak[current(w)[1]] >= statusRank(target[current(w)])
DeliveryInv == IssueBelowPeak /\ DeliveryMade /\ DeliveredMeansProjected

LEMMA DeliveryInit == Init => DeliveryInv
BY DEF Init, DeliveryInv, IssueBelowPeak, DeliveryMade, DeliveredMeansProjected, statusRank

\* Other steps do not change which row a worker handles.
LEMMA CurrentStays ==
    ASSUME TypeInv, NEW w \in Worker, batch'[w] = batch[w],
           \A k \in batch[w] : id'[k] = id[k]
    PROVE  current(w)' = current(w)
<1>1. \A k \in batch[w] : (\A j \in batch[w] : id'[k] <= id'[j])
                          <=> (\A j \in batch[w] : id[k] <= id[j])
  OBVIOUS
<1>2. (CHOOSE k \in batch[w] : \A j \in batch[w] : id'[k] <= id'[j])
      = (CHOOSE k \in batch[w] : \A j \in batch[w] : id[k] <= id[j])
  BY <1>1
<1> QED
  BY <1>2 DEF current

\* Steps that leave the tracker and the workers alone.
LEMMA DeliveryTask ==
    ASSUME TypeInv, InflightOwned, DeliveryInv, Enqueued, UNCHANGED << issue, worker, peak >>
    PROVE  DeliveryInv'
<1>1. IssueBelowPeak'
  BY DEF DeliveryInv, IssueBelowPeak
<1>2. DeliveryMade'
  <2> SUFFICES ASSUME NEW w \in Worker, phase[w] = "mark", result[w] = "ok"
               PROVE  peak[current(w)'[1]] >= statusRank(target'[current(w)'])
    BY DEF DeliveryMade
  <2>1. current(w) \in batch[w] /\ current(w) \in Key
    BY CurrentInBatch DEF TypeInv, BatchPhase
  <2>2. \A k \in batch[w] : k \in Key /\ state[k] # "absent"
    BY DEF InflightOwned, TypeInv, TypeOK
  <2>3. \A k \in batch[w] : id'[k] = id[k] /\ target'[k] = target[k]
    BY <2>2 DEF Enqueued
  <2>4. current(w)' = current(w)
    BY <2>3, CurrentStays
  <2> QED
    BY <2>1, <2>3, <2>4 DEF DeliveryInv, DeliveryMade
<1>3. DeliveredMeansProjected'
  BY DEF DeliveryInv, DeliveredMeansProjected, Enqueued
<1> QED
  BY <1>1, <1>2, <1>3 DEF DeliveryInv

\* Steps of a worker that does not come to mark a delivered row, or leaves.
LEMMA DeliveryWorker ==
    ASSUME TypeInv, DeliveryInv, NEW w \in Worker, UNCHANGED << id, target, peak >>,
           IssueBelowPeak', DeliveredMeansProjected',
           ~ (phase'[w] = "mark" /\ result'[w] = "ok"),
           \A v \in Worker \ { w } :
             phase'[v] = phase[v] /\ result'[v] = result[v] /\ batch'[v] = batch[v]
    PROVE  DeliveryInv'
<1>1. \A v \in Worker \ { w } : current(v)' = current(v)
  BY CurrentStays
<1>2. DeliveryMade'
  BY <1>1 DEF DeliveryInv, DeliveryMade
<1> QED
  BY <1>2 DEF DeliveryInv

LEMMA DeliveryShow ==
    ASSUME TypeInv, DeliveryInv, NEW w \in Worker, ShowIssue(w)
    PROVE  DeliveryInv'
<1>1. current(w) \in Key /\ current(w)[1] \in Task
  BY CurrentInBatch DEF ShowIssue, TypeInv, BatchPhase
<1>2. \A v \in Worker : current(v)' = current(v)
  BY CurrentStays DEF ShowIssue
<1>3. /\ UNCHANGED << issue, peak, state, target >>
      /\ \A v \in Worker \ { w } : phase'[v] = phase[v] /\ result'[v] = result[v]
  BY DEF ShowIssue, TypeInv, TypeOK
<1>4. phase'[w] = "mark" /\ result'[w] = "ok"
        => peak[current(w)[1]] >= statusRank(target[current(w)])
  <2>1. peak[current(w)[1]] >= statusRank(issue[current(w)[1]])
    BY <1>1 DEF DeliveryInv, IssueBelowPeak
  <2>2. phase'[w] = "mark" /\ result'[w] = "ok"
          => statusRank(issue[current(w)[1]]) >= statusRank(target[current(w)])
    <3>1. phase'[w] = "mark" /\ result'[w] = "ok" =>
            \/ ~ canTransitionMonotonic(issue[current(w)[1]], target[current(w)])
            \/ issue[current(w)[1]] = target[current(w)]
      BY DEF ShowIssue, TypeInv, TypeOK
    <3> QED
      BY <3>1, RankType DEF canTransitionMonotonic
  <2>3. peak[current(w)[1]] \in 0 .. 3
    BY <1>1 DEF TypeInv, TypeOK
  <2> QED
    BY <2>1, <2>2, <2>3, RankType
<1>5. DeliveryMade'
  BY <1>2, <1>3, <1>4 DEF DeliveryInv, DeliveryMade
<1> QED
  BY <1>3, <1>5 DEF DeliveryInv, IssueBelowPeak, DeliveredMeansProjected

LEMMA DeliveryUpdate ==
    ASSUME TypeInv, DeliveryInv, NEW w \in Worker, UpdateIssue(w)
    PROVE  DeliveryInv'
<1> DEFINE k == current(w)
           t == k[1]
<1>1. k \in Key /\ t \in Task
  BY CurrentInBatch DEF UpdateIssue, TypeInv, BatchPhase
<1>2. \A v \in Worker : current(v)' = current(v)
  BY CurrentStays DEF UpdateIssue
<1>3. /\ \/ /\ issue' = [issue EXCEPT ![t] = target[k]]
            /\ peak' = [peak EXCEPT ![t] =
                 IF statusRank(target[k]) > @ THEN statusRank(target[k]) ELSE @]
         \/ UNCHANGED << issue, peak >>
      /\ result'[w] = "ok" => issue'[t] = target[k]
      /\ UNCHANGED << state, target >>
      /\ \A v \in Worker \ { w } : phase'[v] = phase[v] /\ result'[v] = result[v]
  BY DEF UpdateIssue, TypeInv, TypeOK
<1>4. \A v \in Worker : phase[v] = "mark" => current(v) \in Key /\ current(v)[1] \in Task
  BY CurrentInBatch DEF TypeInv, BatchPhase
<1> HIDE DEF k, t
<1>5. \A s \in Task : peak[s] \in 0 .. 3 /\ peak'[s] \in 0 .. 3 /\ peak'[s] >= peak[s]
  BY <1>1, <1>3, RankType DEF TypeInv, TypeOK
<1>6. peak'[t] >= statusRank(issue'[t])
  BY <1>1, <1>3, <1>5, RankType DEF TypeInv, TypeOK, DeliveryInv, IssueBelowPeak
<1>7. IssueBelowPeak'
  BY <1>1, <1>3, <1>6 DEF DeliveryInv, IssueBelowPeak, TypeInv, TypeOK
<1>8. result'[w] = "ok" => peak'[t] >= statusRank(target[k])
  BY <1>3, <1>6
<1>9. DeliveryMade'
  <2> SUFFICES ASSUME NEW v \in Worker, phase'[v] = "mark", result'[v] = "ok"
               PROVE  peak'[current(v)[1]] >= statusRank(target[current(v)])
    BY <1>2, <1>3 DEF DeliveryMade
  <2>1. CASE v = w
    BY <1>8, <2>1 DEF k, t
  <2>2. CASE v # w
    <3>1. peak[current(v)[1]] >= statusRank(target[current(v)]) /\ current(v)[1] \in Task
      BY <1>3, <1>4, <2>2 DEF DeliveryInv, DeliveryMade
    <3> QED
      BY <1>5, <3>1, RankType
  <2> QED
    BY <2>1, <2>2
<1>10. DeliveredMeansProjected'
  BY <1>3, <1>5, RankType, KeyParts DEF DeliveryInv, DeliveredMeansProjected
<1> QED
  BY <1>7, <1>9, <1>10 DEF DeliveryInv

LEMMA DeliveryMark ==
    ASSUME TypeInv, DeliveryInv, NEW w \in Worker, MarkRow(w)
    PROVE  DeliveryInv'
<1> DEFINE k == current(w)
<1>1. k \in Key
  BY CurrentInBatch DEF MarkRow, TypeInv, BatchPhase
<1>2. state' = [state EXCEPT ![k] = settled(w, k)] /\ UNCHANGED << id, target, peak, issue >>
  BY DEF MarkRow
<1>3. settled(w, k) = "delivered" => peak[k[1]] >= statusRank(target[k])
  BY DEF settled, MarkRow, DeliveryInv, DeliveryMade
<1>4. result'[w] = "none" /\ \A v \in Worker \ { w } :
        phase'[v] = phase[v] /\ result'[v] = result[v] /\ batch'[v] = batch[v]
  BY DEF MarkRow, TypeInv, TypeOK
<1> HIDE DEF k
<1>5. DeliveredMeansProjected'
  BY <1>1, <1>2, <1>3 DEF DeliveryInv, DeliveredMeansProjected, TypeInv, TypeOK
<1>6. IssueBelowPeak'
  BY <1>2 DEF DeliveryInv, IssueBelowPeak
<1> QED
  BY <1>2, <1>4, <1>5, <1>6, DeliveryWorker

LEMMA DeliveryNext ==
    TypeInv /\ InflightOwned /\ DeliveryInv /\ [Next]_vars => DeliveryInv'
<1> SUFFICES ASSUME TypeInv, InflightOwned, DeliveryInv, [Next]_vars
             PROVE  DeliveryInv'
  OBVIOUS
<1>1. CASE UNCHANGED vars
  BY <1>1, NothingEnqueued, DeliveryTask DEF vars
<1>2. ASSUME NEW t \in Task, TaskStep(t) PROVE DeliveryInv'
  BY <1>2, TaskSteps, DeliveryTask
<1>3. ASSUME NEW w \in Worker, UNCHANGED << outbox, peak >>,
             \A t \in Task : issue'[t] = issue[t] \/ issue'[t] = "open",
             phase'[w] # "mark",
             \A v \in Worker \ { w } :
               phase'[v] = phase[v] /\ result'[v] = result[v] /\ batch'[v] = batch[v]
      PROVE  DeliveryInv'
  <2>1. IssueBelowPeak'
    BY <1>3 DEF DeliveryInv, IssueBelowPeak, statusRank, TypeInv, TypeOK
  <2>2. DeliveredMeansProjected'
    BY <1>3 DEF DeliveryInv, DeliveredMeansProjected
  <2> QED
    BY <1>3, <2>1, <2>2, DeliveryWorker
<1>4. ASSUME NEW w \in Worker, ClaimBeadsOutboxBatch(w) PROVE DeliveryInv'
  <2>1. PICK rows \in SUBSET Key :
             /\ state' = [k \in Key |-> IF k \in rows THEN "inflight" ELSE state[k]]
             /\ batch' = [batch EXCEPT ![w] = rows]
             /\ phase' = [phase EXCEPT ![w] = IF rows = {} THEN "idle" ELSE "show"]
    BY <1>4, ClaimFacts
  <2>2. UNCHANGED << id, target, issue, peak, result >>
    BY <1>4 DEF ClaimBeadsOutboxBatch
  <2>3. IssueBelowPeak' /\ DeliveredMeansProjected'
    BY <2>1, <2>2 DEF DeliveryInv, IssueBelowPeak, DeliveredMeansProjected
  <2>4. phase'[w] # "mark" /\ \A v \in Worker \ { w } :
          phase'[v] = phase[v] /\ result'[v] = result[v] /\ batch'[v] = batch[v]
    BY <2>1, <2>2 DEF TypeInv, TypeOK
  <2> QED
    BY <2>2, <2>3, <2>4, DeliveryWorker
<1>5. ASSUME NEW w \in Worker, WorkerStep(w) PROVE DeliveryInv'
  <2>1. CASE ScanProject(w)
    BY <1>3, <2>1 DEF ScanProject, TypeInv, TypeOK
  <2>2. ASSUME NEW t \in Task, unblockStaleBlockedIssues(w, t) PROVE DeliveryInv'
    <3>1. \A s \in Task : issue'[s] = issue[s] \/ issue'[s] = "open"
      BY <2>2 DEF unblockStaleBlockedIssues, TypeInv, TypeOK
    <3>2. phase'[w] # "mark" /\ \A v \in Worker \ { w } :
            phase'[v] = phase[v] /\ result'[v] = result[v] /\ batch'[v] = batch[v]
      BY <2>2 DEF unblockStaleBlockedIssues, TypeInv, TypeOK
    <3>3. UNCHANGED << outbox, peak >>
      BY <2>2 DEF unblockStaleBlockedIssues
    <3> QED
      BY <1>3, <3>1, <3>2, <3>3
  <2>3. CASE ClaimFails(w)
    BY <1>3, <2>3 DEF ClaimFails, TypeInv, TypeOK
  <2> QED
    BY <1>4, <1>5, <2>1, <2>2, <2>3, DeliveryShow, DeliveryUpdate, DeliveryMark DEF WorkerStep
<1>6. ASSUME NEW w \in Worker, MarkFails(w) \/ WorkerDies(w) PROVE DeliveryInv'
  BY <1>3, <1>6 DEF MarkFails, WorkerDies, abandon, TypeInv, TypeOK
<1> QED
  BY <1>1, <1>2, <1>5, <1>6 DEF Next

\* A row that is marked delivered has reached its issue, or found it further on:
\* whatever other workers and reopenings do to the issue in between.
THEOREM DeliveredIsProjected == Spec => []DeliveredMeansProjected
<1>1. DeliveryInv => DeliveredMeansProjected
  BY DEF DeliveryInv
<1> QED
  BY <1>1, TypeInit, TypeNext, OwnedInit, OwnedNext, DeliveryInit, DeliveryNext, PTL DEF Spec

---------------------------------------------------------------------------
(* The refinement.                                                         *)

LEMMA LogInit == Init => Log!Init
BY DEF Init, Log!Init, logged

\* What a step does to the row of an event, in the log's words.
LEMMA LogStutters ==
    ASSUME TypeInv, \A k \in Key : logged'[k] = logged[k]
    PROVE  logged' = logged
BY DEF logged

LEMMA OnePointApart ==
    ASSUME NEW S, NEW R, NEW f \in [S -> R], NEW g \in [S -> R], NEW k \in S,
           \A j \in S \ { k } : g[j] = f[j]
    PROVE  g = [f EXCEPT ![k] = g[k]]
OBVIOUS

LEMMA LogMoves ==
    ASSUME TypeInv, NEW k \in Key, \A j \in Key \ { k } : state'[j] = state[j],
           \/ state'[k] = state[k]
           \/ state[k] = "absent" /\ state'[k] = "pending"
           \/ state[k] = "inflight" /\ state'[k] \in { "pending", "delivered", "dead_letter" }
    PROVE  Log!Next \/ logged' = logged
<1>1. \A j \in Key \ { k } : logged'[j] = logged[j]
  BY DEF logged
<1>2. logged' = [logged EXCEPT ![k] = logged'[k]]
  <2> DEFINE Seen == { "none", "queued", "delivered", "dead_letter" }
  <2>1. \A j \in Key : state[j] \in State /\ state'[j] \in State
    BY DEF TypeInv, TypeOK, State
  <2>2. logged \in [Key -> Seen]
    BY <2>1 DEF logged, State
  <2>3. logged' \in [Key -> Seen]
    BY <2>1 DEF logged, State
  <2> HIDE DEF Key, Seen
  <2> QED
    BY <1>1, <2>2, <2>3, OnePointApart
<1>3. CASE state'[k] = state[k] \/ (state[k] = "inflight" /\ state'[k] = "pending")
  <2>1. logged'[k] = logged[k]
    BY <1>3 DEF logged
  <2> QED
    BY <1>1, <2>1, LogStutters
<1>4. CASE state[k] = "absent" /\ state'[k] = "pending"
  <2>1. logged[k] = "none" /\ logged'[k] = "queued"
    BY <1>4 DEF logged
  <2>2. Log!Enqueue(k)
    BY <1>2, <2>1 DEF Log!Enqueue
  <2> QED
    BY <2>2 DEF Log!Next
<1>5. CASE state[k] = "inflight" /\ state'[k] \in { "delivered", "dead_letter" }
  <2>1. logged[k] = "queued" /\ logged'[k] \in { "delivered", "dead_letter" }
    BY <1>5 DEF logged
  <2>2. Log!Settle(k)
    BY <1>2, <2>1 DEF Log!Settle
  <2> QED
    BY <2>2 DEF Log!Next
<1> QED
  BY <1>3, <1>4, <1>5

LEMMA LogNext == TypeInv /\ InflightOwned /\ [Next]_vars => [Log!Next]_logged
<1> SUFFICES ASSUME TypeInv, InflightOwned, [Next]_vars
             PROVE  Log!Next \/ logged' = logged
  OBVIOUS
<1>1. ASSUME UNCHANGED state PROVE logged' = logged
  BY <1>1 DEF logged
<1>2. ASSUME NEW t \in Task, TaskStep(t) PROVE Log!Next \/ logged' = logged
  <2>1. Enqueued
    BY <1>2, TaskSteps
  <2>2. CASE \A k \in Key : state'[k] = state[k]
    <3>1. \A k \in Key : logged'[k] = logged[k]
      BY <2>2 DEF logged
    <3> QED
      BY <3>1, LogStutters
  <2>3. CASE \E k \in Key : state'[k] # state[k]
    <3>1. PICK k \in Key : state'[k] # state[k]
      BY <2>3
    <3>2. state[k] = "absent" /\ state'[k] = "pending"
      BY <2>1, <3>1 DEF Enqueued
    <3>3. \A j \in Key \ { k } : state'[j] = state[j]
      BY <2>1, <3>1 DEF Enqueued
    <3> QED
      BY <3>2, <3>3, LogMoves
  <2> QED
    BY <2>2, <2>3
<1>3. ASSUME NEW w \in Worker, ClaimBeadsOutboxBatch(w) PROVE logged' = logged
  <2>1. PICK rows \in SUBSET Key :
             /\ \A k \in rows : state[k] = "pending"
             /\ state' = [k \in Key |-> IF k \in rows THEN "inflight" ELSE state[k]]
    BY <1>3, ClaimFacts
  <2>2. \A k \in Key : logged'[k] = logged[k]
    BY <2>1 DEF logged
  <2> QED
    BY <2>2, LogStutters
<1>4. ASSUME NEW w \in Worker, MarkRow(w) PROVE Log!Next \/ logged' = logged
  <2> DEFINE k == current(w)
  <2>1. k \in batch[w] /\ k \in Key
    BY <1>4, CurrentInBatch DEF MarkRow, TypeInv, BatchPhase
  <2>2. state' = [state EXCEPT ![k] = settled(w, k)]
    BY <1>4 DEF MarkRow
  <2>3. settled(w, k) \in { "pending", "delivered", "dead_letter" }
    BY DEF settled
  <2> HIDE DEF k
  <2>4. state[k] = "inflight"
    BY <2>1 DEF InflightOwned
  <2>5. state'[k] = settled(w, k) /\ \A j \in Key \ { k } : state'[j] = state[j]
    BY <2>1, <2>2 DEF TypeInv, TypeOK
  <2> QED
    BY <2>1, <2>3, <2>4, <2>5, LogMoves
<1>5. ASSUME NEW w \in Worker, WorkerStep(w) PROVE Log!Next \/ logged' = logged
  BY <1>1, <1>3, <1>4, <1>5 DEF WorkerStep, ScanProject, unblockStaleBlockedIssues,
     ClaimFails, ShowIssue, UpdateIssue
<1>6. ASSUME NEW w \in Worker, MarkFails(w) \/ WorkerDies(w) PROVE logged' = logged
  BY <1>1, <1>6 DEF MarkFails, WorkerDies, abandon
<1>7. CASE UNCHANGED vars
  BY <1>1, <1>7 DEF vars
<1> QED
  BY <1>2, <1>5, <1>6, <1>7 DEF Next

\* The outbox implements the event log: an event is queued once, settled once
\* and stays settled, through claims, retries, abandoned batches and enqueues
\* of the same key.
THEOREM ImplementsLog == Spec => ImplementsEventLog
BY LogInit, LogNext, TypeInit, TypeNext, OwnedInit, OwnedNext, PTL
   DEF Spec, ImplementsEventLog, Log!Spec

=============================================================================
