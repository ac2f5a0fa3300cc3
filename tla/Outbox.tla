------------------------------- MODULE Outbox -------------------------------
(***************************************************************************)
(* The beads bridge's way back: task starts and closes become rows of the  *)
(* beads_sync_outbox table, and ProcessProject executions, the dispatcher  *)
(* ticks and `chum sync` runs, claim them in batches and project them onto *)
(* the tracker's issues.  The tracker is external: a bd command may fail   *)
(* and two workers may run one at the same time.  A worker's Show, Update  *)
(* and row update are separate steps, and a worker may die between any two.*)
(***************************************************************************)
EXTENDS Naturals, FiniteSets

CONSTANTS
    Task,         \* tasks mapped to an issue (one issue per task)
    Worker,       \* ProcessProject executions that may overlap
    BatchSize,    \* 25 in a tick, 100 in `chum sync`
    MaxAttempts,  \* max_attempts of a row: 5
    Faults,       \* which calls may fail in this instance (see Fault)
    MaxRuns,      \* bound: runs of a task
    MaxAbandoned  \* bound: batches a worker abandons

\* EventTaskStarted and EventTaskTerminal.
EventType == { "task_started", "task_terminal" }

\* The idempotency key: <issue>:<task>:<start or terminal>, one row for each.
Key == Task \X EventType

State == { "absent", "pending", "inflight", "delivered", "dead_letter" }
IssueStatus == { "open", "in_progress", "blocked", "done" }
Result == { "none", "ok", "error" }
WorkerPhase == { "idle", "scan", "show", "update", "mark" }

\* A statement that enqueues a row, one that marks a row, one that claims;
\* and a bd command.
Fault == { "enqueue", "mark", "claim", "beads" }

NoKey == << >>

ASSUME BoundAssumption == /\ BatchSize \in Nat \ {0}
                          /\ MaxAttempts \in Nat \ {0}
                          /\ MaxRuns \in Nat
                          /\ MaxAbandoned \in Nat
ASSUME FaultAssumption == Faults \subseteq Fault

---------------------------------------------------------------------------
VARIABLES
    state,     \* state[k]: the row's state
    attempts,  \* attempts[k]: the row's attempts
    target,    \* target[k]: target_status in the row's payload
    id,        \* id[k]: the row's place in the AUTOINCREMENT order
    lastId,    \* the last id given
    issue,     \* issue[t]: the issue's status in the tracker
    running,   \* the tasks with an execution
    startDue,  \* the tasks whose start event is still to be enqueued
    outcome,   \* outcome[t]: target_status of the task's last close
    runs,      \* runs[t]: executions so far
    phase,     \* phase[w]: where worker w is
    listed,    \* listed[w]: blocked issues w found with dependencies done
    batch,     \* batch[w]: rows w claimed and has not handled
    result,    \* result[w]: how the delivery of its current row ended
    peak,      \* history: the highest rank issue[t] has had
    abandoned  \* batches abandoned so far

outbox == << state, attempts, target, id, lastId >>
task   == << running, startDue, outcome, runs >>
worker == << phase, listed, batch, result >>
vars   == << outbox, issue, task, worker, peak, abandoned >>

TypeOK ==
    /\ state \in [Key -> State]
    /\ attempts \in [Key -> Nat]
    /\ target \in [Key -> IssueStatus]
    /\ id \in [Key -> Nat]
    /\ lastId \in Nat
    /\ issue \in [Task -> IssueStatus]
    /\ running \in SUBSET Task
    /\ startDue \in SUBSET Task
    /\ outcome \in [Task -> IssueStatus]
    /\ runs \in [Task -> Nat]
    /\ phase \in [Worker -> WorkerPhase]
    /\ listed \in [Worker -> SUBSET Task]
    /\ batch \in [Worker -> SUBSET Key]
    /\ result \in [Worker -> Result]
    /\ peak \in [Task -> 0 .. 3]
    /\ abandoned \in Nat

Init ==
    /\ state = [k \in Key |-> "absent"]
    /\ attempts = [k \in Key |-> 0]
    /\ target = [k \in Key |-> "open"]
    /\ id = [k \in Key |-> 0]
    /\ lastId = 0
    /\ issue = [t \in Task |-> "open"]
    /\ running = {}
    /\ startDue = {}
    /\ outcome = [t \in Task |-> "open"]
    /\ runs = [t \in Task |-> 0]
    /\ phase = [w \in Worker |-> "idle"]
    /\ listed = [w \in Worker |-> {}]
    /\ batch = [w \in Worker |-> {}]
    /\ result = [w \in Worker |-> "none"]
    /\ peak = [t \in Task |-> 0]
    /\ abandoned = 0

---------------------------------------------------------------------------
statusRank(s) == CASE s = "done" -> 3
                   [] s = "blocked" -> 2
                   [] s = "in_progress" -> 1
                   [] OTHER -> 0

canTransitionMonotonic(from, to) == statusRank(to) >= statusRank(from)

\* The row a worker handles now: the one with the lowest id.
current(w) == CHOOSE k \in batch[w] : \A j \in batch[w] : id[k] <= id[j]

---------------------------------------------------------------------------
(* The tasks' side.                                                        *)

\* Mutant: INSERT OR REPLACE.
EnqueueBeadsOutbox_Replace(k, to) ==
    /\ state' = [state EXCEPT ![k] = "pending"]
    /\ target' = [target EXCEPT ![k] = to]
    /\ lastId' = lastId + 1
    /\ id' = [id EXCEPT ![k] = lastId + 1]
    /\ attempts' = [attempts EXCEPT ![k] = 0]

\* EnqueueBeadsOutbox: INSERT OR IGNORE under the idempotency key.
EnqueueBeadsOutbox(k, to) ==
    IF state[k] = "absent"
    THEN /\ state' = [state EXCEPT ![k] = "pending"]
         /\ target' = [target EXCEPT ![k] = to]
         /\ lastId' = lastId + 1
         /\ id' = [id EXCEPT ![k] = lastId + 1]
         /\ UNCHANGED attempts
    ELSE UNCHANGED outbox

\* An execution starts: an agent, whose start the dispatcher will record, or
\* a resumed review, whose start it does not.
TaskRuns(t) ==
    /\ t \notin running
    /\ runs[t] < MaxRuns
    /\ running' = running \cup {t}
    /\ runs' = [runs EXCEPT ![t] = @ + 1]
    /\ \E agent \in BOOLEAN :
         startDue' = IF agent THEN startDue \cup {t} ELSE startDue
    /\ UNCHANGED << outbox, issue, outcome, worker, peak, abandoned >>

\* RecordDispatchStartActivity runs after the child has started, and so
\* perhaps after it has closed; its failure is only logged.
EnqueueTaskStarted(t) ==
    /\ t \in startDue
    /\ startDue' = startDue \ {t}
    /\ \/ EnqueueBeadsOutbox(<< t, "task_started" >>, "in_progress")
       \/ "enqueue" \in Faults /\ UNCHANGED outbox
    /\ UNCHANGED << issue, running, outcome, runs, worker, peak, abandoned >>

\* A close that projects to status "to" of the issue.
EnqueueTaskTerminal(t, to) ==
    /\ outcome' = [outcome EXCEPT ![t] = to]
    /\ \/ EnqueueBeadsOutbox(<< t, "task_terminal" >>, to)
       \/ "enqueue" \in Faults /\ UNCHANGED outbox

\* CloseTaskWithDetailActivity: "completed" projects to done, every other
\* reason to blocked, and a decomposed task is not projected.
TaskCloses(t) ==
    /\ t \in running
    /\ running' = running \ {t}
    /\ \/ \E to \in { "done", "blocked" } : EnqueueTaskTerminal(t, to)
       \/ UNCHANGED << outbox, outcome >>
    /\ UNCHANGED << issue, startDue, runs, worker, peak, abandoned >>

\* The orphan scan completes a parked task whose pull request was merged.
MergedTaskCompletes(t) ==
    /\ t \notin running
    /\ outcome[t] = "blocked"
    /\ EnqueueTaskTerminal(t, "done")
    /\ UNCHANGED << issue, running, startDue, runs, worker, peak, abandoned >>

---------------------------------------------------------------------------
(* A worker: the scan's reopening of blocked issues, then the outbox.      *)

\* ScanProject lists the issues; some blocked ones have all their
\* dependencies done.  A list that fails skips the reopening.
ScanProject(w) ==
    /\ phase[w] = "idle"
    /\ phase' = [phase EXCEPT ![w] = "scan"]
    /\ \E free \in SUBSET { t \in Task : issue[t] = "blocked" } :
         listed' = [listed EXCEPT ![w] = free]
    /\ UNCHANGED << outbox, issue, task, batch, result, peak, abandoned >>

\* unblockStaleBlockedIssues: one bd update; a failed one ends the run.
unblockStaleBlockedIssues(w, t) ==
    /\ phase[w] = "scan"
    /\ t \in listed[w]
    /\ \/ /\ issue' = [issue EXCEPT ![t] = "open"]
          /\ listed' = [listed EXCEPT ![w] = @ \ {t}]
          /\ UNCHANGED phase
       \/ /\ "beads" \in Faults
          /\ listed' = [listed EXCEPT ![w] = {}]
          /\ phase' = [phase EXCEPT ![w] = "idle"]
          /\ UNCHANGED issue
    /\ UNCHANGED << outbox, task, batch, result, peak, abandoned >>

\* Mutant: a row in backoff never becomes due.
claimable_NoRetry(due) ==
    { k \in Key : state[k] = "pending" /\ attempts[k] = 0 }

\* The rows a claim may take: pending and due.  A row that was never tried is
\* due at once; for one in backoff, time decides.
claimable(due) ==
    { k \in Key : state[k] = "pending" /\ (attempts[k] = 0 \/ k \in due) }

\* The first BatchSize of them, in id order.
isBatch(rows, from) ==
    /\ rows \subseteq from
    /\ Cardinality(rows) <= BatchSize
    /\ \A k \in rows, j \in from \ rows : id[k] < id[j]
    /\ rows = from \/ Cardinality(rows) = BatchSize

\* Mutant: a claim that leaves the rows pending.
ClaimBeadsOutboxBatch_Unmarked(w) ==
    /\ phase[w] = "scan"
    /\ listed[w] = {}
    /\ \E due \in SUBSET Key : \E rows \in SUBSET claimable(due) :
         /\ isBatch(rows, claimable(due))
         /\ batch' = [batch EXCEPT ![w] = rows]
         /\ phase' = [phase EXCEPT ![w] = IF rows = {} THEN "idle" ELSE "show"]
    /\ UNCHANGED << outbox, issue, task, listed, result, peak, abandoned >>

\* One transaction; a conflict with another writer fails it whole.
ClaimBeadsOutboxBatch(w) ==
    /\ phase[w] = "scan"
    /\ listed[w] = {}
    /\ \E due \in SUBSET { k \in Key : attempts[k] > 0 } :
       \E rows \in SUBSET claimable(due) :
         /\ isBatch(rows, claimable(due))
         /\ state' = [k \in Key |-> IF k \in rows THEN "inflight"
                                                  ELSE state[k]]
         /\ batch' = [batch EXCEPT ![w] = rows]
         /\ phase' = [phase EXCEPT ![w] = IF rows = {} THEN "idle" ELSE "show"]
    /\ UNCHANGED << attempts, target, id, lastId, issue, task, listed,
                    result, peak, abandoned >>

\* The scan, the listing of ready issues or the claim fails: no outbox run.
ClaimFails(w) ==
    /\ "claim" \in Faults
    /\ phase[w] = "scan"
    /\ phase' = [phase EXCEPT ![w] = "idle"]
    /\ listed' = [listed EXCEPT ![w] = {}]
    /\ UNCHANGED << outbox, issue, task, batch, result, peak, abandoned >>

\* deliverOne: Show, and decide on what it answers: nothing to do when the
\* monotonic guard forbids the change or the issue is there already.
ShowIssue(w) ==
    /\ phase[w] = "show"
    /\ LET k  == current(w)
           at == issue[k[1]]
       IN  \/ /\ "beads" \in Faults
              /\ phase' = [phase EXCEPT ![w] = "mark"]
              /\ result' = [result EXCEPT ![w] = "error"]
           \/ /\ ~canTransitionMonotonic(at, target[k]) \/ at = target[k]
              /\ phase' = [phase EXCEPT ![w] = "mark"]
              /\ result' = [result EXCEPT ![w] = "ok"]
           \/ /\ canTransitionMonotonic(at, target[k]) /\ at # target[k]
              /\ phase' = [phase EXCEPT ![w] = "update"]
              /\ UNCHANGED result
    /\ UNCHANGED << outbox, issue, task, listed, batch, peak, abandoned >>

\* deliverOne: Update, whatever the issue is by now; a bd that fails may have
\* written.
UpdateIssue(w) ==
    /\ phase[w] = "update"
    /\ LET k == current(w)
           t == k[1]
       IN  /\ \/ /\ issue' = [issue EXCEPT ![t] = target[k]]
                 /\ peak' = [peak EXCEPT ![t] =
                      IF statusRank(target[k]) > @ THEN statusRank(target[k])
                                                   ELSE @]
              \/ "beads" \in Faults /\ UNCHANGED << issue, peak >>
           /\ \E r \in { "ok", "error" } :
                /\ r = "error" => "beads" \in Faults
                /\ r = "ok" => issue'[t] = target[k]
                /\ result' = [result EXCEPT ![w] = r]
    /\ phase' = [phase EXCEPT ![w] = "mark"]
    /\ UNCHANGED << outbox, task, listed, batch, abandoned >>

\* Mutant: the attempt that was just made is not counted.
exhausted_OffByOne(k) == attempts[k] >= MaxAttempts

\* The attempt that just failed was the row's last.
exhausted(k) == attempts[k] + 1 >= MaxAttempts

\* Mutant: a failed delivery is marked delivered.
settled_Optimistic(w, k) == "delivered"

\* Mutant: a state the schema does not know.
settled_Misspelt(w, k) == IF result[w] = "ok" THEN "delivered" ELSE "retry"

\* MarkBeadsOutboxDelivered, ...DeadLetter or ...Retry.
settled(w, k) == CASE result[w] = "ok" -> "delivered"
                   [] result[w] = "error" /\ exhausted(k) -> "dead_letter"
                   [] OTHER -> "pending"

MarkRow(w) ==
    /\ phase[w] = "mark"
    /\ LET k == current(w)
           rest == batch[w] \ {k}
       IN  /\ state' = [state EXCEPT ![k] = settled(w, k)]
           /\ attempts' = IF result[w] = "error"
                          THEN [attempts EXCEPT ![k] = @ + 1] ELSE attempts
           /\ batch' = [batch EXCEPT ![w] = rest]
           /\ phase' = [phase EXCEPT ![w] = IF rest = {} THEN "idle"
                                                         ELSE "show"]
    /\ result' = [result EXCEPT ![w] = "none"]
    /\ UNCHANGED << target, id, lastId, issue, task, listed, peak,
                    abandoned >>

\* A worker leaves without finishing: its batch is forgotten, its rows are not.
abandon(w) ==
    /\ abandoned < MaxAbandoned
    /\ abandoned' = abandoned + 1
    /\ phase' = [phase EXCEPT ![w] = "idle"]
    /\ listed' = [listed EXCEPT ![w] = {}]
    /\ batch' = [batch EXCEPT ![w] = {}]
    /\ result' = [result EXCEPT ![w] = "none"]
    /\ UNCHANGED << outbox, issue, task, peak >>

\* The row's update fails: ProcessProject returns.
MarkFails(w) == "mark" \in Faults /\ phase[w] = "mark" /\ abandon(w)

\* The process is killed, or the scan activity times out.
WorkerDies(w) == phase[w] # "idle" /\ abandon(w)

---------------------------------------------------------------------------
WorkerStep(w) ==
    \/ ScanProject(w)
    \/ \E t \in Task : unblockStaleBlockedIssues(w, t)
    \/ ClaimBeadsOutboxBatch(w)
    \/ ClaimFails(w)
    \/ ShowIssue(w)
    \/ UpdateIssue(w)
    \/ MarkRow(w)

TaskStep(t) ==
    \/ TaskRuns(t)
    \/ EnqueueTaskStarted(t)
    \/ TaskCloses(t)
    \/ MergedTaskCompletes(t)

Next ==
    \/ \E w \in Worker : WorkerStep(w)
    \/ \E t \in Task : TaskStep(t)
    \/ \E w \in Worker : MarkFails(w) \/ WorkerDies(w)

Spec == Init /\ [][Next]_vars

\* Reopening t's issue succeeds; a claim takes row k.
Reopens(w, t) == /\ unblockStaleBlockedIssues(w, t)
                 /\ t \in listed[w] \ listed'[w] /\ phase'[w] = "scan"
Claims(w, k) == ClaimBeadsOutboxBatch(w) /\ k \in batch'[w]

\* Ticks keep coming and go on; a tracker or a database that fails now and
\* then answers in the end; a row in backoff becomes due.
FairSpec ==
    /\ Spec
    /\ \A w \in Worker : WF_vars(WorkerStep(w))
    /\ \A t \in Task : SF_vars(\E w \in Worker : Reopens(w, t))
    /\ \A k \in Key : SF_vars(\E w \in Worker : Claims(w, k))

---------------------------------------------------------------------------
(* Properties.                                                             *)

\* No two workers deliver the same row, whatever they claim at the same time;
\* and an inflight row has its worker, unless a batch was abandoned.
InflightOwned ==
    \A k \in Key :
        /\ (state[k] = "inflight" /\ abandoned = 0)
             => \E w \in Worker : k \in batch[w]
        /\ \A w \in Worker :
             k \in batch[w] => /\ state[k] = "inflight"
                               /\ \A v \in Worker \ {w} : k \notin batch[v]

\* A row is tried max_attempts times before it is given up, and never again.
AttemptsBounded ==
    \A k \in Key :
        /\ attempts[k] <= MaxAttempts
        /\ state[k] = "dead_letter" <=> attempts[k] = MaxAttempts

\* A row marked delivered has reached the tracker: the issue has been at its
\* target or further.
DeliveredMeansProjected ==
    \A k \in Key :
        state[k] = "delivered" => peak[k[1]] >= statusRank(target[k])

\* An event given to the outbox is delivered or given up, as long as no worker
\* abandons a batch.
DrainsUnlessAbandoned ==
    \A k \in Key : state[k] \in { "pending", "inflight" }
                     ~> \/ state[k] \in { "delivered", "dead_letter" }
                        \/ abandoned > 0

logged == [k \in Key |-> CASE state[k] = "absent" -> "none"
                          [] state[k] \in { "pending", "inflight" } -> "queued"
                          [] OTHER -> state[k]]
Log == INSTANCE EventLog WITH Event <- Key, outcome <- logged

\* Each event's row settles once, as the abstract log says.
ImplementsEventLog == Log!Spec
=============================================================================
