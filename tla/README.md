# CHUM v2: a verification project

CHUM v2 takes tasks out of an issue tracker and a dashboard, lets people
approve them, runs a coding agent on each approved task in a git worktree, has
another agent review the pull request, merges it and writes the outcome back.
It is one Go process: an HTTP server, a Temporal worker with its workflows and
activities, a SQLite database, and the command lines `gh`, `git` and `bd`.

This directory holds TLA+ models of that program, the TLC configurations that
check them, and proofs checked by TLAPS. `PROJECT.json` lists the runs, the
theorems, the source lines of every definition, the mutants every property was
tried against, the findings and the hazards.

    tlc -workers 2 -config MCLifecycle_gate.cfg MCLifecycle
    tlapm TaskLifecycleProofs.tla

and the same for the other runs of the table below and for the other modules
whose name ends in `Proofs`.

## The system

| Part | State it keeps | Operations | Talks to |
|---|---|---|---|
| Dispatcher tick (`engine/dispatcher.go`) | only what a tick has listed | recover zombies, list approved tasks, mark running, start children, recover orphaned reviews, sweep worktrees | task rows, Temporal (Describe, child start), GitHub, bridge |
| Agent execution (`engine/agent.go`) | workflow locals, worktree | set up, plan, decompose, execute, check, push, open PR, review loop, close | task row, worktree, GitHub, callbacks |
| Review execution (`engine/review_workflow.go`, `review_loop.go`, `review.go`) | workflow locals, worktree | resume the review of a parked task, review rounds, merge | task row, GitHub |
| Task store (`dag/dag.go`, `edges.go`, `cycle.go`) | rows of `tasks`, `task_edges` | create, status writes, readiness queries, atomic decomposition, project pause/resume, edges without cycles | everything above |
| System state (`dag/system_state.go`, `jarvis/system_api.go`, `engine/schedule.go`, `cmd/chum`) | pause row, Temporal schedule | pause, resume, shutdown with drain | ticks |
| Dashboard (`jarvis/dashboard_api.go`) | none | approve, reject, pause, kill, retry, decompose | task rows, `TriggerDispatch` |
| Beads bridge (`beadsbridge/*`, `dag/bridge.go`) | outbox, mapping, cursor and audit tables | scan the tracker, admit issues, sync dependencies, deliver the outbox, reconcile, submit | tracker, task rows |
| Planning (`planning/*`, `plansession/*`, `dag/planning_snapshot.go`) | ceremony workflow, snapshots, terminal session | goal, options, decomposition, greenlight by signals | LLM, chat, task rows |
| Plans (`dag/plan_store.go`, `jarvis/plans_*.go`) | plan documents | interview turns, draft tasks, materialize | LLM, task rows |
| Admission (`admit/*`) | none | validate, resolve targets, add AST fences | tracker, edges |
| Support (`git`, `llm`, `store`, `ast`, `codebase`, `chat`, `config`, `auth`, `notify`, `perf`, `health`, `watch`, `web`) | traces, lessons, safety blocks, statistics | I/O and data processing | |

Nothing locks: the ticks, the executions and the handlers share the task row,
the worktree directory (named after the task) and the pull request, and each
writes after a read that may be old. That is where the hard behaviour is: two
ticks at a time, a handler between a tick's listing and its write, an execution
that dies or whose last write fails, a delivery that is interrupted. What would
make each part correct:

* ticks: an agent starts only on an approval of its own; a task is worked on by
  one execution; a dead execution, a resumable review and an approved task are
  picked up in the end; a pause stops dispatch;
* closes: a recorded pull request is never lost; a person's decision stands;
* outbox: a row has one worker, a bounded number of attempts and one outcome; a
  delivered row has reached the tracker; every event is delivered or given up;
* review loop: what is merged is what was approved; a verdict is given once; every
  review comes to an end and every merge is recorded;
* edges: no cycle whatever is added concurrently; a task runs only when what it
  depends on is done, through decompositions too; nobody waits for ever for
  something that can no longer happen;
* bridge: it approves and completes nothing by itself; a submission that
  reports success stands; once people rest, the task store follows the tracker;
* planning: a plan is made of what was selected; a cancel before a GO wins;
  tracker and task store agree about what a ceremony has made; every ceremony ends;
* plans: an approval is spent once; what is materialized is complete and has
  passed the gate; no plan hangs in `materializing`; nothing said is lost;
* system control (not modelled yet): the pause row and the schedule agree.

## Modules

| Module | What it is |
|---|---|
| `TaskLifecycle` | task row, ticks, agent and review executions, task handlers |
| `TaskLifecycleProofs` | theorems about it |
| `MCLifecycle` | its instances for TLC |
| `ReviewLoop` | one pull request, its reviews, rework, push and merge |
| `ReviewLoopProofs` | theorems about it |
| `MCReview` | its instance for TLC |
| `TaskGraph` | task rows and edges: imports, the admission gate, the cycle check, decompositions, the readiness of approved tasks |
| `TaskGraphProofs` | theorems about its types and cycles |
| `TaskGraphOrderProofs` | the theorem about the order in which tasks start |
| `MCTaskGraph` | its instances for TLC |
| `BeadsScan` | tracker, task store and mappings under the bridge's scan, the reconciler and submissions |
| `BeadsScanProofs` | theorems about it |
| `MCBeadsScan` | its instances for TLC |
| `Planning` | one planning ceremony: workflow, signals, session timer, hand-off to tracker and task store |
| `PlanningProofs` | theorems about it |
| `MCPlanning` | its instance for TLC |
| `Plans` | one plan document and the HTTP requests about it |
| `PlansProofs` | theorems about it |
| `MCPlans` | its instances for TLC |
| `EventLog` | what the outbox promises for an event |
| `Outbox` | outbox table, its producers, its workers and the tracker |
| `OutboxProofs` | theorems about it |
| `MCOutbox` | its instances for TLC |

### TaskLifecycle

`status`, `prLink`, `pausedFrom` and `hasChildren` are the columns of the row
that matter: `tasks.status`; the pull request that `error_log` names, as
nothing, *held* (a PR whose close reason parks the task) or *recoverable* (one
whose reason `orphanReviewRecoverable` accepts); `paused_from_status` in the
metadata; and whether another row has this one as parent. `globalPause` is the
`system_state` row, `prState` the pull request on GitHub, `wf[k][t]` the
phase of the workflow `chum-<k>-<t>`, `worktree` whose checkout the task's
directory holds. A dispatcher `d` is a DispatcherWorkflow execution; `todo`,
`eligible`, `marked` and `sawPause` are its locals. `http` is a dashboard
request between its read and its write. `approvals`, `starts`, `deaths` and
`disturbed` are history: `disturbed` holds the tasks that a handler other than an
approval or a retry wrote, or a project pause or resume, or whose Describe failed,
while an execution was at work on them or a tick held them (`inWork`), until a tick
starts and finds them at rest.

A tick is cut where the code reads or writes the database: `TickStart` (pause
flag and list of running tasks), `ZombieCheck` per task, `ZombieScanDone`,
`ScanCandidates`, `MarkTaskRunning` per candidate, `StartChild`, `ListOrphans`,
`CheckOrphan` per parked task, `OrphansChecked`, `MarkTaskRunning` and
`StartChild` again for the reviews, `Sweep`. Each has the failure the code
handles beside it. Between any two of them other ticks, executions and people
may act.

An execution goes through `setup`, `execute`, `decomposed`, `review`, `merged`
and `tail`; in `tail` the task is closed and the notification, the callback,
the trace and the deferred removal of the worktree are still to come. All the
ways an agent can end before it has a pull request are one action,
`AgentCloseWithoutPR`; `AgentLosesPR` is the one where GitHub has the pull
request and the task does not; and the ends of the review loop are `CloseMerged` and
`CloseUnmerged`; a close writes status and `error_log` together (`closeTask`),
carries an older pull request over (`preserved`), and may fail (`CloseFails`).

A handler is a read (`RequestArrives`, where it refuses a status it does not
accept) and a write (`RequestWrites`) over whatever the row holds by then;
handlers that edit a note write back the metadata they read, with an old
`paused_from_status` in it. Project pause and resume are one transaction each.

What is abstracted: `closeTask`'s read of `error_log` and its update are one step;
so are the pause check, the listing and the suppressing write of `ScanCandidates`
(`dispatcher.go:261-454`), several statements in the code with nothing between them
but the bridge's part, so that a pause that falls between check and listing is a
pause just after the listing here; the bulk approval of a project is several
approvals; the handlers that also trigger a tick (retry, decompose, resume) are
followed by a tick whenever one is due, since ticks may start at any time. What is
left out: the statuses that only the bridge scan and the planning code write
(`open`, `done`, `stale`), the bridge scan's own status writes, dependencies between
tasks (a candidate's dependencies are satisfied), and text.

### ReviewLoop

`TaskLifecycle` knows of the review loop only that it may merge and how it may
close. `ReviewLoop` is that loop for one pull request: `head`, `madeBy`, `reviews`
and `merged` are GitHub's, `local`, `parent` and `tracking` the worktree's and the
repository's (remote-tracking branches are shared by all worktrees), and `phase`,
`round`, `known` (`PRInfo.HeadSHA`), `signal` (the draft) and `reason` (the close's
sub_reason) the workflow's. One action is one activity: `RunReview`,
`GuardReviewerClean`, `SubmitReview`, `CheckPRState`, `MergePR` (with `MergeUpdated`
after an update-branch), `Rework` (agent and definition of done), `Push`,
`RefreshPRInfo`. Between any two of them people push, review and dismiss, and
another task fetches. `Fails` marks the branches where a call fails; a submission
and a merge may fail after they took effect. `Dies` ends the execution anywhere.
`ReviewStarts` is the dispatcher resuming a recoverable review at round 1, and
`CompleteMerged` its completion of a parked task whose pull request is merged.

A review's verdict is what `reviewToOutcome` makes of its state and of the
fallback marker for one's own pull requests. Commits are numbers in the order
they were made. The loop's step after the last round is left out: the last
round never goes on to a rework. Left out too: a task that goes back to ready
and is run again by a new agent (`TaskLifecycle` has that), deletion of the
branch on merge, and a resumed review of a merged pull request when GitHub
cannot be asked whether it is merged.

### Outbox

A row of `beads_sync_outbox` is a key: task and event type, since that is its
idempotency key. `EnqueueBeadsOutbox` is the INSERT OR IGNORE; `TaskRuns`,
`EnqueueTaskStarted`, `TaskCloses` and `MergedTaskCompletes` produce events in
the order the dispatcher and the closes do. A worker is one bridge run, of a
tick or of `chum sync`: `ScanProject` and `unblockStaleBlockedIssues` (which may
reopen blocked issues), `ClaimBeadsOutboxBatch` (one transaction),
`ShowIssue` and `UpdateIssue` (the two bd commands of `deliverOne`), `MarkRow`.
`MarkFails` and `WorkerDies` abandon the batch. The tracker is external; a
command that fails may have taken effect. `next_attempt_at` is abstracted: a
claim finds any set of the rows in backoff due. `EventLog` is the abstract
specification: an event is queued once, settled once and stays settled;
`ImplementsEventLog` is the refinement: checked as a property, and proved.

### TaskGraph

`status` is `tasks.status` of every row there may be, subtasks included (`Steps`
says into which a task may be decomposed), `edges` is `task_edges` and `fences`
the edges whose source is `ast`. A session is a process that adds edges: the
command `chum sync` (`SyncToDAG`, then `RunGate`) or the activity that has
decomposed a task and runs the gate inline. It is cut where the code reads or
writes: `SyncToDAG` makes the rows of new issues, each with the status the tracker
has it in (`TrackerStatus`, whatever that is: `beads.go:86-90` keeps it, and skips
only what is closed), and reads their dependencies; `AddEdge`, `VisitNode` per
query of `wouldCreateCycle`, `RejectEdge` or `InsertEdge` are one AddEdge call;
`GateCleans` deletes the fences and lists the open tasks, `GatePromotes` handles
one of them, `GateListsReady` and `GateRechecks` look for stale ones,
`GateFences` computes the fences that are then added like any edge, and
`GateEnds` closes the task when the session is an agent's. `SessionFails` and
`AddEdgeFails` leave the rest undone. Ticks list (`ScanCandidates`, over
`GetApprovedNodes`, with the suppression of parents that have subtasks) and start
(`StartTask`) beside all that. `CreateSubtasksAtomic` is one transaction, used by
agents (`AgentDecomposes`) and by planning (`PlanSubtasks`): `chain` and `rewired`
are what it does to the edges. `declared` and `done` are history: the
dependencies imported in time by an edge of their own, and the tasks whose work is
over. A dependency that finds a fence in its place leaves no edge of its own, and is
not declared: the next gate deletes it with the fence.

A row that comes in as `in_progress` or `blocked` is moved by nothing but
`Decompose`, which asks nothing of the status; what depends on it waits for a person.
The comment of `SyncToDAG` (`beads.go:32-34`, "Only imports issues with status
"open" or "ready"") says that there are no such rows; the code and its own test
(`TestSyncToDAG_CreatesNewTasks`) say otherwise, and the model follows the code.

What is abstracted: whether a task's text passes the validation and which
symbols it resolves to are choices, the pairs on the same code (`Overlapping`) a
constant; a rewritten title changes nothing; a count of children that fails is
left out (a hazard); the import's rows are made in one step; a read and a write of
a handler too, which `TaskLifecycle` has apart. What is left out: ticks that
overlap, the cap, kills, pauses and dying agents, which `TaskLifecycle` has;
issues that the tracker closes; and `RemoveEdge`, which only the bridge scan calls.

`Overlap = FALSE` says that no AddEdge call overlaps another one, and that no
decomposition falls into an AddEdge call or into an import. Nothing in the code
enforces that; without it `Acyclic` fails (run `graph_overlap`).

### BeadsScan

A task that the bridge admits has the ID of its issue, so both are an `Issue`
here: `issue` is the tracker (status, a revision that stands for the text, and
dependencies), `task`, `content` and `edge` are the task store, and `map` and
`synthetic` the two kinds of rows `beads_sync_map` may hold for a task: one of its
issue with the fingerprint it was last read at, and one of an issue nobody has.

`ScanProject` is cut at every call to the tracker or the database: `ScanList` (which
may fail and leave the scan to show issues one by one), `ScanUnblock` per stale
blocked issue, `ScanReady`, then per ready issue `ScanTake` (skipped, new, changed
or known; read from the list, shown, or as bd ready tells of it), `ScanAdmit` and
`ScanCreate`, or `ScanUpdate`, `ScanPromote` and `ScanMakeReady`, `ScanMap`,
`ScanTerminal` and `ScanSettle` per completed dependency (`Settled` when none is
left or bd does not show the rest), `ScanPrune`, `ScanEdge` per edge, `ScanNext`: a
`GetTask` and the write that follows it are two steps; then the tick dispatches
(`Bootstrap`, which is `filterBeadsMappedReadyTasks`, and `Start`) until
`DispatchEnds`. `ScanFails` ends it anywhere. `ReconcileRead` finds drift and
`ReconcileFix` applies one fix after the other, whatever has changed since. A
submission is `SubmitCreate`, `SubmitMark` (the issue approved), `SubmitShow`,
`SubmitLook`, `SubmitCreateTask` or `SubmitUpdateTask`, `SubmitMap`. Between any two
of these people create, edit and close issues and approve tasks, the admission gate
adds fences, agents finish.

A promotion that read an open task writes ready over an approval that came in
between, although the comment there says that a later status "must not be reset"
(`scanner.go:447-450`); `demoted` marks the tasks that such a promotion or a fix has
taken an approval from.

What is abstracted: text is a revision number; what bd ready tells of an issue is
the issue without its dependencies; a bridge edge refused because it
closes a cycle is one test (`TaskGraph` has the search). What is left out: dry
runs, the audit trail and the cursor, which nothing reads back; several projects;
two scans at a time (a tick and `chum sync` may overlap).

### Planning

One PlanningWorkflow. `phase` is where it is; a phase named after an activity lasts
until that activity ends. `inbox` holds the signals that came and no selector has
taken. Temporal's selectors are what is hard here: one that finds signals waiting
takes them by channel in the order of its cases, one that had to wait takes what
comes first (`waiting`); `Takes` is both. `LoopHead` is `drainCancel` and the head
of the interactive loop. `TakeSelect`, `TakeDig`, `TakeQuestion`, `TakeGo`,
`TakeRealign` and `TakeCancel` are the cases of its selector, `TakeApproval` and
`TakeRejection` those of the approval's; the activities are actions of their own
with their failures beside them (`DeeperResearch`, `DecomposeApproach`,
`BuildPlanSpec`, `RecordPlanningDecision`). The hand-off is cut at each issue
(`CreateIssue`), at the transaction (`CommitSubtasks`) and at each rollback
(`RollbackIssue`), and may die (`HandoffDies`). A Create may be refused
(`CreateFails`) or fail after bd has opened the issue (`CreateUnreported`: bd is
killed, or its answer cannot be read or names no issue); the rollback closes what
was `Prepared`, which that issue is not. `SendSignal` is what chat and dashboard
send; `SessionTimeout` the session's timer, which does not wake a selector that
waits.

What a language model says is a choice; so is which approach it recommends. An
approach keeps how deep it was researched, which is how a stale copy shows. One
ceremony per goal, since the dashboard's start and Temporal's workflow ID refuse a
second one while the first runs.

### Plans

`plan` is the row of `plan_docs`: status, conversation, draft and the goal's epic.
A connection has one request at a time; `at` says how far it is and `read` keeps
the row as it read it, wherever the handler goes on to use that copy. A turn of
grooming is `GroomBegin`, `GroomAppend`, `GroomStatus` (which writes the whole row
back when the plan was in draft) and `GroomAnswer`; the terminal session,
interview, decomposition and approval are cut in the same way. A materialization
is `MaterializeBegin` (the compare-and-swap of the status), `MaterializeRead`,
`CreateGoal`, `CreateItem` per task in the order `NextItem` takes from
`topoSortDraftTasks`, `WireDependency` per dependency, `MaterializeDone`; it goes by
the tracker or straight to the task store (`Config`). `MaterializeRefused`,
`ParentsRefused`, `CycleRefused` and `MaterializeFails` give the approval back, or
fail to, since the code ignores an error of that write (`BackToApproved`). `ReadFails`
(`GetPlan` after the transition, `plans_backend.go:550-554`) and `LastWriteFails`
(lines 593-599) are the two returns that give nothing back; `forgotten` remembers
that one of these has happened. `RequestLost` is a process that dies or a client that
leaves, and `lost` remembers that. `mats` holds what
each run has created.

A draft is what the model answered: a list of tasks with parents and
dependencies, and whether it passes the gate of the approval. `computeBatches` and
the order of creation are the code's algorithms, as recursive functions. Left out:
`handlePlanSave`, which writes title and text only, deletion, listing and streaming.

## Runs

| Run | Instance | Shows |
|---|---|---|
| `lifecycle_gate` | 1 task, 1 dispatcher, all faults, all task handlers, 2 approvals, 1 death | `TypeOK`, `ApprovalGate`, `ApprovalsAccounted`, `NoDoubleExecution`, `TerminalMeansStopped`, `PRLinkKept` |
| `lifecycle_recovery` | 1 task, 1 dispatcher, failing closes, approve/retry/merge and the system's pause, 2 approvals, 2 deaths; fair | `ZombiesRecovered`, `ReviewsResumed`, `ApprovedStarts` |
| `lifecycle_overlap` | 2 dispatchers | `ApprovalGate` violated |
| `review` | 2 rounds, 3 commits, 1 remark by a person, 1 failure or death, everything people do; fair | `TypeOK`, `MergedWasApproved`, `OneVerdict`, `ReviewSettles`, `MergeRecorded` |
| `outbox` | 1 task (2 rows), 2 workers, all faults, 2 attempts, 2 runs, 1 abandoned batch; fair | `TypeOK`, `InflightOwned`, `AttemptsBounded`, `DeliveredMeansProjected`, `ImplementsEventLog`, `DrainsUnlessAbandoned` |
| `graph` | 3 issues, one with 2 subtasks; 3 dependencies that form a cycle; 1 issue that may be in_progress in the tracker; 1 pair on the same code, 1 task whose code may vanish, 1 sync, 1 failure; fair | `TypeOK`, `Acyclic`, `OrderRespected`, `NobodyLeftBehind` |
| `graph_overlap` | 3 issues, one with a subtask, a late dependency against a fence, 2 syncs, overlapping calls | `Acyclic` violated |
| `beads_scan` | 2 issues in any state, one imported before, 2 edits, fences, reconciliations or failures, submissions besides; fair | `TypeOK`, `ApprovalFromPeople`, `CompletionEarned`, `SubmissionStands`, `ConvergesUnlessSynthetic` |
| `beads_synthetic` | the same | `DispatchGoesOn` violated |
| `planning` | 2 approaches, 2 steps, tracker first, 2 rounds, 2 cycles, 5 signals with 2 waiting, 2 failures; fair | `TypeOK`, `PlanFitsSelection`, `TrackerAgrees`, `CancelBeforeGoWins`, `CeremonyEnds` |
| `plans` | 2 connections, 6 requests, 5 drafts of 3 tasks, 3 configurations, 1 message, 1 failure or departure | `TypeOK`, `ApprovalSpentOnce`, `MaterializedComplete`, `MaterializingHasWorker`, `GatedUnlessRaced`, `BatchOrder` |
| `plans_groom` | 1 connection, 2 requests, no failure | `MessageKept` violated |

Bounds. Tasks share nothing in `TaskLifecycle` but the pause flag and the
per-tick cap, so one task shows every race of a row; the proofs cover any
number. Two approvals let a second approval meet what is left of the first,
one death lets an execution disappear at any point, and two let the recovery
itself be interrupted. `MaxConcurrent = 1` is the cap at its limit. In `Outbox`,
one task has the two rows that compete, two workers race for them, two attempts
reach the dead letter, and two runs give the same key a second event. In
`ReviewLoop`, two rounds are a first and a last one, three commits let a rework
or an update meet somebody else's push, and one failure leaves a verdict or a
merge that nobody was told of; a loop may be resumed any number of times.
`PageSize` is 30, GitHub's default: with fewer reviews than that the list is
complete, beyond it `OneVerdict` and `ReviewSettles` fail (a hazard); the proof of
`MergedWasApproved` needs no bound on it.
In `TaskGraph`, a decomposed task in the middle of a chain of dependencies shows
what is inherited on both sides, two subtasks have a first and a last one, the
third dependency is one the cycle check must refuse, and a fence joins a pair
that a dependency joins too. One sync is what `NobodyLeftBehind` can stand: a second
one after a decomposition makes dependents wait for the decomposed parent, who is
never completed. `OrderRespected` needs no such bound and is proved without one. With
one task decomposed once, AddEdge runs in two sessions.
In `BeadsScan`, two issues may depend on each other in either direction, one has a
task without a mapping, and two acts put an edit or a failure on both sides of
any step of a scan; submissions are not counted. In `Planning`, two approaches
allow a stale selection, two cycles a rejection after which everything is made
again, five signals a cancel and a GO behind other signals, and two failures a
failed rollback of a failed hand-off. In `Plans`, the drafts are a chain listed
children first, an ungated one, a cycle of dependencies, a cycle of parents and an
unknown reference; six requests decompose, approve and materialize twice while
the other connection does the same.
`lifecycle_gate` has every task handler and every fault; the tasks that were disturbed
in work are exempt in `NoDoubleExecution` and `TerminalMeansStopped`, which TLC refutes
without `disturbed`: a kill, a pause or a decision of a person writes the row and
stops nothing, and a Describe that fails counts as "not active". `lifecycle_recovery`
adds the system's pause and the merge by hand and leaves the other handlers out,
since after a kill or a pause nothing is owed to the task.
With one task and `MaxConcurrent = 1`, `ApprovedStarts` shows that the cap lets a task
through; it says nothing about tasks that compete for it.

Fairness. `FairSpec` of `TaskLifecycle`: Temporal's schedule starts ticks and its
task queues carry every started workflow on, so every dispatcher and every task's
executions are weakly fair, and a handler that has read writes. People owe nothing.
`FairSpec` of `ReviewLoop`: Temporal carries the loop on and ticks keep resuming, so
the loop's step is weakly fair; failures and people's deeds are bounded, so the
properties say what happens once they stop. `FairSpec` of `Outbox`: workers are
weakly fair for the same reason; reopening an issue and claiming a row are strongly
fair, which says that a database and a tracker which fail now and then succeed in
the end and that a row in backoff becomes due. A delivery need not ever succeed: it
is given up after its attempts. `Spec` of `TaskGraph`: a session's next step, the
scan, the starts and an agent's end are weakly fair, since ticks are scheduled and
processes go on; approvals, decisions about parked tasks and a further sync are owed
by nobody, so a task that waits for one of them is not left behind. `Spec` of
`BeadsScan`: the scan's steps and agents' ends are weakly fair, and the recovery of
a zombie, which every tick begins with, strongly; submissions, reconciliations,
people and dispatch owe nothing. `Spec` of `Planning`: the workflow's step and the
session's timer are weakly fair, and no signal is owed, so `CeremonyEnds` says that
the timeouts suffice. `Plans` has no fairness: a request may be cut off anywhere.

`DrainsUnlessAbandoned` exempts runs in which a worker abandons a batch: the
claim takes pending rows only, so a row that a dead worker left inflight stays so,
and without the exemption TLC refutes the property. `ConvergesUnlessSynthetic`
exempts runs with a synthetic mapping, which `beads_synthetic` is about.

## Findings

Four disagreements between the code and what it says of itself came out of the
models; `PROJECT.json` quotes the lines:

* overlapping ticks spend one approval twice (`lifecycle_overlap`);
* two AddEdge calls close a cycle (`graph_overlap`);
* grooming a plan in draft writes back the row as it was before the message was
  appended, and the message is gone (`plans_groom`);
* a task whose issue could not be shown once gets a synthetic mapping, and every
  later scan that admits the issue fails before anything is dispatched
  (`beads_synthetic`).

Three more are in the models, and their properties name them as exceptions instead
of a run of their own: issues imported with a status that a comment says is not
imported (`TaskGraph`, `RawStatus`), a promotion that resets an approval that a comment
says it must not reset (`BeadsScan`, `ScanMakeReady`), and two returns of a
materialization that leave the plan where no handler takes it (`Plans`, `Forget`).

## Proofs

`TaskLifecycleProofs` proves, for every set of tasks and dispatchers, every cap,
every selection of operator actions and faults, and every bound:

* `TypeCorrect`: `Spec => []TypeOK`;
* `ApprovalsAlwaysAccounted` and `ApprovalGateHolds`: the approval gate, under
  the assumption `NoOverlap` that there is one dispatcher, which is what the
  schedule's overlap policy gives and `TriggerDispatch` takes away (the run
  `lifecycle_overlap`);
* `LinkKept`: `PRLinkKept`, with any number of dispatchers;
* `ExecutionsStayApart` and `TerminalIsStopped`: `NoDoubleExecution` and
  `TerminalMeansStopped`, under `NoOverlap` alone, with every handler and fault.
  `NoOverlap` is needed: two overlapping ticks start a review or an agent twice.

`ApprovalGate` is not inductive: it does not say why the next start is paid
for. `ApprovalsAccounted` adds it: an approved row, a row that a project pause
found approved, and a listed candidate each stand for one approval not yet
spent, a marked candidate for one more, and a marked task is no longer listed.
Most steps are `Quiet`, that is, they neither list, mark, approve nor start and
move no row into the approved or paused statuses; one lemma shows that quiet
steps keep the accounts, and the steps that are not quiet (scan, mark, start,
approve, pause, resume, deaths of a tick) are proved one by one.

`SeparateInv` is what keeps executions apart, task by task: at most one is live
(not idle, not in its tail), its task is running unless it waits for the close of
a decomposed parent, what a tick has listed to start is approved or parked and no
approval or retry is about to write it, what it has marked is stopped, and a task that
may be retried names no review to resume. It speaks of the tasks that are not
`disturbed`. A task at rest satisfies it whatever its row says (`AtRest`), which is why
a tick may wipe the marks of the tasks it does not reach, and why a kill or a pause
of a task at rest needs no mark (`StaysAtRest`). The steps of executions go through one lemma
(`RunStep`), those of a tick that only list through another (`ListStep`), and the six that
write a row or start an execution are proved one by one.

`ReviewLoopProofs` proves, for every number of rounds, every page size, everything
people may do, and every bound:

* `TypeCorrect`: `Spec => []TypeOK`. The types alone are not inductive: that a
  posted review has a verdict and that a round never exceeds the limit rest on
  where the loop is (`VerdictRead`, `RoundLeft`);
* `MergesAreApproved`: `Spec => []MergedWasApproved`. The inductive invariant says
  that a standing review was given for its commit (`VerdictsKept`), that from the
  reading of `PRInfo` to the merge the head is the commit that was read unless
  somebody else's is on top (`HeadKnown`), that the loop merges only after an
  approval of the commit it knows (`ApprovedToMerge`), and that no commit is made
  twice (`Made`). `LatestMatches` shows that `findLatestMatchingReview` returns a
  review that matches;
* `VerdictPostedOnce`: `Spec => [](Len(reviews) <= PageSize => OneVerdict)`.
  `SubmitReview` asks whether the commit it knows was reviewed and then posts to
  whatever commit the branch is at. `VerdictInv` says why that is no second verdict:
  from the reading of the head to the post, a head other than the one read is a
  new commit of somebody else, which the reviewer has not seen
  (`NewHeadUnreviewed`). The invariant speaks of the reviews that are listed
  (`OneListed`), so that it stays inductive when the pull request outgrows the page.
  The theorem needs its bound: a verdict beyond the page is posted again.

`TaskGraphProofs` proves, for every set of tasks, every decomposition, all
dependencies and conflicts, and every bound:

* `TypeCorrect`: `Spec => []TypeOK`, overlapping calls included;
* `AcyclicHolds`: `Spec => []Acyclic`, under the assumption `~ Overlap`.

`Acyclic` is not inductive: it does not say what a search under way has found
out. `GraphInv` adds it: the nodes a search has seen hold its target or its
queue does, never its source, and every edge of a seen node leads to a seen or
a queued one (`Search`); only one call is under way (`OneAdder`); and edges join
rows that exist (`Rows`), so that new subtasks have none. Every step is of one of
a few kinds (`Kinds`): it adds no edge and touches no search, ends a search, is
one of the three steps of AddEdge, or decomposes a task. The two lemmas on graphs
are the core: `InsertKeepsNoCycle` (an edge from outside a closed set into it
closes no cycle) and `DecompositionKeepsNoCycle` (replacing a node by a chain
does not either), the latter with the least subtask of a set from the
well-foundedness of the natural numbers.

`TaskGraphOrderProofs` proves for the same instances, and with `Overlap` or
without:

* `OrderHolds`: `Spec => OrderRespected`, with no assumption beside those on the
  constants: any number of syncs, any dependencies, any conflicts.

What a task was declared to wait for is not among its edges any more when the task,
or what it waits for, has been decomposed. `OrderInv` follows it: every declared
dependency has an edge that is no fence, from the first subtask of its source (or
the source itself) to its target or the last subtask of its target
(`Represented`); the chain of subtasks is kept (`ChainKept`); an edge that is no
fence blocks until its target is completed, and what is completed is done
(`CompletedDone`); so what is listed is clear to start (`TodoCleared`), and a
subtask begins only when its siblings before it are done and its parent was clear
(`InTurn`), which is why the last one stands for all. `ImportInv` is about where
edges come from: only `chum sync` imports, and only what the tracker says
(`Importing`), a search has not met its own source (`SearchEnds`), and what is listed,
started or done has a row (`Known`).

What makes a dependency `declared` is therefore part of the claim: it was inserted as
an edge of its own, before its task was listed for a start or decomposed. Counted from
the import alone, TLC refutes the property with two syncs and a late dependency
between two tasks that a fence joins: the insert is ignored, the row stays a fence, and
the next gate deletes it. `OrderHolds` needs no assumption about overlapping calls: two
of them may close a cycle, which blocks more than it should and never less.

`OutboxProofs` proves, for every set of tasks and workers, every batch size, number
of attempts and selection of faults:

* `TypeCorrect`, with the batch that a worker has exactly while it delivers;
* `InflightOwnedHolds` and `AttemptsBoundedHolds`, both inductive beside the types;
* `DeliveredIsProjected`: `DeliveryInv` adds that no issue is beyond the furthest
  status it ever had, and that a worker about to mark a row delivered has moved its
  issue or found it far enough;
* `ImplementsLog`: every step of `Outbox` is a step of `EventLog` on one event or a
  stutter, with `InflightOwned` telling a delivery of a settled row apart.

`PlansProofs` proves, for any number of connections and tasks, every set of drafts,
every configuration and every bound:

* `TypeCorrect`; `WorkerHolds`, by the steps that write a status one by one: which
  returns forget the status is what `forgotten` lists, and no other does;
* `GateHolds`: the row holds a gated draft from the approval on and a request keeps
  the one it read, as long as nothing raced (`GateInv`);
* `ApprovalsSpentOnce`: `BudgetInv` counts what an approval has become, a
  materialized run, a request that materializes, or the status of the row, and
  shows that their number never exceeds the approvals granted;
* `MaterializedIsComplete`: a run in work is clean (what it created has the draft's
  parents and edges, `RunsClean`), belongs to one request (`RunsOwned`), wires only
  when everything is created (`WiredLast`), and is complete when it is reported;
* `BatchesInOrder`: `BatchOrder`, which is about an algorithm and not about steps.
  `computeBatches` visits the tasks one by one, in n passes over n tasks. `Sound` says
  what holds after every visit: a batch above 0 is explained by a dependency, since
  batches only rise. A set of tasks is `Settled` when it holds all its members depend
  on and each is in the batch right after the last of these. `VisitKeeps`: a settled
  set stays settled; `VisitSettles`: a visit adds a task whose dependencies are
  settled; `SomeTaskIsNext`: an acyclic draft always has one; `PassSettles`: so each
  pass settles one more, and n passes settle all. The recursion is unfolded by
  `VisitsExist` and `BatchesAreVisits`, and each induction on the number of visits or
  passes is an argument about the least counterexample (`LeastNumber`), since the
  provers cannot instantiate an induction theorem.

`PlanningProofs` proves, for every set of approaches, number of steps, rounds and
cycles: `TypeCorrect`; `PlanAlwaysFits` (`PlanInv`: nothing is selected before the
list is settled, something is from a GO to the end of the hand-off, and nothing is
decided after the commit); `TrackerAlwaysAgrees` (no issue exists before the
hand-off, and the issue of a Create that was reported as failed is the last, since the
rollback begins there); and `CancelsWin`, an action property, from `CancelsAfter`: in the
interactive phase, a selector that found signals waiting found one before any
cancel that has come since, because the head of the loop has drained the cancels.

`BeadsScanProofs` proves, for every finite set of issues, labels, imports and
allowed fixes: `TypeCorrect`; `ApprovalsComeFromPeople` (no fix approves);
`CompletionsAreEarned` (`EarnedInv`: what is closed in the tracker, in the list, in
the record the scan holds or behind a fix that completes has been earned, however
old it is); and `SubmissionsStand`, from `Stands`: the task of a submission that is
about to be mapped has not gone back behind its approval, or is `demoted`.

Every invariant and every action property that a passing run checks is stated by one
of these theorems. Only model-checked: liveness, which is out of the prover's reach
(`ZombiesRecovered`, `ReviewsResumed`, `ApprovedStarts`, `ReviewSettles`,
`MergeRecorded`, `DrainsUnlessAbandoned`, `NobodyLeftBehind`,
`ConvergesUnlessSynthetic`, `CeremonyEnds`).

## Plan

What is left, in this order:

1. `SystemControl`: the pause row and the Temporal schedule under the two-step
   pause and resume handlers, `chum shutdown` and its drain.
2. Two scans at a time in `BeadsScan` (a tick beside `chum sync`).
3. Proofs: the two assumptions left, `NoOverlap` (ticks) and `~ Overlap` (AddEdge
   calls), replaced by a condition on what has happened so far, as `disturbed`,
   `raced`, `lost` and `forgotten` are.
4. Terminal sessions (`plansession`) and their supervision.

## Not modelled

Process and network I/O, what language models are asked and how their output is
parsed (`llm`, `jsonutil`), AST parsing and embedding (`ast`, `codebase`), prompt
formatting, chat transports, statistics, traces and lessons (`store`, `perf`,
`metrics`), authentication, configuration, health, watch and notification code,
and the browser code: they keep no state that another part relies on between two
steps. The pause and resume handlers of `system_api.go`, the drain of `chum
shutdown`, terminal sessions, and the read-only and dependency-editing dashboard
handlers do, and are left for the plan.

Some hazards of the modelled parts have no property, because nothing in the code
says what ought to hold: `max_concurrent` caps the candidates of one tick and not
the executions running (`dispatcher.go:405`); a killed or paused task's agent works
on (`dashboard_api.go:1073` and `1040`), and a Describe that fails counts as "not
active" (`dispatcher.go:783`), both exempted as `disturbed`; a closed
agent's deferred cleanup removes the directory a resumed review may use
(`agent.go:61`); `deliverOne` shows an issue and then updates it
(`outbox_worker.go:152`); a fence blocks only while the other task is ready, running
or approved (`dag.go:457`).
