--------------------------- MODULE TaskLifecycle ---------------------------
(***************************************************************************)
(* The life of a task: the dashboard handlers that approve, pause, kill    *)
(* and retry it, the DispatcherWorkflow ticks that dispatch and recover    *)
(* it, and the AgentWorkflow and ReviewWorkflow executions that work on it *)
(* and close it.  The actors share the task row (status, error_log), the   *)
(* task's worktree directory and its pull request, and none of them locks. *)
(*                                                                         *)
(* A dispatcher tick is one workflow of several activities; every activity *)
(* that reads the database and every one that writes it is a step of its   *)
(* own, so what a tick listed can be stale when the tick acts on it.       *)
(***************************************************************************)
EXTENDS Naturals, FiniteSets

CONSTANTS
    Task,           \* the tasks of one enabled project
    NoTask,         \* "no task", for the empty slots
    Dispatcher,     \* DispatcherWorkflow executions that may overlap
    MaxConcurrent,  \* general.max_concurrent: candidates kept per tick
    OperatorOps,    \* what people do in this instance (see Operation)
    Faults,         \* which calls may fail in this instance (see Fault)
    MaxApprovals,   \* bound: approvals per task
    MaxDeaths       \* bound: executions Temporal kills or times out

Status == { "ready", "approved", "running", "paused", "needs_review",
            "completed", "failed", "dod_failed", "decomposed", "rejected",
            "needs_refinement" }

\* The statuses whose worktree directory the sweep removes.
terminalStatuses == { "completed", "failed", "decomposed", "dod_failed" }

\* What error_log says of a pull request: nothing that parses to a positive
\* pr_number, a PR whose close reason parks the task, or one whose reason
\* orphanReviewRecoverable accepts.
PRLink == { "none", "held", "recoverable" }

Kind == { "agent", "review" }

\* Where an execution is.  "idle" is the only phase Describe reports as not
\* active; in "tail" the task is closed, and the notification, the callback,
\* the trace and the deferred worktree cleanup are still to come.
Phase == { "idle", "mark", "setup", "execute", "decomposed", "review",
           "merged", "tail" }

\* The phases in which an execution uses its worktree.
Working == { "execute", "review" }

TickPhase == { "idle", "zombies", "scan", "dispatch", "orphans", "recover" }

\* The calls that may fail: Describe, a child start, a database statement of
\* the dispatcher, the statement that closes a task, and gh.
Fault == { "describe", "start", "store", "close", "github" }

---------------------------------------------------------------------------
(* The dashboard's task handlers: the statuses each one accepts and the    *)
(* status it writes.  "approve" and "accept" are the two cases of          *)
(* handleDashboardTaskApprove, "return" and "reject" of ...TaskReject.     *)

accepts ==
    [ approve   |-> { "ready" },
      accept    |-> { "needs_review" },
      return    |-> { "ready", "approved" },
      reject    |-> { "needs_review" },
      pause     |-> { "running" },
      kill      |-> { "running", "ready" },
      retry     |-> { "failed", "dod_failed", "rejected", "needs_refinement" },
      decompose |-> Status ]

writes ==
    [ approve   |-> "approved",
      accept    |-> "completed",
      return    |-> "ready",
      reject    |-> "rejected",
      pause     |-> "ready",
      kill      |-> "failed",
      retry     |-> "ready",
      decompose |-> "needs_refinement" ]

TaskOp == DOMAIN writes

\* The handlers that also replace error_log with text that names no PR.
clearsErrorLog == { "kill", "retry" }

\* The handlers that store a person's note in the metadata they read.
annotates == { "approve", "accept", "return", "reject" }

\* The handlers whose write never takes a task out of an execution's hands,
\* although nothing locks: see NoDoubleExecution.
harmless == { "approve", "retry" }

Operation == TaskOp \cup { "project_pause", "global_pause", "global_resume",
                           "merge_on_github" }

\* What metadata.paused_from_status may say.
PausedFrom == { "none", "ready", "approved" }

\* A request in progress, with the paused_from_status of the metadata it read.
NoRequest == [op |-> "none", task |-> NoTask, read |-> "none"]
Request == [op : TaskOp, task : Task, read : PausedFrom] \cup { NoRequest }

ASSUME TaskAssumption == NoTask \notin Task
ASSUME BoundAssumption == /\ MaxConcurrent \in Nat
                          /\ MaxApprovals \in Nat
                          /\ MaxDeaths \in Nat
ASSUME InstanceAssumption == /\ OperatorOps \subseteq Operation
                             /\ Faults \subseteq Fault

---------------------------------------------------------------------------
VARIABLES
    status,       \* tasks.status
    prLink,       \* the PR that tasks.error_log names
    pausedFrom,   \* tasks.metadata.paused_from_status
    hasChildren,  \* some task row has this one as parent_id
    globalPause,  \* system_state.global_pause
    prState,      \* the task's pull request on GitHub
    wf,           \* wf[k][t]: phase of workflow chum-<k>-<t>
    worktree,     \* whose checkout the task's worktree directory holds
    tick,         \* tick[d]: where dispatcher d is in its tick
    todo,         \* todo[d]: what d listed and has not handled yet
    eligible,     \* eligible[d]: orphans d decided to resume
    marked,       \* marked[d]: task d marked running, child not yet started
    sawPause,     \* sawPause[d]: the global pause as d's zombie scan read it
    http,         \* the dashboard request between its read and its write
    approvals,    \* history: times the task was approved
    starts,       \* history: times an AgentWorkflow started for the task
    deaths,       \* executions that died so far
    disturbed     \* history: tasks that somebody, or a failed Describe,
                  \* reached while they were in work (see inWork)

row    == << status, prLink, pausedFrom, hasChildren >>
disp   == << tick, todo, eligible, marked, sawPause >>
vars   == << row, globalPause, prState, wf, worktree, disp, http,
             approvals, starts, deaths, disturbed >>

TypeOK ==
    /\ status \in [Task -> Status]
    /\ prLink \in [Task -> PRLink]
    /\ pausedFrom \in [Task -> PausedFrom]
    /\ hasChildren \in [Task -> BOOLEAN]
    /\ globalPause \in BOOLEAN
    /\ prState \in [Task -> { "none", "open", "merged" }]
    /\ wf \in [Kind -> [Task -> Phase]]
    /\ worktree \in [Task -> Kind \cup { "none" }]
    /\ tick \in [Dispatcher -> TickPhase]
    /\ todo \in [Dispatcher -> SUBSET Task]
    /\ eligible \in [Dispatcher -> SUBSET Task]
    /\ marked \in [Dispatcher -> Task \cup { NoTask }]
    /\ sawPause \in [Dispatcher -> BOOLEAN]
    /\ http \in Request
    /\ approvals \in [Task -> Nat]
    /\ starts \in [Task -> Nat]
    /\ deaths \in Nat
    /\ disturbed \subseteq Task

\* Tasks arrive from the admission gate "ready"; nothing runs yet.
Init ==
    /\ status = [t \in Task |-> "ready"]
    /\ prLink = [t \in Task |-> "none"]
    /\ pausedFrom = [t \in Task |-> "none"]
    /\ hasChildren = [t \in Task |-> FALSE]
    /\ globalPause = FALSE
    /\ prState = [t \in Task |-> "none"]
    /\ wf = [k \in Kind |-> [t \in Task |-> "idle"]]
    /\ worktree = [t \in Task |-> "none"]
    /\ tick = [d \in Dispatcher |-> "idle"]
    /\ todo = [d \in Dispatcher |-> {}]
    /\ eligible = [d \in Dispatcher |-> {}]
    /\ marked = [d \in Dispatcher |-> NoTask]
    /\ sawPause = [d \in Dispatcher |-> FALSE]
    /\ http = NoRequest
    /\ approvals = [t \in Task |-> 0]
    /\ starts = [t \in Task |-> 0]
    /\ deaths = 0
    /\ disturbed = {}

---------------------------------------------------------------------------
(* Helpers.                                                                *)

active(k, t) == wf[k][t] # "idle"

\* Mutant: the zombie scan looks for the agent workflow only.
anyActive_AgentOnly(t) == active("agent", t)
anyActive(t) == \E k \in Kind : active(k, t)

\* Some execution of the task has not ended and not reached its tail.
executing(t) == \E k \in Kind : wf[k][t] \notin { "idle", "tail" }

\* A task in work: an execution works on it, or a tick has listed it or
\* marked it and has yet to act.
held(t) == \E d \in Dispatcher :
             t \in todo[d] \cup eligible[d] \/ marked[d] = t
inWork(t) == executing(t) \/ held(t)

\* In work, or read by a handler that has not written yet.
reached(t) == inWork(t) \/ http.task = t

SetStatus(t, s) == status' = [status EXCEPT ![t] = s]
SetPhase(k, t, p) == wf' = [wf EXCEPT ![k][t] = p]

\* Mutant: a close without a PR number overwrites the one in error_log.
preserved_Overwrite(t, link) == "none"

\* closeTask without a PR number in the new detail: the PR that error_log
\* already names is carried over, with the new reason.
preserved(t, link) == IF prLink[t] = "none" THEN "none" ELSE link

\* closeTask: status and error_log in one UPDATE.
closeTask(t, s, link) ==
    /\ SetStatus(t, s)
    /\ prLink' = [prLink EXCEPT ![t] = link]

---------------------------------------------------------------------------
(* DispatcherWorkflow.                                                     *)

\* Mutant: no recovery while the system is paused.
zombieListed_NotPaused ==
    { t \in Task : status[t] = "running" /\ ~globalPause }

\* The tasks the zombie scan lists.
zombieListed == { t \in Task : status[t] = "running" }

\* A tick starts: scheduled ticks do not overlap (SCHEDULE_OVERLAP_POLICY_
\* SKIP), the one-off ticks of TriggerDispatch do.  ScanZombieRunning reads
\* the pause flag, then lists the running tasks.
TickStart(d) ==
    /\ tick[d] = "idle"
    /\ tick' = [tick EXCEPT ![d] = "zombies"]
    /\ sawPause' = [sawPause EXCEPT ![d] = globalPause]
    /\ todo' = [todo EXCEPT ![d] = zombieListed]
    /\ disturbed' = { t \in disturbed : reached(t) }
    /\ UNCHANGED << row, globalPause, prState, wf, worktree, eligible, marked,
                    http, approvals, starts, deaths >>

\* The zombie scan fails; the tick goes on without it.
ZombieScanFails(d) ==
    /\ "store" \in Faults
    /\ tick[d] = "idle"
    /\ tick' = [tick EXCEPT ![d] = "scan"]
    /\ UNCHANGED << row, globalPause, prState, wf, worktree, todo, eligible,
                    marked, sawPause, http, approvals, starts, deaths,
                    disturbed >>

zombieTarget(d) == IF sawPause[d] THEN "needs_review" ELSE "ready"

\* One listed task: Describe both workflows, and write the recovery status
\* over whatever the row holds by now.  A Describe that fails counts as "not
\* active".
ZombieCheck(d, t) ==
    /\ tick[d] = "zombies"
    /\ t \in todo[d]
    /\ todo' = [todo EXCEPT ![d] = @ \ {t}]
    /\ \/ /\ anyActive(t) \/ "store" \in Faults
          /\ UNCHANGED << status, disturbed >>
       \/ /\ ~anyActive(t)
          /\ SetStatus(t, zombieTarget(d))
          /\ UNCHANGED disturbed
       \/ /\ anyActive(t) /\ "describe" \in Faults
          /\ SetStatus(t, zombieTarget(d))
          /\ disturbed' = IF executing(t) THEN disturbed \cup {t}
                                          ELSE disturbed
    /\ UNCHANGED << prLink, pausedFrom, hasChildren, globalPause, prState, wf,
                    worktree, tick, eligible, marked, sawPause, http,
                    approvals, starts, deaths >>

ZombieScanDone(d) ==
    /\ tick[d] = "zombies"
    /\ todo[d] = {}
    /\ tick' = [tick EXCEPT ![d] = "scan"]
    /\ UNCHANGED << row, globalPause, prState, wf, worktree, todo, eligible,
                    marked, sawPause, http, approvals, starts, deaths,
                    disturbed >>

\* Mutant: one candidate too few.
truncated_OffByOne(candidates) ==
    { kept \in SUBSET candidates : Cardinality(kept) < MaxConcurrent }

\* The candidates cut to max_concurrent: any of them may come first, since
\* priorities are data.
truncated(candidates) ==
    { kept \in SUBSET candidates :
        /\ Cardinality(kept) <= MaxConcurrent
        /\ kept = candidates \/ Cardinality(kept) = MaxConcurrent }

\* ScanCandidatesActivity: nothing while globally paused; else the approved
\* tasks, those that already have children marked decomposed and dropped, cut
\* to max_concurrent.
ScanCandidates(d) ==
    /\ tick[d] = "scan"
    /\ tick' = [tick EXCEPT ![d] = "dispatch"]
    /\ LET approved   == { t \in Task : status[t] = "approved" }
           redundant  == { t \in approved : hasChildren[t] }
           candidates == approved \ redundant
       IN  IF globalPause
           THEN /\ todo' = [todo EXCEPT ![d] = {}]
                /\ UNCHANGED status
           ELSE /\ status' = [t \in Task |-> IF t \in redundant
                                             THEN "decomposed" ELSE status[t]]
                /\ \E kept \in truncated(candidates) :
                     todo' = [todo EXCEPT ![d] = kept]
    /\ UNCHANGED << prLink, pausedFrom, hasChildren, globalPause, prState, wf,
                    worktree, eligible, marked, sawPause, http, approvals,
                    starts, deaths, disturbed >>

\* The scan fails: the tick ends.
ScanCandidatesFails(d) ==
    /\ "store" \in Faults
    /\ tick[d] = "scan"
    /\ tick' = [tick EXCEPT ![d] = "idle"]
    /\ sawPause' = [sawPause EXCEPT ![d] = FALSE]
    /\ UNCHANGED << row, globalPause, prState, wf, worktree, todo, eligible,
                    marked, http, approvals, starts, deaths, disturbed >>

\* Mutant: the child is started without the mark.
MarkTaskRunning_NoMark(d, t) ==
    /\ tick[d] \in { "dispatch", "recover" }
    /\ marked[d] = NoTask
    /\ t \in todo[d]
    /\ todo' = [todo EXCEPT ![d] = @ \ {t}]
    /\ marked' = [marked EXCEPT ![d] = t]
    /\ UNCHANGED << row, globalPause, prState, wf, worktree, tick, eligible,
                    sawPause, http, approvals, starts, deaths, disturbed >>

\* MarkTaskRunningActivity, for a candidate or for an orphaned review: it
\* writes "running" over any status.
MarkTaskRunning(d, t) ==
    /\ tick[d] \in { "dispatch", "recover" }
    /\ marked[d] = NoTask
    /\ t \in todo[d]
    /\ todo' = [todo EXCEPT ![d] = @ \ {t}]
    /\ SetStatus(t, "running")
    /\ marked' = [marked EXCEPT ![d] = t]
    /\ UNCHANGED << prLink, pausedFrom, hasChildren, globalPause, prState, wf,
                    worktree, tick, eligible, sawPause, http, approvals,
                    starts, deaths, disturbed >>

\* The mark fails: the task is skipped in this tick.
MarkTaskRunningFails(d, t) ==
    /\ "store" \in Faults
    /\ tick[d] \in { "dispatch", "recover" }
    /\ marked[d] = NoTask
    /\ t \in todo[d]
    /\ todo' = [todo EXCEPT ![d] = @ \ {t}]
    /\ UNCHANGED << row, globalPause, prState, wf, worktree, tick, eligible,
                    marked, sawPause, http, approvals, starts, deaths,
                    disturbed >>

\* The child of the marked task: chum-agent-<task> for a candidate,
\* chum-review-<task> for an orphan.
childKind(d) == IF tick[d] = "dispatch" THEN "agent" ELSE "review"
firstPhase(k) == IF k = "agent" THEN "setup" ELSE "mark"

\* The child starts, or one with its ID is already running and is left alone.
StartChild(d) ==
    /\ marked[d] # NoTask
    /\ marked' = [marked EXCEPT ![d] = NoTask]
    /\ LET t == marked[d]
           k == childKind(d)
       IN  IF active(k, t)
           THEN UNCHANGED << wf, starts >>
           ELSE /\ SetPhase(k, t, firstPhase(k))
                /\ starts' = IF k = "agent"
                             THEN [starts EXCEPT ![t] = @ + 1] ELSE starts
    /\ UNCHANGED << row, globalPause, prState, worktree, tick, todo, eligible,
                    sawPause, http, approvals, deaths, disturbed >>

\* The child does not start: MarkTaskReadyActivity, or for a review
\* MarkTaskNeedsReviewActivity, which may fail in turn.
StartChildFails(d) ==
    /\ "start" \in Faults
    /\ marked[d] # NoTask
    /\ ~active(childKind(d), marked[d])
    /\ marked' = [marked EXCEPT ![d] = NoTask]
    /\ \/ SetStatus(marked[d],
                    IF childKind(d) = "agent" THEN "ready" ELSE "needs_review")
       \/ "store" \in Faults /\ UNCHANGED status
    /\ UNCHANGED << prLink, pausedFrom, hasChildren, globalPause, prState, wf,
                    worktree, tick, todo, eligible, sawPause, http, approvals,
                    starts, deaths, disturbed >>

\* Mutant: the recoverable reasons are the ones left out.
orphanReviewRecoverable_Negated(t) == prLink[t] = "held"

orphanReviewRecoverable(t) == prLink[t] = "recoverable"

\* Mutant: any task whose error_log names a PR, whatever its status.
parked_AnyStatus(t) == prLink[t] # "none"

parked(t) == status[t] = "needs_review" /\ prLink[t] # "none"

\* ScanOrphanedReviewsActivity lists the needs_review tasks that name a PR;
\* whether one is recoverable is decided on the listed error_log.
ListOrphans(d) ==
    /\ tick[d] = "dispatch"
    /\ todo[d] = {} /\ marked[d] = NoTask
    /\ tick' = [tick EXCEPT ![d] = "orphans"]
    /\ todo' = [todo EXCEPT ![d] = { t \in Task : parked(t) }]
    /\ eligible' = [eligible EXCEPT ![d] =
                      { t \in Task : parked(t) /\ orphanReviewRecoverable(t) }]
    /\ UNCHANGED << row, globalPause, prState, wf, worktree, marked, sawPause,
                    http, approvals, starts, deaths, disturbed >>

\* One listed task: a merged PR completes it, whatever its status is by now;
\* a merged one whose close fails is dropped; otherwise, or when GitHub does
\* not answer, it stays listed if it was recoverable.
CheckOrphan(d, t) ==
    /\ tick[d] = "orphans"
    /\ t \in todo[d]
    /\ todo' = [todo EXCEPT ![d] = @ \ {t}]
    /\ \/ /\ prState[t] = "merged"
          /\ closeTask(t, "completed", "held")
          /\ eligible' = [eligible EXCEPT ![d] = @ \ {t}]
       \/ /\ prState[t] = "merged" /\ "store" \in Faults
          /\ eligible' = [eligible EXCEPT ![d] = @ \ {t}]
          /\ UNCHANGED << status, prLink >>
       \/ /\ prState[t] # "merged" \/ "github" \in Faults
          /\ UNCHANGED << status, prLink, eligible >>
    /\ UNCHANGED << pausedFrom, hasChildren, globalPause, prState, wf,
                    worktree, tick, marked, sawPause, http, approvals,
                    starts, deaths, disturbed >>

OrphansChecked(d) ==
    /\ tick[d] = "orphans"
    /\ todo[d] = {}
    /\ tick' = [tick EXCEPT ![d] = "recover"]
    /\ todo' = [todo EXCEPT ![d] = eligible[d]]
    /\ eligible' = [eligible EXCEPT ![d] = {}]
    /\ UNCHANGED << row, globalPause, prState, wf, worktree, marked, sawPause,
                    http, approvals, starts, deaths, disturbed >>

\* CleanupOrphanedWorktreesActivity, and the tick ends.
Sweep(d) ==
    /\ tick[d] = "recover"
    /\ todo[d] = {} /\ marked[d] = NoTask
    /\ tick' = [tick EXCEPT ![d] = "idle"]
    /\ sawPause' = [sawPause EXCEPT ![d] = FALSE]
    /\ worktree' = [t \in Task |-> IF status[t] \in terminalStatuses
                                   THEN "none" ELSE worktree[t]]
    /\ UNCHANGED << row, globalPause, prState, wf, todo, eligible, marked,
                    http, approvals, starts, deaths, disturbed >>

---------------------------------------------------------------------------
(* AgentWorkflow and ReviewWorkflow.                                       *)

workflowOnly == << globalPause, disp, http, approvals, starts, deaths,
                   disturbed >>

\* SetupWorktree: whatever directory the task ID names is removed first.
AgentSetup(t) ==
    /\ wf["agent"][t] = "setup"
    /\ SetPhase("agent", t, "execute")
    /\ worktree' = [worktree EXCEPT ![t] = "agent"]
    /\ UNCHANGED << row, prState, workflowOnly >>

AgentSetupFails(t) ==
    /\ wf["agent"][t] = "setup"
    /\ closeTask(t, "needs_review", preserved(t, "recoverable"))
    /\ SetPhase("agent", t, "tail")
    /\ UNCHANGED << pausedFrom, hasChildren, prState, worktree, workflowOnly >>

\* DecomposeActivity found several steps and CreateSubtasksActivity committed
\* them: the parent row is "decomposed" in the same transaction.
AgentDecompose(t) ==
    /\ wf["agent"][t] = "execute"
    /\ SetPhase("agent", t, "decomposed")
    /\ SetStatus(t, "decomposed")
    /\ hasChildren' = [hasChildren EXCEPT ![t] = TRUE]
    /\ UNCHANGED << prLink, pausedFrom, prState, worktree, workflowOnly >>

\* The worktree is removed and the parent closed; when the activity timed out
\* after its commit the parent is closed as a failed decomposition instead,
\* and the worktree goes with the deferred cleanup.
AgentCloseParent(t) ==
    /\ wf["agent"][t] = "decomposed"
    /\ \/ /\ closeTask(t, "decomposed", preserved(t, "held"))
          /\ SetPhase("agent", t, "idle")
          /\ worktree' = [worktree EXCEPT ![t] = "none"]
       \/ /\ closeTask(t, "needs_review", preserved(t, "held"))
          /\ SetPhase("agent", t, "tail")
          /\ UNCHANGED worktree
    /\ UNCHANGED << pausedFrom, hasChildren, prState, workflowOnly >>

\* The run ends before it has a pull request: decompose_failed, exec_failed,
\* dod_error, push_failed, pr_create_failed, research_failed; a failed
\* definition of done; a failed command; command, research and no_changes
\* completions.
AgentCloseWithoutPR(t) ==
    /\ wf["agent"][t] = "execute"
    /\ \E s \in { "needs_review", "dod_failed", "failed", "completed" } :
         closeTask(t, s, preserved(t, "held"))
    /\ SetPhase("agent", t, "tail")
    /\ UNCHANGED << pausedFrom, hasChildren, prState, worktree, workflowOnly >>

\* gh opened the pull request and CreatePRInfo then failed to read it: it is
\* closed as pr_create_failed and nothing records the pull request.
AgentLosesPR(t) ==
    /\ wf["agent"][t] = "execute" /\ prState[t] # "open"
    /\ "github" \in Faults
    /\ prState' = [prState EXCEPT ![t] = "open"]
    /\ closeTask(t, "needs_review", preserved(t, "held"))
    /\ SetPhase("agent", t, "tail")
    /\ UNCHANGED << pausedFrom, hasChildren, worktree, workflowOnly >>

\* Push and CreatePRInfo succeed; the review loop begins. gh refuses a second
\* pull request for a branch that has one open.
AgentOpenPR(t) ==
    /\ wf["agent"][t] = "execute" /\ prState[t] # "open"
    /\ SetPhase("agent", t, "review")
    /\ prState' = [prState EXCEPT ![t] = "open"]
    /\ UNCHANGED << row, worktree, workflowOnly >>

\* ReviewWorkflow first marks the task running, ignoring an error.
ReviewMark(t) ==
    /\ wf["review"][t] = "mark"
    /\ SetPhase("review", t, "setup")
    /\ \/ SetStatus(t, "running")
       \/ "close" \in Faults /\ UNCHANGED status
    /\ UNCHANGED << prLink, pausedFrom, hasChildren, prState, worktree,
                    workflowOnly >>

\* GetPRInfo, then the worktree at the PR's head.
ReviewSetup(t) ==
    /\ wf["review"][t] = "setup"
    /\ SetPhase("review", t, "review")
    /\ worktree' = [worktree EXCEPT ![t] = "review"]
    /\ UNCHANGED << row, prState, workflowOnly >>

\* pr_info_failed or worktree_failed.
ReviewSetupFails(t) ==
    /\ wf["review"][t] = "setup"
    /\ closeTask(t, "needs_review", "recoverable")
    /\ SetPhase("review", t, "tail")
    /\ UNCHANGED << pausedFrom, hasChildren, prState, worktree, workflowOnly >>

\* reviewLoop approves and MergePR merges.
MergePR(k, t) ==
    /\ wf[k][t] = "review"
    /\ prState[t] = "open"
    /\ SetPhase(k, t, "merged")
    /\ prState' = [prState EXCEPT ![t] = "merged"]
    /\ UNCHANGED << row, worktree, workflowOnly >>

\* A merge whose activity fails after the fact is closed as merge_failed.
CloseMerged(k, t) ==
    /\ wf[k][t] = "merged"
    /\ \/ closeTask(t, "completed", "held")
       \/ "github" \in Faults /\ closeTask(t, "needs_review", "held")
    /\ SetPhase(k, t, "tail")
    /\ UNCHANGED << pausedFrom, hasChildren, prState, worktree, workflowOnly >>

\* The other ends of reviewLoop: reviewer errors are recoverable; a dirty
\* reviewer, a blocked or failed merge, exhausted rounds and failed rework
\* are not.
CloseUnmerged(k, t) ==
    /\ wf[k][t] = "review"
    /\ \/ closeTask(t, "needs_review", "recoverable")
       \/ closeTask(t, "needs_review", "held")
       \/ closeTask(t, "dod_failed", "held")
    /\ SetPhase(k, t, "tail")
    /\ UNCHANGED << pausedFrom, hasChildren, prState, worktree, workflowOnly >>

\* CloseTaskWithDetail fails (one attempt): the row keeps what it had.
CloseFails(k, t) ==
    /\ "close" \in Faults
    /\ wf[k][t] \in { "setup", "execute", "decomposed", "review", "merged" }
    /\ SetPhase(k, t, "tail")
    /\ UNCHANGED << row, prState, worktree, workflowOnly >>

\* The deferred cleanup removes the directory the task ID names.
EndWorkflow(k, t) ==
    /\ wf[k][t] = "tail"
    /\ SetPhase(k, t, "idle")
    /\ worktree' = [worktree EXCEPT ![t] = "none"]
    /\ UNCHANGED << row, prState, workflowOnly >>

\* Temporal times the execution out or somebody terminates it: no deferred
\* function runs.
WorkflowDies(k, t) ==
    /\ deaths < MaxDeaths
    /\ active(k, t)
    /\ SetPhase(k, t, "idle")
    /\ deaths' = deaths + 1
    /\ UNCHANGED << row, globalPause, prState, worktree, disp, http,
                    approvals, starts, disturbed >>

\* The one-off tick of TriggerDispatch exceeds its 5 minutes, or somebody
\* terminates a tick: what it held locally is gone.
DispatcherDies(d) ==
    /\ deaths < MaxDeaths
    /\ tick[d] # "idle"
    /\ tick' = [tick EXCEPT ![d] = "idle"]
    /\ todo' = [todo EXCEPT ![d] = {}]
    /\ eligible' = [eligible EXCEPT ![d] = {}]
    /\ marked' = [marked EXCEPT ![d] = NoTask]
    /\ sawPause' = [sawPause EXCEPT ![d] = FALSE]
    /\ deaths' = deaths + 1
    /\ UNCHANGED << row, globalPause, prState, wf, worktree, http, approvals,
                    starts, disturbed >>

---------------------------------------------------------------------------
(* The operators' side.                                                    *)

operatorOnly == << prState, wf, worktree, disp, starts, deaths >>

\* A dashboard handler reads the task and accepts or refuses its status ...
RequestArrives(op, t) ==
    /\ op \in OperatorOps
    /\ http = NoRequest
    /\ status[t] \in accepts[op]
    /\ op = "approve" => approvals[t] < MaxApprovals
    /\ http' = [op |-> op, task |-> t, read |-> pausedFrom[t]]
    /\ UNCHANGED << row, globalPause, approvals, operatorOnly, disturbed >>

\* ... and writes the new one over the row, whatever it holds by then, and a
\* note over the metadata.  kill signals plan-cancel to the agent workflow
\* first, which no agent reads.
RequestWrites ==
    /\ http # NoRequest
    /\ LET op == http.op
           t  == http.task
       IN  /\ SetStatus(t, writes[op])
           /\ prLink' = IF op \in clearsErrorLog
                        THEN [prLink EXCEPT ![t] = "none"] ELSE prLink
           /\ \/ UNCHANGED pausedFrom
              \/ /\ op \in annotates
                 /\ pausedFrom' = [pausedFrom EXCEPT ![t] = http.read]
           /\ approvals' = IF op = "approve"
                           THEN [approvals EXCEPT ![t] = @ + 1] ELSE approvals
           /\ disturbed' = IF op \notin harmless /\ inWork(t)
                           THEN disturbed \cup {t} ELSE disturbed
    /\ http' = NoRequest
    /\ UNCHANGED << hasChildren, globalPause, operatorOnly >>

\* Mutant: pausing a running task keeps an older paused_from_status.
remembered_Stale(t) ==
    IF status[t] = "running" THEN pausedFrom[t] ELSE status[t]

\* What a pause writes to paused_from_status: nothing for a running task.
remembered(t) == IF status[t] = "running" THEN "none" ELSE status[t]

\* Mutant: no default for a task without a paused_from_status.
restored_NoDefault(t) == pausedFrom[t]

\* The status a resume writes.
restored(t) == IF pausedFrom[t] = "none" THEN "ready" ELSE pausedFrom[t]

\* PauseProjectTasks and ResumeProjectTasks are one transaction each.
PauseProjectTasks ==
    /\ "project_pause" \in OperatorOps
    /\ LET pausable == { t \in Task :
                           status[t] \in { "running", "ready", "approved" } }
       IN  /\ status' = [t \in Task |-> IF t \in pausable
                                        THEN "paused" ELSE status[t]]
           /\ pausedFrom' = [t \in Task |->
                IF t \in pausable THEN remembered(t) ELSE pausedFrom[t]]
           /\ disturbed' = disturbed \cup { t \in pausable : reached(t) }
    /\ UNCHANGED << prLink, hasChildren, globalPause, http, approvals,
                    operatorOnly >>

ResumeProjectTasks ==
    /\ "project_pause" \in OperatorOps
    /\ LET paused == { t \in Task : status[t] = "paused" }
       IN  /\ status' = [t \in Task |->
                IF t \in paused THEN restored(t) ELSE status[t]]
           /\ pausedFrom' = [t \in Task |-> IF t \in paused
                                            THEN "none" ELSE pausedFrom[t]]
           /\ disturbed' = disturbed \cup { t \in paused : reached(t) }
    /\ UNCHANGED << prLink, hasChildren, globalPause, http, approvals,
                    operatorOnly >>

\* chum shutdown / resume and their API handlers, as the tasks see them.
SetGlobalPaused(paused) ==
    /\ (IF paused THEN "global_pause" ELSE "global_resume") \in OperatorOps
    /\ globalPause' = paused
    /\ UNCHANGED << row, http, approvals, operatorOnly, disturbed >>

\* Somebody merges the pull request on GitHub.
MergeOnGitHub(t) ==
    /\ "merge_on_github" \in OperatorOps
    /\ prState[t] = "open"
    /\ prState' = [prState EXCEPT ![t] = "merged"]
    /\ UNCHANGED << row, globalPause, wf, worktree, disp, http, approvals,
                    starts, deaths, disturbed >>

---------------------------------------------------------------------------
DispatcherStep(d) ==
    \/ TickStart(d)
    \/ ZombieScanFails(d)
    \/ \E t \in Task : ZombieCheck(d, t)
    \/ ZombieScanDone(d)
    \/ ScanCandidates(d)
    \/ ScanCandidatesFails(d)
    \/ \E t \in Task : MarkTaskRunning(d, t)
    \/ \E t \in Task : MarkTaskRunningFails(d, t)
    \/ StartChild(d)
    \/ StartChildFails(d)
    \/ ListOrphans(d)
    \/ \E t \in Task : CheckOrphan(d, t)
    \/ OrphansChecked(d)
    \/ Sweep(d)

WorkflowStep(t) ==
    \/ AgentSetup(t)
    \/ AgentSetupFails(t)
    \/ AgentDecompose(t)
    \/ AgentCloseParent(t)
    \/ AgentCloseWithoutPR(t)
    \/ AgentLosesPR(t)
    \/ AgentOpenPR(t)
    \/ ReviewMark(t)
    \/ ReviewSetup(t)
    \/ ReviewSetupFails(t)
    \/ \E k \in Kind : \/ MergePR(k, t)
                       \/ CloseMerged(k, t)
                       \/ CloseUnmerged(k, t)
                       \/ CloseFails(k, t)
                       \/ EndWorkflow(k, t)

Death ==
    \/ \E k \in Kind, t \in Task : WorkflowDies(k, t)
    \/ \E d \in Dispatcher : DispatcherDies(d)

OperatorStep ==
    \/ \E op \in TaskOp, t \in Task : RequestArrives(op, t)
    \/ RequestWrites
    \/ PauseProjectTasks
    \/ ResumeProjectTasks
    \/ \E paused \in BOOLEAN : SetGlobalPaused(paused)
    \/ \E t \in Task : MergeOnGitHub(t)

Next ==
    \/ \E d \in Dispatcher : DispatcherStep(d)
    \/ \E t \in Task : WorkflowStep(t)
    \/ Death
    \/ OperatorStep

Spec == Init /\ [][Next]_vars

\* Temporal keeps scheduling ticks and carries every tick and every workflow
\* on, and a handler that has read a task writes; people owe nothing.
FairSpec ==
    /\ Spec
    /\ \A d \in Dispatcher : WF_vars(DispatcherStep(d))
    /\ \A t \in Task : WF_vars(WorkflowStep(t))
    /\ WF_vars(RequestWrites)

---------------------------------------------------------------------------
(* Properties.                                                             *)

\* The approval gate: an agent never runs more often than people approved
\* the task, whatever pauses, resumes, retries, failed starts and stale
\* snapshots lie between an approval and the start it pays for.
ApprovalGate == \A t \in Task : starts[t] <= approvals[t]

\* The approvals a start may still be owed for: the approved status, also the
\* one a project pause remembers; a candidate a tick has listed; a candidate
\* it has marked running.
approvalHeld(t) == \/ status[t] = "approved"
                   \/ status[t] = "paused" /\ pausedFrom[t] = "approved"
listed(t) == \E d \in Dispatcher : tick[d] = "dispatch" /\ t \in todo[d]
startDue(t) == \E d \in Dispatcher : tick[d] = "dispatch" /\ marked[d] = t

\* Where a tick holds a marked task: only between listing and starting, and
\* never still listed.
MarkedInPhase ==
    \A d \in Dispatcher :
        marked[d] # NoTask => /\ tick[d] \in { "dispatch", "recover" }
                              /\ marked[d] \notin todo[d]

\* Every start still owed is covered by an approval of its own: a listed
\* candidate and the approved status stand for one approval, a marked
\* candidate and a status approved again meanwhile for two.
StartsCovered ==
    \A t \in Task :
        /\ starts[t] <= approvals[t]
        /\ approvalHeld(t) \/ listed(t) \/ startDue(t)
             => starts[t] < approvals[t]
        /\ approvalHeld(t) /\ startDue(t) => starts[t] + 1 < approvals[t]

\* The two together are inductive while ticks do not overlap, and imply
\* ApprovalGate.
ApprovalsAccounted == MarkedInPhase /\ StartsCovered

\* Once error_log names a pull request, only a person's kill or retry may
\* forget it: every close of a later run carries it over.
PRLinkKept ==
    [][\A t \in Task :
         prLink[t] # "none" /\ prLink'[t] = "none"
           => http.task = t /\ http.op \in clearsErrorLog]_vars

\* An agent and a review execution are never at work on one task together,
\* unless somebody killed, paused, decomposed, accepted, rejected or returned
\* it, or Describe failed, while it was in work: none of these stops what
\* already runs or is about to.  Approvals and retries never bring it about,
\* and what was disturbed is safe again once a tick finds it at rest.
NoDoubleExecution ==
    \A t \in Task \ disturbed :
        \E k \in Kind : wf[k][t] \in { "idle", "tail" }

\* A task in a terminal status has no execution using its worktree, so the
\* sweep of terminal tasks' directories never removes one in use, with the
\* same exception.
TerminalMeansStopped ==
    \A t \in Task \ disturbed :
        status[t] \in terminalStatuses
          => \A k \in Kind : wf[k][t] \notin Working

\* A dead execution never leaves its task "running" for good.
ZombiesRecovered ==
    \A t \in Task : (status[t] = "running" /\ ~anyActive(t))
                      ~> (status[t] # "running" \/ anyActive(t))

\* A parked task whose review can be resumed is resumed, or moves on.
ReviewsResumed ==
    \A t \in Task : (status[t] = "needs_review" /\ prLink[t] = "recoverable")
                      ~> \/ active("review", t)
                         \/ status[t] \notin { "needs_review", "running" }

\* An approved task gets its agent, or loses the approval, or the system is
\* paused.
ApprovedStarts ==
    \A t \in Task : status[t] = "approved"
                      ~> \/ active("agent", t)
                         \/ status[t] \notin { "approved", "running" }
                         \/ globalPause
=============================================================================
