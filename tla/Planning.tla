------------------------------ MODULE Planning ------------------------------
(***************************************************************************)
(* A planning ceremony: PlanningWorkflow, the people who send it signals   *)
(* from the chat or the dashboard, and the activity that hands the plan to *)
(* the factory.  Signals wait in the workflow until a selector takes one.  *)
(* A selector that finds signals waiting takes them by channel, in the     *)
(* order of its cases; one that had to wait takes what comes first.  A     *)
(* phase whose name is that of an activity lasts until the activity ends;  *)
(* signals and the session's timer come in between.                        *)
(***************************************************************************)
EXTENDS Naturals, Sequences

CONSTANTS
    Approach,      \* what the research may come up with
    NoApproach,    \* no selection, no plan; no value
    NumSteps,      \* the steps of a plan
    BeadsFirst,    \* must subtasks be created in the tracker first?
    MaxRounds,     \* cfg.MaxResearchRounds
    MaxCycles,     \* cfg.MaxCycles
    MaxSignals,    \* bound: signals that people send
    MaxPending,    \* bound: signals that wait at a time
    MaxFaults      \* bound: activities that fail

Step == 1 .. NumSteps
Selection == [of : Approach, depth : Nat]
NoSignal == [kind |-> "none", value |-> NoApproach]

Kind == { "select", "dig", "question", "go", "realign", "approve", "cancel" }
Signal == [kind : Kind, value : Approach \cup { NoApproach }]
Phase == { "none", "starting", "goal_clarification", "research",
           "goal_check", "push_approaches", "loop", "interactive", "deeper", "answer",
           "decompose", "plan_spec", "presented", "approve", "record",
           "handoff", "mapping", "rollback", "ended" }
Outcome == { "none", "completed", "cancelled", "failed", "max_cycles" }
Row == { "none", "live", "rejected", "failed", "max_cycles_reached", "completed" }
Reason == { "none", "user", "session_timeout" }

ASSUME ApproachAssumption == NoApproach \notin Selection \cup Approach
ASSUME BoundAssumption ==
    /\ NumSteps \in Nat \ { 0 } /\ BeadsFirst \in BOOLEAN
    /\ MaxRounds \in Nat \ { 0 } /\ MaxCycles \in Nat \ { 0 }
    /\ MaxSignals \in Nat /\ MaxPending \in Nat /\ MaxFaults \in Nat

---------------------------------------------------------------------------
VARIABLES
    phase,      \* where the workflow is
    inbox,      \* signals that have come and no selector has taken, in order
    waiting,    \* did the selector find no signal it could take?
    cancelled, reason,
    timer,      \* the session's timer: is it still to fire?
    depth,      \* depth[a]: how often a was researched, 0 for not at all
    selected,   \* the copy of the approach that was selected
    plan,       \* the approach, as it was, that the plan is made of
    digging,    \* the approach that is being researched deeper
    round, cycle,
    snapshot,   \* status of the planning_snapshots row, "live" for all that
                \* are neither final nor a rejection
    taken,      \* history: the signal that ended this selector
    issues,     \* tracker: steps that have an open issue
    orphans,    \* history: issues that nobody closes any more
    unnamed,    \* history: an issue that was opened by a Create that failed
    tasks,      \* task store: the plan whose subtasks were committed
    mapped,     \* task store: subtasks with a beads_sync_map row
    outcome,    \* PlanningResult
    sent, faults

control   == << phase, waiting, cancelled, reason, timer, outcome, taken >>
ideas     == << depth, selected, plan, digging, round, cycle >>
factory   == << issues, orphans, unnamed, tasks, mapped >>
vars      == << control, inbox, ideas, snapshot, factory, sent, faults >>

TypeOK ==
    /\ phase \in Phase
    /\ inbox \in Seq(Signal)
    /\ waiting \in BOOLEAN
    /\ cancelled \in BOOLEAN
    /\ reason \in Reason
    /\ timer \in BOOLEAN
    /\ depth \in [Approach -> Nat]
    /\ selected \in Selection \cup { NoApproach }
    /\ plan \in Selection \cup { NoApproach }
    /\ digging \in Approach \cup { NoApproach }
    /\ round \in Nat
    /\ cycle \in Nat
    /\ snapshot \in Row
    /\ taken \in Signal \cup { NoSignal }
    /\ issues \in SUBSET Step
    /\ orphans \in SUBSET Step
    /\ unnamed \in SUBSET Step
    /\ tasks \in Selection \cup { NoApproach }
    /\ mapped \in SUBSET Step
    /\ outcome \in Outcome
    /\ sent \in Nat
    /\ faults \in Nat

\* What newCeremony starts with.
Init ==
    /\ phase = "none" /\ inbox = << >> /\ waiting = FALSE
    /\ cancelled = FALSE /\ reason = "none" /\ timer = TRUE
    /\ depth = [a \in Approach |-> 0]
    /\ selected = NoApproach /\ plan = NoApproach /\ digging = NoApproach
    /\ round = 1 /\ cycle = 1
    /\ snapshot = "none"
    /\ taken = NoSignal
    /\ issues = {} /\ orphans = {} /\ unnamed = {}
    /\ tasks = NoApproach /\ mapped = {}
    /\ outcome = "none"
    /\ sent = 0 /\ faults = 0

---------------------------------------------------------------------------
(* Helpers.                                                                *)

Listed == { a \in Approach : depth[a] > 0 }

Fails == /\ faults < MaxFaults
         /\ faults' = faults + 1

\* One attempt, whose failure is ignored.
persistSnapshot(st) == snapshot' \in { snapshot, st }

Pending(kinds) == { i \in 1 .. Len(inbox) : inbox[i].kind \in kinds }

\* The inbox without its i-th signal.
Without(i) == [j \in 1 .. Len(inbox) - 1 |->
                 IF j < i THEN inbox[j] ELSE inbox[j + 1]]

First(S) == CHOOSE i \in S : \A j \in S : i <= j

\* The signal that Select takes among those of these channels, which are
\* given in the order of the selector's cases.
Chosen(i, channels) ==
    IF waiting
      THEN i = First(Pending(UNION { channels[c] : c \in DOMAIN channels }))
      ELSE \E c \in DOMAIN channels :
            /\ Pending(channels[c]) # {} /\ i = First(Pending(channels[c]))
            /\ \A d \in 1 .. c - 1 : Pending(channels[d]) = {}

SelectCases == << { "select" }, { "dig" }, { "question" },
                  { "go", "realign" }, { "cancel" } >>
ApproveCases == << { "approve" }, { "go", "realign" }, { "cancel" } >>

Stop(o) == phase' = "ended" /\ outcome' = o

\* drainCancel: every cancel that waits is consumed, then cancelledResult.
\* What else waits is lost with the workflow.
Cancelling == cancelled \/ Pending({ "cancel" }) # {}
StopCancelled ==
    /\ Stop("cancelled")
    /\ cancelled' = TRUE
    /\ reason' = IF Pending({ "cancel" }) # {} THEN "user" ELSE reason
    /\ inbox' = << >>
    /\ UNCHANGED << waiting, timer, taken, ideas >>

GoOn(p) == /\ phase' = p
           /\ UNCHANGED << waiting, cancelled, reason, timer, taken, outcome >>

---------------------------------------------------------------------------
(* The autonomous phases.                                                  *)

\* The dashboard starts the ceremony, and refuses a second one for the goal
\* while it runs.
PlanningStart ==
    /\ phase = "none"
    /\ GoOn("starting")
    /\ UNCHANGED << inbox, ideas, snapshot, factory, sent, faults >>

Start ==
    /\ phase = "starting"
    /\ GoOn("goal_clarification")
    /\ persistSnapshot("live")
    /\ UNCHANGED << inbox, ideas, factory, sent, faults >>

\* An LLM that answers no JSON leaves the goal as it was given.
ClarifyGoal ==
    /\ phase = "goal_clarification"
    /\ IF Cancelling THEN StopCancelled /\ UNCHANGED snapshot
       ELSE /\ GoOn("research")
            /\ persistSnapshot("live")
            /\ UNCHANGED << inbox, ideas >>
    /\ UNCHANGED << factory, sent, faults >>

ResearchApproaches ==
    /\ phase = "research"
    /\ IF Cancelling THEN StopCancelled
       ELSE /\ GoOn("goal_check")
            /\ \E S \in (SUBSET Approach) \ { {} } :
                depth' = [a \in Approach |-> IF a \in S THEN 1 ELSE 0]
            /\ UNCHANGED << inbox, selected, plan, digging, round, cycle >>
    /\ UNCHANGED << snapshot, factory, sent, faults >>

\* Either activity fails for good: a result that says so, whatever signals wait.
AutonomousFails ==
    /\ phase \in { "goal_clarification", "research" }
    /\ Fails
    /\ Stop("failed")
    /\ persistSnapshot("failed")
    /\ UNCHANGED << inbox, waiting, cancelled, reason, timer, taken, ideas,
                    factory, sent >>

\* The check may drop approaches; when it fails they stay as they are.
GoalCheck ==
    /\ phase = "goal_check"
    /\ IF Cancelling THEN StopCancelled /\ UNCHANGED snapshot
       ELSE /\ GoOn("push_approaches")
            /\ \E S \in SUBSET Listed :
                depth' = [a \in Approach |-> IF a \in S THEN depth[a] ELSE 0]
            /\ persistSnapshot("live")
            /\ UNCHANGED << inbox, selected, plan, digging, round, cycle >>
    /\ UNCHANGED << factory, sent, faults >>

\* Signals that came early are kept for the interactive phase.
storeAndPresent ==
    /\ phase = "push_approaches"
    /\ GoOn("loop")
    /\ persistSnapshot("live")
    /\ UNCHANGED << inbox, ideas, factory, sent, faults >>

---------------------------------------------------------------------------
(* interactiveSelect.                                                      *)

\* Mutant: pending cancels are left for the selector.
LoopHead_NotDrained ==
    /\ phase = "loop"
    /\ IF cancelled THEN StopCancelled
       ELSE /\ phase' = "interactive"
            /\ waiting' = (Pending(Kind \ { "approve" }) = {})
            /\ taken' = NoSignal
            /\ UNCHANGED << inbox, cancelled, reason, timer, outcome, ideas >>
    /\ UNCHANGED << snapshot, factory, sent, faults >>

\* The head of the loop: drainCancel, and a new selector.
LoopHead ==
    /\ phase = "loop"
    /\ IF Cancelling THEN StopCancelled
       ELSE /\ phase' = "interactive"
            /\ waiting' = (Pending(Kind \ { "approve" }) = {})
            /\ taken' = NoSignal
            /\ UNCHANGED << inbox, cancelled, reason, timer, outcome, ideas >>
    /\ UNCHANGED << snapshot, factory, sent, faults >>

\* The selector of phase p takes a signal of this kind and consumes it.
Takes(p, cases, kind) ==
    /\ phase = p
    /\ \E i \in Pending({ kind }) :
        /\ Chosen(i, cases)
        /\ inbox' = Without(i)
        /\ taken' = inbox[i]

Continue(p) == phase' = p /\ UNCHANGED << waiting, cancelled, reason, timer, outcome >>

\* select: a copy of the approach, which a name not in the list leaves alone.
TakeSelect ==
    /\ Takes("interactive", SelectCases, "select")
    /\ Continue("loop")
    /\ IF taken'.value \in Listed
         THEN /\ selected' = [of |-> taken'.value, depth |-> depth[taken'.value]]
              /\ persistSnapshot("live")
         ELSE UNCHANGED << selected, snapshot >>
    /\ UNCHANGED << depth, plan, digging, round, cycle, factory, sent, faults >>

\* dig: it counts as a round although the name may be unknown.
TakeDig ==
    /\ Takes("interactive", SelectCases, "dig")
    /\ IF round >= MaxRounds THEN Continue("loop") /\ UNCHANGED << digging, round >>
       ELSE /\ round' = round + 1
            /\ IF taken'.value \in Listed
                 THEN Continue("deeper") /\ digging' = taken'.value
                 ELSE Continue("loop") /\ UNCHANGED digging
    /\ UNCHANGED << depth, selected, plan, cycle, snapshot, factory, sent,
                    faults >>

\* Another research of a: the entry of the list is replaced.
Deeper(a) == [depth EXCEPT ![a] = @ + 1]

\* Mutant: the selected copy is not replaced with the list's entry.
DeeperResearch_KeepsCopy ==
    /\ phase = "deeper"
    /\ GoOn("loop")
    /\ depth' = Deeper(digging)
    /\ UNCHANGED << inbox, selected, plan, digging, round, cycle, snapshot,
                    factory, sent, faults >>

DeeperResearch ==
    /\ phase = "deeper"
    /\ GoOn("loop")
    /\ depth' = Deeper(digging)
    /\ selected' = IF selected # NoApproach /\ selected.of = digging
                     THEN [of |-> digging, depth |-> depth[digging] + 1]
                     ELSE selected
    /\ UNCHANGED << inbox, plan, digging, round, cycle, snapshot, factory,
                    sent, faults >>

TakeQuestion ==
    /\ Takes("interactive", SelectCases, "question")
    /\ Continue("answer")
    /\ UNCHANGED << ideas, snapshot, factory, sent, faults >>

\* AnswerQuestion has ended, or the deeper research has failed.
BackToLoop ==
    /\ phase \in { "deeper", "answer" }
    /\ IF phase = "deeper" THEN Fails ELSE UNCHANGED faults
    /\ GoOn("loop")
    /\ UNCHANGED << inbox, ideas, snapshot, factory, sent >>

\* After any return of Select a cancelled session ends.
StopsOr(A) == IF cancelled
                THEN Stop("cancelled") /\ UNCHANGED << waiting, cancelled, reason, timer >>
                ELSE A

TakeGo ==
    /\ Takes("interactive", SelectCases, "go")
    /\ StopsOr(Continue(IF selected = NoApproach THEN "loop" ELSE "decompose"))
    /\ UNCHANGED << ideas, snapshot, factory, sent, faults >>

TakeRealign ==
    /\ Takes("interactive", SelectCases, "realign")
    /\ Continue("loop")
    /\ selected' = NoApproach
    /\ plan' = NoApproach
    /\ round' = 0
    /\ persistSnapshot("live")
    /\ UNCHANGED << depth, digging, cycle, factory, sent, faults >>

\* A cancel taken by either selector.
TakeCancel ==
    /\ \/ Takes("interactive", SelectCases, "cancel")
       \/ Takes("approve", ApproveCases, "cancel")
    /\ Stop("cancelled")
    /\ cancelled' = TRUE /\ reason' = "user"
    /\ UNCHANGED << waiting, timer, ideas, snapshot, factory, sent, faults >>

\* The selector's own timer: a reminder, and a new selector.
SignalTimeout ==
    /\ \/ phase = "interactive" /\ Pending(Kind \ { "approve" }) = {}
       \/ phase = "approve" /\ Pending({ "approve", "go", "realign", "cancel" }) = {}
    /\ StopsOr(Continue(IF phase = "approve" THEN "presented" ELSE "loop"))
    /\ UNCHANGED << inbox, taken, ideas, snapshot, factory, sent, faults >>

---------------------------------------------------------------------------
(* Decomposition and approval.                                             *)

\* The end of a cycle without approval: selection starts afresh, or all ends.
NextCycle(st) ==
    IF cycle < MaxCycles
      THEN /\ phase' = "loop"
           /\ cycle' = cycle + 1
           /\ selected' = NoApproach
           /\ persistSnapshot(st)
           /\ UNCHANGED outcome
      ELSE /\ Stop("max_cycles")
           /\ snapshot' \in { snapshot, st, "max_cycles_reached" }
           /\ UNCHANGED << cycle, selected >>

DecomposeApproach ==
    /\ phase = "decompose"
    /\ GoOn("plan_spec")
    /\ UNCHANGED << inbox, ideas, snapshot, factory, sent, faults >>

\* The plan that BuildPlanSpec has validated is presented.
BuildPlanSpec ==
    /\ phase = "plan_spec"
    /\ GoOn("presented")
    /\ plan' = selected
    /\ persistSnapshot("live")
    /\ UNCHANGED << inbox, depth, selected, digging, round, cycle, factory, sent,
                    faults >>

\* Either activity fails, or the plan is not valid.
DecomposeFails ==
    /\ phase \in { "decompose", "plan_spec" }
    /\ Fails
    /\ plan' = NoApproach
    /\ NextCycle("failed")
    /\ UNCHANGED << inbox, waiting, cancelled, reason, timer, taken, depth, digging,
                    round, factory, sent >>

\* approveDecomp makes a selector, and does not look for cancels before it.
AwaitApproval ==
    /\ phase = "presented"
    /\ phase' = "approve"
    /\ waiting' = (Pending({ "approve", "go", "realign", "cancel" }) = {})
    /\ taken' = NoSignal
    /\ UNCHANGED << inbox, cancelled, reason, timer, outcome, ideas, snapshot,
                    factory, sent, faults >>

\* An approval, or a GO that comes from any time before.
TakeApproval ==
    /\ \E k \in { "approve", "go" } : Takes("approve", ApproveCases, k)
    /\ StopsOr(Continue("record"))
    /\ UNCHANGED << ideas, snapshot, factory, sent, faults >>

TakeRejection ==
    /\ Takes("approve", ApproveCases, "realign")
    /\ plan' = NoApproach
    /\ IF cancelled THEN /\ Stop("cancelled")
                         /\ persistSnapshot("rejected")
                         /\ UNCHANGED << cycle, selected >>
       ELSE NextCycle("rejected")
    /\ UNCHANGED << waiting, cancelled, reason, timer, depth, digging, round,
                    factory, sent, faults >>

---------------------------------------------------------------------------
(* The hand-off: nothing reads signals or the session's end any more.      *)

\* RecordPlanningDecision, whose failure is only noted.
RecordPlanningDecision ==
    /\ phase = "record"
    /\ GoOn("handoff")
    /\ persistSnapshot("live")
    /\ UNCHANGED << inbox, ideas, factory, sent, faults >>

\* The tracker opens the issue of the first step that has none.
Create ==
    /\ phase = "handoff" /\ BeadsFirst
    /\ \E i \in Step \ issues :
        /\ \A j \in 1 .. i - 1 : j \in issues
        /\ issues' = issues \cup { i }

\* CreatePlanSubtasks, beads first: an issue for every step, in order.
CreateIssue ==
    /\ Create
    /\ UNCHANGED << control, inbox, ideas, snapshot, orphans, unnamed, tasks, mapped,
                    sent, faults >>

\* CreateSubtasksAtomic: one transaction, after every issue is there.
CommitSubtasks ==
    /\ phase = "handoff"
    /\ BeadsFirst => issues = Step
    /\ tasks' = plan
    /\ GoOn("mapping")
    /\ UNCHANGED << inbox, ideas, snapshot, issues, orphans, unnamed, mapped, sent,
                    faults >>

\* Mutant: a failed transaction returns its error and nothing else.
CreateFails_NoRollback ==
    /\ phase = "handoff"
    /\ Fails
    /\ Stop("failed")
    /\ persistSnapshot("failed")
    /\ UNCHANGED << inbox, waiting, cancelled, reason, timer, taken, ideas, factory,
                    sent >>

\* The tracker refuses an issue, or the transaction fails.
CreateFails ==
    /\ phase = "handoff"
    /\ Fails
    /\ GoOn("rollback")
    /\ UNCHANGED << inbox, ideas, snapshot, factory, sent >>

\* bd opens the issue, but it is killed, its answer cannot be read or names no
\* issue: the issue is not among those prepared, which the rollback closes.
CreateUnreported ==
    /\ Create
    /\ Fails
    /\ unnamed' = issues' \ issues
    /\ GoOn("rollback")
    /\ UNCHANGED << inbox, ideas, snapshot, orphans, tasks, mapped, sent >>

\* The issues prepared that are neither closed nor given up.
Prepared == issues \ (orphans \cup unnamed)

\* rollbackPrepared: the issues are closed one by one; a failure is noted.
RollbackIssue ==
    /\ phase = "rollback"
    /\ \E i \in Prepared :
        \/ /\ issues' = issues \ { i }
           /\ UNCHANGED << orphans, faults >>
        \/ /\ Fails
           /\ orphans' = orphans \cup { i }
           /\ UNCHANGED issues
    /\ UNCHANGED << control, inbox, ideas, snapshot, unnamed, tasks, mapped, sent >>

\* The error reaches the workflow: subtask_creation_failed.
RollbackEnds ==
    /\ phase = "rollback"
    /\ Prepared = {}
    /\ Stop("failed")
    /\ persistSnapshot("failed")
    /\ UNCHANGED << inbox, waiting, cancelled, reason, timer, taken, ideas, factory,
                    sent, faults >>

\* Mapping rows as far as they can be written, and the end.
PlanCompletes ==
    /\ phase = "mapping"
    /\ mapped' \in IF BeadsFirst THEN SUBSET issues ELSE { {} }
    /\ Stop("completed")
    /\ persistSnapshot("completed")
    /\ UNCHANGED << inbox, waiting, cancelled, reason, timer, taken, ideas, issues,
                    orphans, unnamed, tasks, sent, faults >>

\* The activity's process dies or its time is up, whatever it has done: there
\* is no second attempt, and the workflow reports a failure.
HandoffDies ==
    /\ phase \in { "handoff", "rollback", "mapping" }
    /\ Fails
    /\ Stop("failed")
    /\ orphans' = IF tasks = NoApproach THEN issues ELSE orphans
    /\ persistSnapshot("failed")
    /\ UNCHANGED << inbox, waiting, cancelled, reason, timer, taken, ideas, issues,
                    unnamed, tasks, mapped, sent >>

---------------------------------------------------------------------------
(* People and time.                                                        *)

\* What a command in the chat says: these name an approach, others do not.
Commands == { sig \in Signal :
                (sig.value = NoApproach) = (sig.kind \notin { "select", "dig" }) }

\* SignalWorkflow accepts a signal in any phase of a running workflow.
signalWorkflow(sig) == phase \notin { "none", "ended" } /\ inbox' = Append(inbox, sig)

\* A command in the chat, or the same on the dashboard.
SendSignal ==
    /\ sent < MaxSignals /\ Len(inbox) < MaxPending
    /\ sent' = sent + 1
    /\ \E sig \in Commands : signalWorkflow(sig)
    /\ UNCHANGED << control, ideas, snapshot, factory, faults >>

\* Mutant: the session's context is cancelled and nothing else.
SessionTimeout_ContextOnly ==
    /\ timer /\ phase \notin { "none", "ended" }
    /\ timer' = FALSE
    /\ UNCHANGED << phase, waiting, cancelled, reason, outcome, taken, inbox, ideas,
                    snapshot, factory, sent, faults >>

\* Mutant: the reason is left empty.
SessionTimeout_NoReason ==
    /\ timer /\ phase \notin { "none", "ended" }
    /\ timer' = FALSE
    /\ cancelled' = TRUE /\ reason' = ""
    /\ UNCHANGED << phase, waiting, outcome, taken, inbox, ideas, snapshot, factory,
                    sent, faults >>

\* The session's goroutine sets the flag; the context that it cancels is not
\* the one the selectors wait on.
SessionTimeout ==
    /\ timer /\ phase \notin { "none", "ended" }
    /\ timer' = FALSE
    /\ cancelled' = TRUE /\ reason' = "session_timeout"
    /\ UNCHANGED << phase, waiting, outcome, taken, inbox, ideas, snapshot, factory,
                    sent, faults >>

---------------------------------------------------------------------------
WorkflowStep ==
    \/ Start \/ ClarifyGoal \/ ResearchApproaches \/ AutonomousFails
    \/ GoalCheck \/ storeAndPresent
    \/ LoopHead \/ TakeSelect \/ TakeDig \/ DeeperResearch \/ TakeQuestion
    \/ BackToLoop \/ TakeGo \/ TakeRealign \/ TakeCancel \/ SignalTimeout
    \/ DecomposeApproach \/ BuildPlanSpec \/ DecomposeFails \/ AwaitApproval
    \/ TakeApproval \/ TakeRejection \/ RecordPlanningDecision
    \/ CreateIssue \/ CommitSubtasks \/ CreateFails \/ CreateUnreported
    \/ RollbackIssue \/ RollbackEnds \/ PlanCompletes \/ HandoffDies

Next == PlanningStart \/ WorkflowStep \/ SendSignal \/ SessionTimeout

\* Temporal goes on with a workflow that was started and fires its timers;
\* people need not start one or send anything.
Spec == Init /\ [][Next]_vars /\ WF_vars(WorkflowStep) /\ WF_vars(SessionTimeout)

---------------------------------------------------------------------------
(* Properties.                                                             *)

\* What is up for approval, being handed off or committed was made from the
\* approach that is selected, as deep as it was researched: through digs,
\* realignments, failed decompositions and rejections of earlier cycles.
PlanFitsSelection ==
    /\ selected # NoApproach => selected.depth = depth[selected.of]
    /\ phase \in { "presented", "approve", "record", "handoff", "mapping", "rollback" } =>
        /\ selected # NoApproach
        /\ plan = selected
    /\ tasks # NoApproach => tasks = plan /\ tasks = selected
    /\ snapshot = "completed" => tasks # NoApproach

\* The tracker and the task store agree: committed subtasks all keep their
\* issues, and when nothing was committed no issue stays open, except those
\* whose closing failed or whose process died, and one at most, the last, whose
\* creation was reported as a failure after it had taken effect.
TrackerAgrees ==
    /\ BeadsFirst /\ tasks # NoApproach => issues = Step /\ unnamed = {}
    /\ phase = "ended" /\ tasks = NoApproach => issues \subseteq orphans \cup unnamed
    /\ \A i \in unnamed, j \in issues : j <= i

\* A cancel that was sent before the GO that starts a decomposition wins:
\* drainCancel with the order in which a selector takes what waits.
CancelBeforeGoWins ==
    [][phase = "interactive" /\ phase' = "decompose" =>
        \A i \in Pending({ "cancel" }) : \E j \in Pending({ "go" }) : j < i]_vars

\* Every ceremony ends, although the end of its session wakes no selector.
CeremonyEnds == phase = "starting" ~> phase = "ended"
=============================================================================
