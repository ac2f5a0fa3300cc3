------------------------ MODULE TaskLifecycleProofs ------------------------
(***************************************************************************)
(* Proofs about TaskLifecycle, for every set of tasks, every cap, every    *)
(* selection of operator actions and faults, and every bound.              *)
(***************************************************************************)
EXTENDS TaskLifecycle, TLAPS

USE DEF row, disp, workflowOnly, operatorOnly

---------------------------------------------------------------------------
(* Type correctness.                                                       *)

\* The initial state has the types.
LEMMA TypeInit == Init => TypeOK
<1> SUFFICES ASSUME Init PROVE TypeOK
  OBVIOUS
<1>1. status \in [Task -> Status]
  BY DEF Init, Status
<1>2. wf \in [Kind -> [Task -> Phase]]
  BY DEF Init, Kind, Phase
<1>3. http \in Request
  BY DEF Init, NoRequest, Request, PausedFrom
<1>4. marked \in [Dispatcher -> Task \cup {NoTask}]
  BY DEF Init
<1>5. worktree \in [Task -> Kind \cup { "none" }]
  BY DEF Init
<1>6. /\ prLink \in [Task -> PRLink]
      /\ pausedFrom \in [Task -> PausedFrom]
      /\ hasChildren \in [Task -> BOOLEAN]
      /\ globalPause \in BOOLEAN
      /\ prState \in [Task -> { "none", "open", "merged" }]
      /\ tick \in [Dispatcher -> TickPhase]
      /\ todo \in [Dispatcher -> SUBSET Task]
      /\ eligible \in [Dispatcher -> SUBSET Task]
      /\ sawPause \in [Dispatcher -> BOOLEAN]
      /\ approvals \in [Task -> Nat]
      /\ starts \in [Task -> Nat]
      /\ deaths \in Nat
      /\ disturbed \subseteq Task
  BY DEF Init, PRLink, PausedFrom, TickPhase
<1> QED
  BY <1>1, <1>2, <1>3, <1>4, <1>5, <1>6 DEF TypeOK

\* A step of a dispatcher tick keeps the types.
LEMMA TypeDispatcher ==
    ASSUME TypeOK, NEW d \in Dispatcher, DispatcherStep(d)
    PROVE  TypeOK'
<1>1. CASE TickStart(d)
  BY <1>1 DEF TypeOK, TickStart, zombieListed, Status, PRLink, Kind, Phase,
      TickPhase
<1>2. CASE ZombieScanFails(d)
  BY <1>2 DEF TypeOK, ZombieScanFails, Status, PRLink, Kind, Phase, TickPhase
<1>3. ASSUME NEW t \in Task, ZombieCheck(d, t) PROVE TypeOK'
  BY <1>3 DEF TypeOK, ZombieCheck, SetStatus, zombieTarget, Status, PRLink,
      Kind, Phase, TickPhase
<1>4. CASE ZombieScanDone(d)
  BY <1>4 DEF TypeOK, ZombieScanDone, Status, PRLink, Kind, Phase, TickPhase
<1>5. CASE ScanCandidates(d)
  BY <1>5 DEF TypeOK, ScanCandidates, truncated, Status, PRLink, Kind, Phase,
      TickPhase
<1>6. CASE ScanCandidatesFails(d)
  BY <1>6 DEF TypeOK, ScanCandidatesFails, Status, PRLink, Kind, Phase,
      TickPhase
<1>7. ASSUME NEW t \in Task, MarkTaskRunning(d, t) PROVE TypeOK'
  BY <1>7 DEF TypeOK, MarkTaskRunning, SetStatus, Status, PRLink, Kind, Phase,
      TickPhase
<1>8. ASSUME NEW t \in Task, MarkTaskRunningFails(d, t) PROVE TypeOK'
  BY <1>8 DEF TypeOK, MarkTaskRunningFails, Status, PRLink, Kind, Phase,
      TickPhase
<1>9. CASE StartChild(d)
  BY <1>9 DEF TypeOK, StartChild, SetPhase, childKind, firstPhase, Status,
      PRLink, Kind, Phase, TickPhase
<1>10. CASE StartChildFails(d)
  BY <1>10 DEF TypeOK, StartChildFails, SetStatus, Status, PRLink, Kind,
      Phase, TickPhase
<1>11. CASE ListOrphans(d)
  BY <1>11 DEF TypeOK, ListOrphans, parked, Status, PRLink, Kind, Phase,
      TickPhase
<1>12. ASSUME NEW t \in Task, CheckOrphan(d, t) PROVE TypeOK'
  BY <1>12 DEF TypeOK, CheckOrphan, closeTask, SetStatus, Status, PRLink,
      Kind, Phase, TickPhase
<1>13. CASE OrphansChecked(d)
  BY <1>13 DEF TypeOK, OrphansChecked, Status, PRLink, Kind, Phase, TickPhase
<1>14. CASE Sweep(d)
  BY <1>14 DEF TypeOK, Sweep, Status, PRLink, Kind, Phase, TickPhase
<1> QED
  BY <1>1, <1>2, <1>3, <1>4, <1>5, <1>6, <1>7, <1>8, <1>9, <1>10, <1>11,
      <1>12, <1>13, <1>14 DEF DispatcherStep

\* A step of a task's workflows keeps the types.
LEMMA TypeWorkflow ==
    ASSUME TypeOK, NEW t \in Task, WorkflowStep(t)
    PROVE  TypeOK'
<1>1. CASE AgentSetup(t)
  BY <1>1 DEF TypeOK, AgentSetup, SetPhase, Status, PRLink, Kind, Phase,
      TickPhase
<1>2. CASE AgentSetupFails(t)
  BY <1>2 DEF TypeOK, AgentSetupFails, SetPhase, closeTask, SetStatus,
      preserved, Status, PRLink, Kind, Phase, TickPhase
<1>3. CASE AgentDecompose(t)
  BY <1>3 DEF TypeOK, AgentDecompose, SetPhase, SetStatus, Status, PRLink,
      Kind, Phase, TickPhase
<1>4. CASE AgentCloseParent(t)
  BY <1>4 DEF TypeOK, AgentCloseParent, SetPhase, closeTask, SetStatus,
      preserved, Status, PRLink, Kind, Phase, TickPhase
<1>5. CASE AgentCloseWithoutPR(t)
  BY <1>5 DEF TypeOK, AgentCloseWithoutPR, SetPhase, closeTask, SetStatus,
      preserved, Status, PRLink, Kind, Phase, TickPhase
<1>6. CASE AgentOpenPR(t)
  BY <1>6 DEF TypeOK, AgentOpenPR, SetPhase, Status, PRLink, Kind, Phase,
      TickPhase
<1>7. CASE ReviewMark(t)
  BY <1>7 DEF TypeOK, ReviewMark, SetPhase, SetStatus, Status, PRLink, Kind,
      Phase, TickPhase
<1>8. CASE ReviewSetup(t)
  BY <1>8 DEF TypeOK, ReviewSetup, SetPhase, Status, PRLink, Kind, Phase,
      TickPhase
<1>9. CASE ReviewSetupFails(t)
  BY <1>9 DEF TypeOK, ReviewSetupFails, SetPhase, closeTask, SetStatus,
      Status, PRLink, Kind, Phase, TickPhase
<1>10. ASSUME NEW k \in Kind, MergePR(k, t) PROVE TypeOK'
  BY <1>10 DEF TypeOK, MergePR, SetPhase, Status, PRLink, Kind, Phase,
      TickPhase
<1>11. ASSUME NEW k \in Kind, CloseMerged(k, t) PROVE TypeOK'
  BY <1>11 DEF TypeOK, CloseMerged, SetPhase, closeTask, SetStatus, Status,
      PRLink, Kind, Phase, TickPhase
<1>12. ASSUME NEW k \in Kind, CloseUnmerged(k, t) PROVE TypeOK'
  <2>1. PICK s \in Status, link \in PRLink : closeTask(t, s, link)
    BY <1>12 DEF CloseUnmerged, Status, PRLink
  <2>2. status' \in [Task -> Status] /\ prLink' \in [Task -> PRLink]
    BY <2>1 DEF TypeOK, closeTask, SetStatus
  <2>3. wf' \in [Kind -> [Task -> Phase]]
    BY <1>12 DEF TypeOK, CloseUnmerged, SetPhase, Phase
  <2> QED
    BY <1>12, <2>2, <2>3 DEF TypeOK, CloseUnmerged
<1>13. ASSUME NEW k \in Kind, CloseFails(k, t) PROVE TypeOK'
  BY <1>13 DEF TypeOK, CloseFails, SetPhase, Status, PRLink, Kind, Phase,
      TickPhase
<1>14. ASSUME NEW k \in Kind, EndWorkflow(k, t) PROVE TypeOK'
  BY <1>14 DEF TypeOK, EndWorkflow, SetPhase, Status, PRLink, Kind, Phase,
      TickPhase
<1>15. CASE AgentLosesPR(t)
  BY <1>15 DEF TypeOK, AgentLosesPR, SetPhase, closeTask, SetStatus,
      preserved, Status, PRLink, Kind, Phase, TickPhase
<1> QED
  BY <1>1, <1>2, <1>3, <1>4, <1>5, <1>6, <1>7, <1>8, <1>9, <1>10, <1>11,
      <1>12, <1>13, <1>14, <1>15 DEF WorkflowStep

\* So does the death of an execution.
LEMMA TypeDeath == ASSUME TypeOK, Death PROVE TypeOK'
<1>1. ASSUME NEW k \in Kind, NEW t \in Task, WorkflowDies(k, t)
      PROVE  TypeOK'
  BY <1>1 DEF TypeOK, WorkflowDies, SetPhase, Kind, Phase
<1>2. ASSUME NEW d \in Dispatcher, DispatcherDies(d)
      PROVE  TypeOK'
  BY <1>2 DEF TypeOK, DispatcherDies, TickPhase
<1> QED
  BY <1>1, <1>2 DEF Death

\* What a handler writes is a status.
LEMMA WritesStatus == \A op \in TaskOp : writes[op] \in Status
BY DEF TaskOp, writes, Status

\* So does what people do.
LEMMA TypeOperator == ASSUME TypeOK, OperatorStep PROVE TypeOK'
<1>1. ASSUME NEW op \in TaskOp, NEW t \in Task, RequestArrives(op, t)
      PROVE  TypeOK'
  BY <1>1 DEF TypeOK, RequestArrives, Request
<1>2. CASE RequestWrites
  <2>0. http.read \in PausedFrom
    BY <1>2 DEF RequestWrites, TypeOK, Request
  <2>1. /\ http.op \in TaskOp
        /\ http.task \in Task
    BY <1>2 DEF RequestWrites, TypeOK, Request
  <2>2. /\ status' \in [Task -> Status]
        /\ prLink' \in [Task -> PRLink]
        /\ approvals' \in [Task -> Nat]
    BY <1>2, <2>1, WritesStatus
    DEF TypeOK, RequestWrites, SetStatus, PRLink
  <2>3. http' \in Request
    BY <1>2 DEF RequestWrites, Request
  <2>4. pausedFrom' \in [Task -> PausedFrom]
    BY <1>2, <2>0 DEF TypeOK, RequestWrites
  <2>5. disturbed' \subseteq Task
    BY <1>2, <2>1 DEF TypeOK, RequestWrites
  <2> QED
    BY <1>2, <2>2, <2>3, <2>4, <2>5 DEF TypeOK, RequestWrites
<1>3. CASE PauseProjectTasks
  BY <1>3 DEF TypeOK, PauseProjectTasks, remembered, Status, PausedFrom
<1>4. CASE ResumeProjectTasks
  BY <1>4 DEF TypeOK, ResumeProjectTasks, restored, Status, PausedFrom
<1>5. ASSUME NEW paused \in BOOLEAN, SetGlobalPaused(paused)
      PROVE  TypeOK'
  BY <1>5 DEF TypeOK, SetGlobalPaused
<1>6. ASSUME NEW t \in Task, MergeOnGitHub(t)
      PROVE  TypeOK'
  BY <1>6 DEF TypeOK, MergeOnGitHub
<1> QED
  BY <1>1, <1>2, <1>3, <1>4, <1>5, <1>6 DEF OperatorStep

\* Every step keeps the types.
LEMMA TypeStep == TypeOK /\ [Next]_vars => TypeOK'
<1> SUFFICES ASSUME TypeOK, [Next]_vars PROVE TypeOK'
  OBVIOUS
<1>1. CASE Next
  BY <1>1, TypeDispatcher, TypeWorkflow, TypeDeath, TypeOperator DEF Next
<1>2. CASE UNCHANGED vars
  BY <1>2 DEF TypeOK, vars
<1> QED
  BY <1>1, <1>2

\* Every reachable state has the types: no handler, tick, workflow or death
\* writes a status, a phase or a link the others do not expect.
THEOREM TypeCorrect == Spec => []TypeOK
BY TypeInit, TypeStep, PTL DEF Spec

---------------------------------------------------------------------------
(* The approval gate, while ticks do not overlap.                          *)

\* At most one tick at a time: what the schedule's overlap policy gives, and
\* what a tick of TriggerDispatch beside a scheduled one breaks.
NoOverlap == \A d1, d2 \in Dispatcher : d1 = d2

\* A step leaves the accounts alone, except that it may take a task out of
\* the approved and paused statuses.
Quiet ==
    /\ UNCHANGED << tick, todo, marked, approvals, starts >>
    /\ \A t \in Task : status'[t] \in { "approved", "paused" }
                         => /\ status'[t] = status[t]
                            /\ pausedFrom'[t] = pausedFrom[t]

\* Such a step keeps the accounts.
LEMMA QuietKeeps == ASSUME ApprovalsAccounted, Quiet PROVE ApprovalsAccounted'
BY DEF ApprovalsAccounted, MarkedInPhase, StartsCovered, approvalHeld,
       listed, startDue, Quiet

\* No row starts approved and nothing is listed.
LEMMA AccountedInit == Init => ApprovalsAccounted
BY DEF Init, ApprovalsAccounted, MarkedInPhase, StartsCovered, approvalHeld,
       listed, startDue

\* Every step of a task's workflows is quiet: they neither approve, nor start
\* an agent, nor touch what a tick holds.
LEMMA QuietWorkflow ==
    ASSUME TypeOK, NEW t \in Task, WorkflowStep(t)
    PROVE  Quiet
<1>1. CASE AgentSetup(t)
  BY <1>1 DEF TypeOK, Quiet, AgentSetup, SetPhase
<1>2. CASE AgentSetupFails(t)
  BY <1>2 DEF TypeOK, Quiet, AgentSetupFails, SetPhase, closeTask, SetStatus,
      preserved
<1>3. CASE AgentDecompose(t)
  BY <1>3 DEF TypeOK, Quiet, AgentDecompose, SetPhase, SetStatus
<1>4. CASE AgentCloseParent(t)
  BY <1>4 DEF TypeOK, Quiet, AgentCloseParent, SetPhase, closeTask, SetStatus,
      preserved
<1>5. CASE AgentCloseWithoutPR(t)
  BY <1>5 DEF TypeOK, Quiet, AgentCloseWithoutPR, SetPhase, closeTask,
      SetStatus, preserved
<1>6. CASE AgentOpenPR(t)
  BY <1>6 DEF TypeOK, Quiet, AgentOpenPR, SetPhase
<1>7. CASE ReviewMark(t)
  BY <1>7 DEF TypeOK, Quiet, ReviewMark, SetPhase, SetStatus
<1>8. CASE ReviewSetup(t)
  BY <1>8 DEF TypeOK, Quiet, ReviewSetup, SetPhase
<1>9. CASE ReviewSetupFails(t)
  BY <1>9 DEF TypeOK, Quiet, ReviewSetupFails, SetPhase, closeTask, SetStatus
<1>10. ASSUME NEW k \in Kind, MergePR(k, t) PROVE Quiet
  BY <1>10 DEF TypeOK, Quiet, MergePR, SetPhase
<1>11. ASSUME NEW k \in Kind, CloseMerged(k, t) PROVE Quiet
  BY <1>11 DEF TypeOK, Quiet, CloseMerged, SetPhase, closeTask, SetStatus
<1>12. ASSUME NEW k \in Kind, CloseUnmerged(k, t) PROVE Quiet
  BY <1>12 DEF TypeOK, Quiet, CloseUnmerged, SetPhase, closeTask, SetStatus
<1>13. ASSUME NEW k \in Kind, CloseFails(k, t) PROVE Quiet
  BY <1>13 DEF TypeOK, Quiet, CloseFails, SetPhase
<1>14. ASSUME NEW k \in Kind, EndWorkflow(k, t) PROVE Quiet
  BY <1>14 DEF TypeOK, Quiet, EndWorkflow, SetPhase
<1>15. CASE AgentLosesPR(t)
  BY <1>15 DEF TypeOK, Quiet, AgentLosesPR, SetPhase, closeTask, SetStatus,
      preserved
<1> QED
  BY <1>1, <1>2, <1>3, <1>4, <1>5, <1>6, <1>7, <1>8, <1>9, <1>10, <1>11,
      <1>12, <1>13, <1>14, <1>15 DEF WorkflowStep

\* A dispatcher step keeps the accounts.
LEMMA AccountedDispatcher ==
    ASSUME NoOverlap, TypeOK, ApprovalsAccounted,
           NEW d \in Dispatcher, DispatcherStep(d)
    PROVE  ApprovalsAccounted'
<1> USE NoOverlap, TaskAssumption DEF NoOverlap
<1>1. CASE TickStart(d)
  BY <1>1 DEF TypeOK, TickStart, zombieListed, ApprovalsAccounted,
      MarkedInPhase, StartsCovered, approvalHeld, listed, startDue
<1>2. CASE ZombieScanFails(d)
  BY <1>2 DEF TypeOK, ZombieScanFails, ApprovalsAccounted, MarkedInPhase,
      StartsCovered, approvalHeld, listed, startDue
<1>3. ASSUME NEW t \in Task, ZombieCheck(d, t) PROVE ApprovalsAccounted'
  BY <1>3 DEF TypeOK, ZombieCheck, SetStatus, zombieTarget,
      ApprovalsAccounted, MarkedInPhase, StartsCovered, approvalHeld, listed,
      startDue
<1>4. CASE ZombieScanDone(d)
  BY <1>4 DEF TypeOK, ZombieScanDone, ApprovalsAccounted, MarkedInPhase,
      StartsCovered, approvalHeld, listed, startDue
<1>5. CASE ScanCandidates(d)
  BY <1>5 DEF TypeOK, ScanCandidates, truncated, ApprovalsAccounted,
      MarkedInPhase, StartsCovered, approvalHeld, listed, startDue
<1>6. CASE ScanCandidatesFails(d)
  BY <1>6 DEF TypeOK, ScanCandidatesFails, ApprovalsAccounted, MarkedInPhase,
      StartsCovered, approvalHeld, listed, startDue
<1>7. ASSUME NEW t \in Task, MarkTaskRunning(d, t) PROVE ApprovalsAccounted'
  BY <1>7 DEF TypeOK, MarkTaskRunning, SetStatus, ApprovalsAccounted,
      MarkedInPhase, StartsCovered, approvalHeld, listed, startDue
<1>8. ASSUME NEW t \in Task, MarkTaskRunningFails(d, t)
      PROVE  ApprovalsAccounted'
  BY <1>8 DEF TypeOK, MarkTaskRunningFails, ApprovalsAccounted, MarkedInPhase,
      StartsCovered, approvalHeld, listed, startDue
<1>9. CASE StartChild(d)
  <2>1. /\ marked[d] \in Task
        /\ marked' = [marked EXCEPT ![d] = NoTask]
        /\ UNCHANGED << status, pausedFrom, tick, todo, approvals >>
    BY <1>9 DEF TypeOK, StartChild
  <2>2. \/ UNCHANGED starts
        \/ /\ tick[d] = "dispatch"
           /\ starts' = [starts EXCEPT ![marked[d]] = @ + 1]
    BY <1>9 DEF StartChild, childKind
  <2>3. MarkedInPhase'
    BY <2>1 DEF TypeOK, ApprovalsAccounted, MarkedInPhase
  <2>4. StartsCovered'
    <3> SUFFICES ASSUME NEW t \in Task
                 PROVE  /\ starts'[t] <= approvals'[t]
                        /\ approvalHeld(t)' \/ listed(t)' \/ startDue(t)'
                             => starts'[t] < approvals'[t]
                        /\ approvalHeld(t)' /\ startDue(t)'
                             => starts'[t] + 1 < approvals'[t]
      BY DEF StartsCovered
    <3>1. approvalHeld(t)' <=> approvalHeld(t)
      BY <2>1 DEF approvalHeld
    <3>2. listed(t)' <=> listed(t)
      BY <2>1 DEF listed
    <3>3. ~startDue(t)'
      BY <2>1 DEF TypeOK, startDue
    <3>4. CASE t = marked[d] /\ starts'[t] = starts[t] + 1
      BY <2>1, <2>2, <3>1, <3>2, <3>3, <3>4
      DEF TypeOK, ApprovalsAccounted, MarkedInPhase, StartsCovered, listed,
          startDue
    <3>5. CASE starts'[t] = starts[t]
      BY <2>1, <3>1, <3>2, <3>3, <3>5
      DEF TypeOK, ApprovalsAccounted, StartsCovered
    <3> QED
      BY <2>1, <2>2, <3>4, <3>5 DEF TypeOK
  <2> QED
    BY <2>3, <2>4 DEF ApprovalsAccounted
<1>10. CASE StartChildFails(d)
  BY <1>10 DEF TypeOK, StartChildFails, SetStatus, ApprovalsAccounted,
      MarkedInPhase, StartsCovered, approvalHeld, listed, startDue
<1>11. CASE ListOrphans(d)
  BY <1>11 DEF TypeOK, ListOrphans, parked, ApprovalsAccounted, MarkedInPhase,
      StartsCovered, approvalHeld, listed, startDue
<1>12. ASSUME NEW t \in Task, CheckOrphan(d, t) PROVE ApprovalsAccounted'
  BY <1>12 DEF TypeOK, CheckOrphan, closeTask, SetStatus, ApprovalsAccounted,
      MarkedInPhase, StartsCovered, approvalHeld, listed, startDue
<1>13. CASE OrphansChecked(d)
  BY <1>13 DEF TypeOK, OrphansChecked, ApprovalsAccounted, MarkedInPhase,
      StartsCovered, approvalHeld, listed, startDue
<1>14. CASE Sweep(d)
  BY <1>14 DEF TypeOK, Sweep, ApprovalsAccounted, MarkedInPhase,
      StartsCovered, approvalHeld, listed, startDue
<1> QED
  BY <1>1, <1>2, <1>3, <1>4, <1>5, <1>6, <1>7, <1>8, <1>9, <1>10, <1>11,
      <1>12, <1>13, <1>14 DEF DispatcherStep

\* A death drops what a tick held and never owes more.
LEMMA AccountedDeath ==
    ASSUME TypeOK, ApprovalsAccounted, Death
    PROVE  ApprovalsAccounted'
<1>1. ASSUME NEW k \in Kind, NEW t \in Task, WorkflowDies(k, t)
      PROVE  ApprovalsAccounted'
  BY <1>1, QuietKeeps DEF WorkflowDies, Quiet
<1>2. ASSUME NEW d \in Dispatcher, DispatcherDies(d)
      PROVE  ApprovalsAccounted'
  BY <1>2 DEF TypeOK, DispatcherDies, ApprovalsAccounted, MarkedInPhase,
              StartsCovered, approvalHeld, listed, startDue
<1> QED
  BY <1>1, <1>2 DEF Death

\* What people do keeps the accounts: only the approve handler writes
\* "approved", and a resume restores it only where a pause found it.
LEMMA AccountedOperator ==
    ASSUME TypeOK, ApprovalsAccounted, OperatorStep
    PROVE  ApprovalsAccounted'
<1>1. ASSUME NEW op \in TaskOp, NEW t \in Task, RequestArrives(op, t)
      PROVE  ApprovalsAccounted'
  BY <1>1, QuietKeeps DEF RequestArrives, Quiet
<1>2. CASE RequestWrites
  <2>1. /\ http.op \in TaskOp
        /\ http.task \in Task
    BY <1>2 DEF RequestWrites, TypeOK, Request
  <2>2. /\ writes[http.op] # "paused"
        /\ writes[http.op] = "approved" => http.op = "approve"
    BY <2>1 DEF TaskOp, writes
  <2>3. CASE http.op = "approve"
    BY <1>2, <2>1, <2>2, <2>3
    DEF TypeOK, RequestWrites, SetStatus, ApprovalsAccounted, MarkedInPhase,
        StartsCovered, approvalHeld, listed, startDue
  <2>4. CASE http.op # "approve"
    <3>1. Quiet
      BY <1>2, <2>1, <2>2, <2>4 DEF TypeOK, RequestWrites, SetStatus, Quiet
    <3> QED
      BY <3>1, QuietKeeps
  <2> QED
    BY <2>3, <2>4
<1>3. CASE PauseProjectTasks
  BY <1>3 DEF TypeOK, PauseProjectTasks, remembered, ApprovalsAccounted,
      MarkedInPhase,
              StartsCovered, approvalHeld, listed, startDue
<1>4. CASE ResumeProjectTasks
  BY <1>4 DEF TypeOK, ResumeProjectTasks, restored, ApprovalsAccounted,
      MarkedInPhase,
              StartsCovered, approvalHeld, listed, startDue
<1>5. ASSUME NEW paused \in BOOLEAN, SetGlobalPaused(paused)
      PROVE  ApprovalsAccounted'
  BY <1>5, QuietKeeps DEF SetGlobalPaused, Quiet
<1>6. ASSUME NEW t \in Task, MergeOnGitHub(t)
      PROVE  ApprovalsAccounted'
  BY <1>6, QuietKeeps DEF MergeOnGitHub, Quiet
<1> QED
  BY <1>1, <1>2, <1>3, <1>4, <1>5, <1>6 DEF OperatorStep

\* Every step keeps the accounts, while ticks do not overlap.
LEMMA AccountedStep ==
    NoOverlap /\ TypeOK /\ ApprovalsAccounted /\ [Next]_vars
      => ApprovalsAccounted'
<1> SUFFICES ASSUME NoOverlap, TypeOK, ApprovalsAccounted, [Next]_vars
             PROVE  ApprovalsAccounted'
  OBVIOUS
<1>1. CASE Next
  <2>1. ASSUME NEW d \in Dispatcher, DispatcherStep(d)
        PROVE  ApprovalsAccounted'
    BY <2>1, AccountedDispatcher
  <2>2. ASSUME NEW t \in Task, WorkflowStep(t)
        PROVE  ApprovalsAccounted'
    BY <2>2, QuietWorkflow, QuietKeeps
  <2>3. CASE Death
    BY <2>3, AccountedDeath
  <2>4. CASE OperatorStep
    BY <2>4, AccountedOperator
  <2> QED
    BY <1>1, <2>1, <2>2, <2>3, <2>4 DEF Next
<1>2. CASE UNCHANGED vars
  <2>1. Quiet
    BY <1>2 DEF vars, Quiet
  <2> QED
    BY <2>1, QuietKeeps
<1> QED
  BY <1>1, <1>2

\* The accounts always balance, while ticks do not overlap.
THEOREM ApprovalsAlwaysAccounted ==
    ASSUME NoOverlap
    PROVE  Spec => []ApprovalsAccounted
<1>1. Init => TypeOK /\ ApprovalsAccounted
  BY TypeInit, AccountedInit
<1>2. TypeOK /\ ApprovalsAccounted /\ [Next]_vars
        => (TypeOK /\ ApprovalsAccounted)'
  BY TypeStep, AccountedStep
<1> QED
  BY <1>1, <1>2, PTL DEF Spec

\* The approval gate: while ticks do not overlap, no task's agent ever starts
\* more often than people approved the task.
THEOREM ApprovalGateHolds ==
    ASSUME NoOverlap
    PROVE  Spec => []ApprovalGate
<1>1. ApprovalsAccounted => ApprovalGate
  BY DEF ApprovalsAccounted, StartsCovered, ApprovalGate
<1> QED
  BY <1>1, ApprovalsAlwaysAccounted, PTL

---------------------------------------------------------------------------
(* The pull request link.                                                  *)

\* Which handler's write a step is, if it makes error_log forget a PR.
Forgets == \A t \in Task : prLink[t] # "none" /\ prLink'[t] = "none"
                             => http.task = t /\ http.op \in clearsErrorLog

\* A close of an execution names a PR or carries over the one in the row.
LEMMA WorkflowKeepsLink ==
    ASSUME TypeOK, NEW t \in Task, WorkflowStep(t)
    PROVE  Forgets
<1>1. CASE AgentSetup(t)
  BY <1>1 DEF TypeOK, Forgets, AgentSetup, SetPhase
<1>2. CASE AgentSetupFails(t)
  BY <1>2 DEF TypeOK, Forgets, AgentSetupFails, SetPhase, closeTask,
      SetStatus, preserved
<1>3. CASE AgentDecompose(t)
  BY <1>3 DEF TypeOK, Forgets, AgentDecompose, SetPhase, SetStatus
<1>4. CASE AgentCloseParent(t)
  BY <1>4 DEF TypeOK, Forgets, AgentCloseParent, SetPhase, closeTask,
      SetStatus, preserved
<1>5. CASE AgentCloseWithoutPR(t)
  BY <1>5 DEF TypeOK, Forgets, AgentCloseWithoutPR, SetPhase, closeTask,
      SetStatus, preserved
<1>6. CASE AgentOpenPR(t)
  BY <1>6 DEF TypeOK, Forgets, AgentOpenPR, SetPhase
<1>7. CASE ReviewMark(t)
  BY <1>7 DEF TypeOK, Forgets, ReviewMark, SetPhase, SetStatus
<1>8. CASE ReviewSetup(t)
  BY <1>8 DEF TypeOK, Forgets, ReviewSetup, SetPhase
<1>9. CASE ReviewSetupFails(t)
  BY <1>9 DEF TypeOK, Forgets, ReviewSetupFails, SetPhase, closeTask,
      SetStatus
<1>10. ASSUME NEW k \in Kind, MergePR(k, t) PROVE Forgets
  BY <1>10 DEF TypeOK, Forgets, MergePR, SetPhase
<1>11. ASSUME NEW k \in Kind, CloseMerged(k, t) PROVE Forgets
  BY <1>11 DEF TypeOK, Forgets, CloseMerged, SetPhase, closeTask, SetStatus
<1>12. ASSUME NEW k \in Kind, CloseUnmerged(k, t) PROVE Forgets
  BY <1>12 DEF TypeOK, Forgets, CloseUnmerged, SetPhase, closeTask, SetStatus
<1>13. ASSUME NEW k \in Kind, CloseFails(k, t) PROVE Forgets
  BY <1>13 DEF TypeOK, Forgets, CloseFails, SetPhase
<1>14. ASSUME NEW k \in Kind, EndWorkflow(k, t) PROVE Forgets
  BY <1>14 DEF TypeOK, Forgets, EndWorkflow, SetPhase
<1>15. CASE AgentLosesPR(t)
  BY <1>15 DEF TypeOK, Forgets, AgentLosesPR, SetPhase, closeTask, SetStatus,
      preserved
<1> QED
  BY <1>1, <1>2, <1>3, <1>4, <1>5, <1>6, <1>7, <1>8, <1>9, <1>10, <1>11,
      <1>12, <1>13, <1>14, <1>15 DEF WorkflowStep
\* No step but a kill's or a retry's write forgets a pull request.
THEOREM LinkKept == Spec => PRLinkKept
<1>1. TypeOK /\ [Next]_vars => [Forgets]_vars
  <2> SUFFICES ASSUME TypeOK, Next PROVE Forgets
    BY DEF vars, Forgets
  <2>1. ASSUME NEW d \in Dispatcher, DispatcherStep(d)
        PROVE  Forgets
    BY <2>1 DEF TypeOK, Forgets, DispatcherStep, TickStart, ZombieScanFails,
        ZombieCheck, ZombieScanDone, ScanCandidates, ScanCandidatesFails,
        MarkTaskRunning, MarkTaskRunningFails, StartChild, StartChildFails,
        ListOrphans, CheckOrphan, OrphansChecked, Sweep, closeTask, SetStatus
  <2>2. ASSUME NEW t \in Task, WorkflowStep(t)
        PROVE  Forgets
    BY <2>2, WorkflowKeepsLink
  <2>3. CASE Death
    BY <2>3 DEF Death, WorkflowDies, DispatcherDies, Forgets
  <2>4. CASE OperatorStep
    <3>1. CASE RequestWrites
      BY <3>1 DEF RequestWrites, TypeOK, Request, Forgets
    <3>2. CASE ~RequestWrites
      BY <2>4, <3>2 DEF OperatorStep, RequestArrives, PauseProjectTasks,
         ResumeProjectTasks, SetGlobalPaused, MergeOnGitHub, Forgets
    <3> QED
      BY <3>1, <3>2
  <2> QED
    BY <2>1, <2>2, <2>3, <2>4 DEF Next
<1> QED
  BY <1>1, TypeInit, TypeStep, PTL DEF Spec, PRLinkKept, Forgets
---------------------------------------------------------------------------
(* Executions stay apart on a task that nobody disturbs, as long as ticks  *)
(* do not overlap: whatever people do to other tasks, and to this one at   *)
(* rest, and whatever fails.                                               *)

Live(k, t) == wf[k][t] \notin { "idle", "tail" }
Stopped(t) == \A k \in Kind : ~ Live(k, t)

\* An approval or a retry has read the task and not written it yet; the other
\* handlers' writes are disturbances, or find the task at rest.
Asked(t) == http.op \in harmless /\ http.task = t
Retryable == { "failed", "dod_failed", "rejected", "needs_refinement" }

\* One execution at a time, and its task is running; a decomposed parent
\* waits for its close.
LiveApart(t) == \A k, l \in Kind : Live(k, t) /\ Live(l, t) => k = l
LiveRuns(t) ==
    \A k \in Kind : Live(k, t) =>
        \/ status[t] = "running"
        \/ status[t] = "decomposed" /\ k = "agent" /\ wf[k][t] = "decomposed"

\* What a tick holds: the task it starts is stopped and running, what it
\* listed to start is approved or parked, what it asks GitHub about is stopped.
MarkedApart(t) ==
    \A d \in Dispatcher : marked[d] = t =>
        status[t] = "running" /\ Stopped(t) /\ ~ Asked(t)
ListedApart(t) ==
    \A d \in Dispatcher : t \in todo[d] =>
        /\ tick[d] = "dispatch" => status[t] = "approved" /\ ~ Asked(t)
        /\ tick[d] = "orphans" => Stopped(t)
        /\ tick[d] = "recover" => status[t] = "needs_review" /\ ~ Asked(t)
        /\ tick[d] = "zombies" /\ status[t] = "ready" => prLink[t] = "none"
EligibleApart(t) ==
    \A d \in Dispatcher : tick[d] = "orphans" /\ t \in eligible[d] =>
        status[t] = "needs_review" /\ ~ Asked(t)

\* A request that has read a task writes it before it can be started: it is
\* neither approved nor running, nor parked with a review to resume.
AskedApart(t) ==
    Asked(t) =>
        /\ status[t] \in { "ready", "needs_review", "completed" } \cup Retryable
        /\ status[t] \notin { "ready" } \cup Retryable => prLink[t] # "recoverable"
        /\ \A d \in Dispatcher :
             tick[d] = "zombies" /\ t \in todo[d] => prLink[t] # "recoverable"

\* No tick still holds as a zombie what a retry may be about to take back.
RetryForgets(t) ==
    \A d \in Dispatcher :
        tick[d] = "zombies" /\ t \in todo[d] /\ status[t] \in Retryable
          => prLink[t] # "recoverable"

Separate(t) == /\ LiveApart(t) /\ LiveRuns(t) /\ MarkedApart(t) /\ ListedApart(t)
               /\ EligibleApart(t) /\ AskedApart(t) /\ RetryForgets(t)

\* The inductive invariant.
SeparateInv ==
    /\ \A t \in Task \ disturbed : Separate(t)
    /\ \A d \in Dispatcher : marked[d] # NoTask => tick[d] \in { "dispatch", "recover" }

LEMMA SeparateInit == Init => SeparateInv
BY TaskAssumption DEF Init, SeparateInv, Separate, LiveApart, LiveRuns, MarkedApart,
   ListedApart, EligibleApart, AskedApart, RetryForgets, Live, Asked, Retryable,
   NoRequest

\* A task at rest is separate, whatever its row says.
LEMMA AtRest ==
    ASSUME NEW t \in Task, ~ reached(t)
    PROVE  Separate(t)
BY TaskAssumption
DEF reached, inWork, executing, held, Separate, LiveApart, LiveRuns,
    MarkedApart, ListedApart, EligibleApart, AskedApart, RetryForgets, Live, Asked

\* So is one that a step finds out of work and leaves so, whatever it writes.
LEMMA StaysAtRest ==
    ASSUME NEW t \in Task, ~ inWork(t), http'.task # t,
           UNCHANGED << wf, tick, todo, eligible, marked >>
    PROVE  Separate(t)'
BY TaskAssumption
DEF inWork, executing, held, Separate, LiveApart, LiveRuns,
    MarkedApart, ListedApart, EligibleApart, AskedApart, RetryForgets, Live, Asked

LEMMA PhaseSet ==
    ASSUME TypeOK, NEW k \in Kind, NEW t \in Task, NEW p, SetPhase(k, t, p)
    PROVE  /\ wf'[k][t] = p
           /\ \A l \in Kind, s \in Task : l # k \/ s # t => wf'[l][s] = wf[l][s]
BY DEF SetPhase, TypeOK

\* What a step leaves alone of a task.
SameRow(t) == status'[t] = status[t] /\ prLink'[t] = prLink[t]
SameRun(t) == \A k \in Kind : wf'[k][t] = wf[k][t]

\* A step of a tick or a request that leaves a task's row and runs alone, and
\* takes nothing new in hand.
LEMMA UntouchedStaysSeparate ==
    ASSUME NEW t \in Task, Separate(t), SameRow(t), SameRun(t),
           \A d \in Dispatcher :
              /\ marked'[d] = t => marked[d] = t
              /\ t \in todo'[d] => t \in todo[d] /\ tick'[d] = tick[d]
              /\ tick'[d] = "orphans" /\ t \in eligible'[d] =>
                   tick[d] = "orphans" /\ t \in eligible[d],
           Asked(t)' => Asked(t)
    PROVE  Separate(t)'
<1> USE DEF SameRow, SameRun
<1>1. LiveApart(t)' /\ LiveRuns(t)'
  BY DEF Separate, LiveApart, LiveRuns, Live
<1>2. Stopped(t) => Stopped(t)'
  BY DEF Stopped, Live
<1>3. MarkedApart(t)'
  BY <1>2 DEF Separate, MarkedApart
<1>4. ListedApart(t)'
  BY <1>2 DEF Separate, ListedApart
<1>5. EligibleApart(t)' /\ AskedApart(t)' /\ RetryForgets(t)'
  BY DEF Separate, EligibleApart, AskedApart, RetryForgets
<1> QED
  BY <1>1, <1>3, <1>4, <1>5 DEF Separate

\* A step that an execution takes, or its death: its task's row changes only
\* while it is live, and what is live afterwards has a running task.
LEMMA RunStep ==
    ASSUME SeparateInv, NEW k \in Kind, NEW t \in Task,
           UNCHANGED << tick, todo, eligible, marked, http, disturbed >>,
           \A s \in Task \ { t } : SameRow(s),
           \A l \in Kind, s \in Task : l # k \/ s # t => wf'[l][s] = wf[l][s],
           Live(k, t)' => Live(k, t),
           \/ t \in disturbed
           \/ /\ SameRow(t)
              /\ wf'[k][t] \in { wf[k][t], "idle", "tail" } \/ status[t] = "running"
           \/ /\ Live(k, t)
              /\ status'[t] # "ready" /\ (status'[t] \in Retryable => prLink'[t] # "recoverable")
              /\ Live(k, t)' => \/ status'[t] = "running"
                                \/ status'[t] = "decomposed" /\ k = "agent" /\ wf'[k][t] = "decomposed"
    PROVE  SeparateInv'
<1>1. ASSUME NEW s \in Task \ disturbed, s # t PROVE Separate(s)'
  <2>1. Separate(s) /\ SameRow(s) /\ SameRun(s)
    BY <1>1 DEF SeparateInv, SameRun
  <2> QED
    BY <2>1, UntouchedStaysSeparate DEF Asked
<1> SUFFICES ASSUME t \notin disturbed PROVE Separate(t)'
  BY <1>1 DEF SeparateInv
<1>2. Separate(t)
  BY DEF SeparateInv
<1>3. \A l \in Kind : Live(l, t)' => Live(l, t)
  BY DEF Live
<1>4. LiveApart(t)'
  BY <1>2, <1>3 DEF Separate, LiveApart
<1>5. Stopped(t) => Stopped(t)'
  BY <1>3 DEF Stopped
<1>6. CASE /\ SameRow(t)
           /\ wf'[k][t] \in { wf[k][t], "idle", "tail" } \/ status[t] = "running"
  <2>1. LiveRuns(t)'
    BY <1>2, <1>6 DEF Separate, LiveRuns, SameRow, Live
  <2>2. MarkedApart(t)' /\ ListedApart(t)' /\ EligibleApart(t)'
    BY <1>2, <1>5, <1>6
    DEF Separate, MarkedApart, ListedApart, EligibleApart, SameRow, Asked
  <2>3. AskedApart(t)' /\ RetryForgets(t)'
    BY <1>2, <1>6 DEF Separate, AskedApart, RetryForgets, SameRow, Asked
  <2> QED
    BY <1>4, <2>1, <2>2, <2>3 DEF Separate
<1>7. CASE /\ Live(k, t)
           /\ status'[t] # "ready" /\ (status'[t] \in Retryable => prLink'[t] # "recoverable")
           /\ Live(k, t)' => \/ status'[t] = "running"
                             \/ status'[t] = "decomposed" /\ k = "agent" /\ wf'[k][t] = "decomposed"
  <2>1. ~ Stopped(t) /\ status[t] \in { "running", "decomposed" }
    BY <1>2, <1>7 DEF Separate, LiveRuns, Stopped
  <2>2. ~ Asked(t)
    BY <1>2, <2>1 DEF Separate, AskedApart, Retryable
  <2>3. \A d \in Dispatcher :
          /\ marked[d] # t
          /\ t \in todo[d] => tick[d] \notin { "dispatch", "orphans", "recover" }
          /\ ~ (tick[d] = "orphans" /\ t \in eligible[d])
    BY <1>2, <2>1 DEF Separate, MarkedApart, ListedApart, EligibleApart
  <2>4. LiveRuns(t)'
    <3>1. \A l \in Kind : Live(l, t)' => l = k
      BY <1>2, <1>3, <1>7 DEF Separate, LiveApart
    <3> QED
      BY <1>7, <3>1 DEF LiveRuns
  <2>5. MarkedApart(t)' /\ EligibleApart(t)' /\ AskedApart(t)'
    BY <2>2, <2>3 DEF MarkedApart, EligibleApart, AskedApart, Asked
  <2>6. ListedApart(t)' /\ RetryForgets(t)'
    BY <1>7, <2>3 DEF ListedApart, RetryForgets
  <2> QED
    BY <1>4, <2>4, <2>5, <2>6 DEF Separate
<1> QED
  BY <1>6, <1>7

\* A step of a tick that changes no row and starts nothing: what it lists or
\* decides to resume is given for every task.
LEMMA ListStep ==
    ASSUME SeparateInv, NEW d \in Dispatcher, NoOverlap, UNCHANGED << status, prLink, wf, http >>,
           \A t \in disturbed : t \in disturbed' \/ ~ reached(t),
           marked'[d] \in { marked[d], NoTask },
           marked'[d] # NoTask => tick'[d] \in { "dispatch", "recover" },
           \A t \in Task :
              /\ t \in todo'[d] =>
                   \/ t \in todo[d] /\ tick'[d] = tick[d]
                   \/ tick'[d] \in { "idle", "scan" }
                   \/ tick'[d] = "zombies" /\ status[t] = "running"
                   \/ tick'[d] = "dispatch" /\ status[t] = "approved"
                   \/ tick'[d] = "orphans" /\ status[t] = "needs_review"
                   \/ tick[d] = "orphans" /\ tick'[d] = "recover" /\ t \in eligible[d]
              /\ tick'[d] = "orphans" /\ t \in eligible'[d] =>
                   \/ tick[d] = "orphans" /\ t \in eligible[d]
                   \/ status[t] = "needs_review" /\ prLink[t] = "recoverable"
    PROVE  SeparateInv'
<1> SUFFICES ASSUME NEW t \in Task \ disturbed' PROVE Separate(t)'
  BY DEF SeparateInv, NoOverlap
<1> USE DEF NoOverlap
<1>1. Separate(t)
  BY AtRest DEF SeparateInv
<1>2. LiveApart(t)' /\ LiveRuns(t)' /\ (Stopped(t) => Stopped(t)')
  BY <1>1 DEF Separate, LiveApart, LiveRuns, Live, Stopped
<1>3. status[t] \in { "needs_review", "approved" } => Stopped(t)
  BY <1>1 DEF Separate, LiveRuns, Stopped
<1>4. MarkedApart(t)'
  BY <1>1, <1>2, TaskAssumption DEF Separate, MarkedApart, Asked
<1>5. ListedApart(t)'
  BY <1>1, <1>2, <1>3
  DEF Separate, ListedApart, EligibleApart, AskedApart, Retryable, Asked
<1>6. EligibleApart(t)'
  BY <1>1 DEF Separate, EligibleApart, AskedApart, Retryable, Asked
<1>7. AskedApart(t)' /\ RetryForgets(t)'
  BY <1>1 DEF Separate, AskedApart, RetryForgets, Retryable, Asked
<1> QED
  BY <1>2, <1>4, <1>5, <1>6, <1>7 DEF Separate

\* Every step of a task's executions, the end of one included, keeps them
\* apart: an execution closes only the task it is alone on.
LEMMA SeparateWorkflow ==
    ASSUME TypeOK, SeparateInv, NEW t \in Task, WorkflowStep(t)
    PROVE  SeparateInv'
<1>0. \A k \in Kind : Live(k, t) /\ wf[k][t] # "decomposed" /\ t \notin disturbed
                      => status[t] = "running"
  BY DEF SeparateInv, Separate, LiveRuns
<1>1. "agent" \in Kind /\ "review" \in Kind
  BY DEF Kind
<1>2. CASE AgentSetup(t)
  <2>1. SetPhase("agent", t, "execute") /\ wf["agent"][t] = "setup"
    BY <1>2 DEF AgentSetup
  <2>2. t \in disturbed \/ status[t] = "running"
    BY <1>0, <1>1, <2>1 DEF Live
  <2> QED
    BY <1>1, <1>2, <2>1, <2>2, PhaseSet, RunStep DEF AgentSetup, Live, SameRow
<1>3. CASE AgentSetupFails(t)
  <2>1. SetPhase("agent", t, "tail") /\ Live("agent", t)
    BY <1>3 DEF AgentSetupFails, Live
  <2>2. status'[t] = "needs_review" /\ \A s \in Task \ {t} : SameRow(s)
    BY <1>3 DEF AgentSetupFails, closeTask, SetStatus, SameRow, TypeOK
  <2> QED
    BY <1>1, <1>3, <2>1, <2>2, PhaseSet, RunStep DEF AgentSetupFails, Live, Retryable
<1>4. CASE AgentDecompose(t)
  <2>1. SetPhase("agent", t, "decomposed") /\ Live("agent", t)
    BY <1>4 DEF AgentDecompose, Live
  <2>2. status'[t] = "decomposed" /\ \A s \in Task \ {t} : SameRow(s)
    BY <1>4 DEF AgentDecompose, SetStatus, SameRow, TypeOK
  <2> QED
    BY <1>1, <1>4, <2>1, <2>2, PhaseSet, RunStep DEF AgentDecompose, Live, Retryable
<1>5. CASE AgentCloseParent(t)
  <2>1. PICK p \in { "idle", "tail" } : SetPhase("agent", t, p)
    BY <1>5 DEF AgentCloseParent
  <2>2. /\ status'[t] \in { "decomposed", "needs_review" }
        /\ \A s \in Task \ {t} : SameRow(s)
        /\ Live("agent", t)
    BY <1>5 DEF AgentCloseParent, closeTask, SetStatus, SameRow, TypeOK, Live
  <2> QED
    BY <1>1, <1>5, <2>1, <2>2, PhaseSet, RunStep DEF AgentCloseParent, Live, Retryable
<1>6. CASE AgentCloseWithoutPR(t)
  <2>1. SetPhase("agent", t, "tail") /\ Live("agent", t)
    BY <1>6 DEF AgentCloseWithoutPR, Live
  <2>2. /\ status'[t] \in { "needs_review", "dod_failed", "failed", "completed" }
        /\ prLink'[t] # "recoverable"
        /\ \A s \in Task \ {t} : SameRow(s)
    BY <1>6 DEF AgentCloseWithoutPR, closeTask, SetStatus, preserved, SameRow, TypeOK
  <2> QED
    BY <1>1, <1>6, <2>1, <2>2, PhaseSet, RunStep DEF AgentCloseWithoutPR, Live
<1>7. CASE AgentLosesPR(t)
  <2>1. SetPhase("agent", t, "tail") /\ Live("agent", t)
    BY <1>7 DEF AgentLosesPR, Live
  <2>2. status'[t] = "needs_review" /\ \A s \in Task \ {t} : SameRow(s)
    BY <1>7 DEF AgentLosesPR, closeTask, SetStatus, SameRow, TypeOK
  <2> QED
    BY <1>1, <1>7, <2>1, <2>2, PhaseSet, RunStep DEF AgentLosesPR, Live, Retryable
<1>8. CASE AgentOpenPR(t)
  <2>1. SetPhase("agent", t, "review") /\ wf["agent"][t] = "execute"
    BY <1>8 DEF AgentOpenPR
  <2>2. t \in disturbed \/ status[t] = "running"
    BY <1>0, <1>1, <2>1 DEF Live
  <2> QED
    BY <1>1, <1>8, <2>1, <2>2, PhaseSet, RunStep DEF AgentOpenPR, Live, SameRow
<1>9. CASE ReviewMark(t)
  <2>1. SetPhase("review", t, "setup") /\ wf["review"][t] = "mark"
    BY <1>9 DEF ReviewMark
  <2>2. t \in disturbed \/ status[t] = "running"
    BY <1>0, <1>1, <2>1 DEF Live
  <2>3. \A s \in Task : s # t \/ t \notin disturbed => SameRow(s)
    BY <1>9, <2>2 DEF ReviewMark, SetStatus, SameRow, TypeOK
  <2> QED
    BY <1>1, <1>9, <2>1, <2>2, <2>3, PhaseSet, RunStep DEF ReviewMark, Live
<1>10. CASE ReviewSetup(t)
  <2>1. SetPhase("review", t, "review") /\ wf["review"][t] = "setup"
    BY <1>10 DEF ReviewSetup
  <2>2. t \in disturbed \/ status[t] = "running"
    BY <1>0, <1>1, <2>1 DEF Live
  <2> QED
    BY <1>1, <1>10, <2>1, <2>2, PhaseSet, RunStep DEF ReviewSetup, Live, SameRow
<1>11. CASE ReviewSetupFails(t)
  <2>1. SetPhase("review", t, "tail") /\ Live("review", t)
    BY <1>11 DEF ReviewSetupFails, Live
  <2>2. status'[t] = "needs_review" /\ \A s \in Task \ {t} : SameRow(s)
    BY <1>11 DEF ReviewSetupFails, closeTask, SetStatus, SameRow, TypeOK
  <2> QED
    BY <1>1, <1>11, <2>1, <2>2, PhaseSet, RunStep DEF ReviewSetupFails, Live, Retryable
<1>12. ASSUME NEW k \in Kind, MergePR(k, t) PROVE SeparateInv'
  <2>1. SetPhase(k, t, "merged") /\ wf[k][t] = "review"
    BY <1>12 DEF MergePR
  <2>2. t \in disturbed \/ status[t] = "running"
    BY <1>0, <2>1 DEF Live
  <2> QED
    BY <1>12, <2>1, <2>2, PhaseSet, RunStep DEF MergePR, Live, SameRow
<1>13. ASSUME NEW k \in Kind, CloseMerged(k, t) PROVE SeparateInv'
  <2>1. SetPhase(k, t, "tail") /\ Live(k, t)
    BY <1>13 DEF CloseMerged, Live
  <2>2. /\ status'[t] \in { "completed", "needs_review" }
        /\ \A s \in Task \ {t} : SameRow(s)
    BY <1>13 DEF CloseMerged, closeTask, SetStatus, SameRow, TypeOK
  <2> QED
    BY <1>13, <2>1, <2>2, PhaseSet, RunStep DEF CloseMerged, Live, Retryable
<1>14. ASSUME NEW k \in Kind, CloseUnmerged(k, t) PROVE SeparateInv'
  <2>1. SetPhase(k, t, "tail") /\ Live(k, t)
    BY <1>14 DEF CloseUnmerged, Live
  <2>2. /\ \/ status'[t] = "needs_review"
           \/ status'[t] = "dod_failed" /\ prLink'[t] = "held"
        /\ \A s \in Task \ {t} : SameRow(s)
    BY <1>14 DEF CloseUnmerged, closeTask, SetStatus, SameRow, TypeOK
  <2> QED
    BY <1>14, <2>1, <2>2, PhaseSet, RunStep DEF CloseUnmerged, Live, Retryable
<1>15. ASSUME NEW k \in Kind, CloseFails(k, t) PROVE SeparateInv'
  <2>1. SetPhase(k, t, "tail")
    BY <1>15 DEF CloseFails
  <2> QED
    BY <1>15, <2>1, PhaseSet, RunStep DEF CloseFails, Live, SameRow
<1>16. ASSUME NEW k \in Kind, EndWorkflow(k, t) PROVE SeparateInv'
  <2>1. SetPhase(k, t, "idle")
    BY <1>16 DEF EndWorkflow
  <2> QED
    BY <1>16, <2>1, PhaseSet, RunStep DEF EndWorkflow, Live, SameRow
<1> QED
  BY <1>2, <1>3, <1>4, <1>5, <1>6, <1>7, <1>8, <1>9, <1>10, <1>11, <1>12,
     <1>13, <1>14, <1>15, <1>16 DEF WorkflowStep

\* A step that writes one task's row keeps the others apart.
LEMMA OthersStaySeparate ==
    ASSUME SeparateInv, NEW t \in Task,
           \A s \in Task \ {t} : SameRow(s) /\ SameRun(s),
           UNCHANGED << tick, eligible >>,
           \A d \in Dispatcher :
              todo'[d] \subseteq todo[d] /\ marked'[d] \in { marked[d], t, NoTask },
           \A s \in Task \ {t} : Asked(s)' => Asked(s)
    PROVE  \A s \in Task \ disturbed : s # t => Separate(s)'
<1> SUFFICES ASSUME NEW s \in Task \ disturbed, s # t PROVE Separate(s)'
  OBVIOUS
<1>1. Separate(s) /\ SameRow(s) /\ SameRun(s)
  BY DEF SeparateInv
<1> QED
  BY <1>1, UntouchedStaysSeparate, TaskAssumption

\* The zombie scan writes the recovery status of a task only if neither of
\* its executions is at work, or Describe failed and the task is disturbed.
LEMMA SeparateZombie ==
    ASSUME NoOverlap, TypeOK, SeparateInv,
           NEW d \in Dispatcher, NEW t \in Task, ZombieCheck(d, t)
    PROVE  SeparateInv'
<1> USE DEF NoOverlap
<1>1. CASE UNCHANGED << status, disturbed >>
  BY <1>1, ListStep DEF ZombieCheck, SeparateInv, TypeOK
<1>2. CASE /\ SetStatus(t, zombieTarget(d))
           /\ disturbed \subseteq disturbed'
           /\ t \in disturbed' \/ ~ executing(t)
  <2>1. /\ \A s \in Task \ disturbed : s # t => Separate(s)'
        /\ status'[t] \in { "ready", "needs_review" }
        /\ UNCHANGED << wf, prLink, http, tick, marked, eligible >>
        /\ t \notin todo'[d] /\ tick[d] = "zombies" /\ t \in todo[d]
    BY <1>2, OthersStaySeparate
    DEF ZombieCheck, SetStatus, zombieTarget, SameRow, SameRun, TypeOK, Asked
  <2>2. ASSUME t \notin disturbed' PROVE Separate(t)'
    <3>1. \A k \in Kind : ~ Live(k, t) /\ ~ Live(k, t)'
      BY <1>2, <2>1, <2>2 DEF executing, Live
    <3>2. marked[d] = NoTask /\ Separate(t)
      BY <1>2, <2>1, <2>2 DEF SeparateInv
    <3> QED
      BY <2>1, <3>1, <3>2, TaskAssumption
      DEF Separate, LiveApart, LiveRuns, MarkedApart, ListedApart,
          EligibleApart, AskedApart, RetryForgets, Retryable, Asked
  <2> QED
    BY <1>2, <2>1, <2>2 DEF SeparateInv
<1> QED
  BY <1>1, <1>2 DEF ZombieCheck, anyActive, active, executing

\* Marking a listed task running: it was approved or parked, so no execution
\* is live and no approval or retry is about to write it.
LEMMA SeparateMark ==
    ASSUME NoOverlap, TypeOK, SeparateInv,
           NEW d \in Dispatcher, NEW t \in Task, MarkTaskRunning(d, t)
    PROVE  SeparateInv'
<1> USE DEF NoOverlap
<1>1. /\ \A s \in Task \ disturbed : s # t => Separate(s)'
      /\ status'[t] = "running"
      /\ UNCHANGED << wf, prLink, http, tick, eligible, disturbed >>
      /\ t \notin todo'[d] /\ marked'[d] = t
      /\ tick[d] \in { "dispatch", "recover" } /\ t \in todo[d]
  BY OthersStaySeparate
  DEF MarkTaskRunning, SetStatus, SameRow, SameRun, TypeOK, Asked
<1>2. ASSUME t \notin disturbed PROVE Separate(t)'
  <2>1. /\ Separate(t)
        /\ status[t] \in { "approved", "needs_review" }
        /\ ~ Asked(t)
    BY <1>1, <1>2 DEF SeparateInv, Separate, ListedApart
  <2>2. \A k \in Kind : ~ Live(k, t) /\ ~ Live(k, t)'
    BY <1>1, <2>1 DEF Separate, LiveRuns, Live
  <2> QED
    BY <1>1, <2>1, <2>2
    DEF Separate, LiveApart, LiveRuns, MarkedApart, ListedApart, EligibleApart,
        AskedApart, RetryForgets, Retryable, Asked, Stopped
<1> QED
  BY <1>1, <1>2 DEF SeparateInv

\* The child starts on a task that is running and has no live execution.
LEMMA SeparateStart ==
    ASSUME NoOverlap, TypeOK, SeparateInv, NEW d \in Dispatcher, StartChild(d)
    PROVE  SeparateInv'
<1> USE DEF NoOverlap
<1>1. CASE UNCHANGED wf
  BY <1>1, ListStep DEF StartChild, SeparateInv, TypeOK
<1>2. PICK t \in Task, k \in Kind, p \in { "setup", "mark" } :
        \/ UNCHANGED wf
        \/ marked[d] = t /\ SetPhase(k, t, p)
  BY DEF StartChild, TypeOK, childKind, firstPhase, Kind
<1>3. CASE marked[d] = t /\ SetPhase(k, t, p)
  <2>1. /\ wf'[k][t] = p
        /\ \A l \in Kind, s \in Task : l # k \/ s # t => wf'[l][s] = wf[l][s]
    BY <1>3, PhaseSet
  <2>2. /\ UNCHANGED << status, prLink, http, tick, todo, eligible, disturbed >>
        /\ marked'[d] = NoTask
    BY DEF StartChild, TypeOK
  <2>3. \A s \in Task \ disturbed : s # t => Separate(s)'
    BY <2>1, <2>2, OthersStaySeparate DEF SameRow, SameRun, Asked
  <2>4. ASSUME t \notin disturbed PROVE Separate(t)'
    <3>1. Separate(t) /\ status[t] = "running" /\ Stopped(t) /\ ~ Asked(t)
      BY <1>3, <2>4 DEF SeparateInv, Separate, MarkedApart
    <3>2. LiveApart(t)' /\ LiveRuns(t)'
      BY <2>1, <2>2, <3>1 DEF LiveApart, LiveRuns, Live, Stopped
    <3>3. t \in todo[d] => tick[d] # "orphans"
      BY <1>3, TaskAssumption DEF SeparateInv
    <3>4. /\ MarkedApart(t)' /\ ListedApart(t)' /\ EligibleApart(t)'
          /\ AskedApart(t)' /\ RetryForgets(t)'
      BY <2>2, <3>1, <3>3, TaskAssumption
      DEF Separate, MarkedApart, ListedApart, EligibleApart, AskedApart,
          RetryForgets, Retryable, Asked
    <3> QED
      BY <3>2, <3>4 DEF Separate
  <2> QED
    BY <2>2, <2>3, <2>4 DEF SeparateInv
<1> QED
  BY <1>1, <1>2, <1>3

\* The child does not start: the marked task goes back where it came from.
LEMMA SeparateStartFails ==
    ASSUME NoOverlap, TypeOK, SeparateInv, NEW d \in Dispatcher, StartChildFails(d)
    PROVE  SeparateInv'
<1> USE DEF NoOverlap
<1>1. CASE UNCHANGED status
  BY <1>1, ListStep DEF StartChildFails, SeparateInv, TypeOK
<1>2. PICK t \in Task, st \in { "ready", "needs_review" } :
        marked[d] = t /\ (UNCHANGED status \/ SetStatus(t, st))
  BY DEF StartChildFails, TypeOK
<1>3. CASE SetStatus(t, st)
  <2>1. /\ \A s \in Task \ disturbed : s # t => Separate(s)'
        /\ status'[t] = st
        /\ UNCHANGED << wf, prLink, http, tick, todo, eligible, disturbed >>
        /\ marked'[d] = NoTask
    BY <1>2, <1>3, OthersStaySeparate
    DEF StartChildFails, SetStatus, SameRow, SameRun, TypeOK, Asked
  <2>2. ASSUME t \notin disturbed PROVE Separate(t)'
    <3>1. /\ Separate(t) /\ status[t] = "running" /\ ~ Asked(t)
          /\ \A k \in Kind : ~ Live(k, t) /\ ~ Live(k, t)'
      BY <1>2, <2>1, <2>2 DEF SeparateInv, Separate, MarkedApart, Stopped, Live
    <3>2. tick[d] \in { "dispatch", "recover" } /\ t \notin todo[d]
      BY <1>2, <3>1, TaskAssumption DEF SeparateInv, Separate, ListedApart
    <3> QED
      BY <2>1, <3>1, <3>2, TaskAssumption
      DEF Separate, LiveApart, LiveRuns, MarkedApart, ListedApart,
          EligibleApart, AskedApart, RetryForgets, Retryable, Asked
  <2> QED
    BY <2>1, <2>2 DEF SeparateInv
<1> QED
  BY <1>1, <1>2, <1>3

\* GitHub says the pull request of a listed task is merged: the task, which
\* no execution works on, is completed.
LEMMA SeparateOrphan ==
    ASSUME NoOverlap, TypeOK, SeparateInv,
           NEW d \in Dispatcher, NEW t \in Task, CheckOrphan(d, t)
    PROVE  SeparateInv'
<1> USE DEF NoOverlap
<1>1. CASE UNCHANGED << status, prLink >>
  BY <1>1, ListStep DEF CheckOrphan, SeparateInv, TypeOK
<1>2. CASE /\ closeTask(t, "completed", "held")
           /\ eligible' = [eligible EXCEPT ![d] = @ \ {t}]
  <2>1. /\ status'[t] = "completed" /\ prLink'[t] = "held"
        /\ UNCHANGED << wf, http, tick, marked, disturbed >>
        /\ t \notin todo'[d] /\ t \notin eligible'[d]
        /\ tick[d] = "orphans" /\ t \in todo[d]
    BY <1>2 DEF CheckOrphan, closeTask, SetStatus, TypeOK
  <2>2. ASSUME NEW s \in Task \ disturbed, s # t PROVE Separate(s)'
    <3>1. Separate(s) /\ SameRow(s) /\ SameRun(s)
      BY <1>2, <2>2 DEF SeparateInv, SameRow, SameRun, CheckOrphan, closeTask,
         SetStatus, TypeOK
    <3> QED
      BY <1>2, <3>1, UntouchedStaysSeparate DEF CheckOrphan, TypeOK, Asked
  <2>3. ASSUME t \notin disturbed PROVE Separate(t)'
    <3>1. Separate(t) /\ Stopped(t) /\ marked[d] = NoTask
      BY <2>1, <2>3 DEF SeparateInv, Separate, ListedApart
    <3>2. \A k \in Kind : ~ Live(k, t)'
      BY <2>1, <3>1 DEF Stopped, Live
    <3> QED
      BY <2>1, <3>1, <3>2, TaskAssumption
      DEF Separate, LiveApart, LiveRuns, MarkedApart, ListedApart,
          EligibleApart, AskedApart, RetryForgets, Retryable, Asked
  <2> QED
    BY <2>1, <2>2, <2>3 DEF SeparateInv
<1> QED
  BY <1>1, <1>2 DEF CheckOrphan

\* The scan of candidates: a redundant parent is decomposed, what is kept is
\* approved.
LEMMA SeparateScan ==
    ASSUME NoOverlap, TypeOK, SeparateInv, NEW d \in Dispatcher, ScanCandidates(d)
    PROVE  SeparateInv'
<1> USE DEF NoOverlap
<1>1. /\ tick[d] = "scan" /\ tick'[d] = "dispatch"
      /\ UNCHANGED << wf, http, prLink, marked, eligible, disturbed >>
      /\ \A t \in Task : \/ status'[t] = status[t]
                         \/ status[t] = "approved" /\ status'[t] = "decomposed"
      /\ \A t \in todo'[d] : status[t] = "approved" /\ status'[t] = "approved"
  BY DEF ScanCandidates, truncated, TypeOK
<1>2. ASSUME NEW t \in Task \ disturbed PROVE Separate(t)'
  <2>1. Separate(t) /\ marked[d] = NoTask
    BY <1>1 DEF SeparateInv
  <2>2. \A k \in Kind : Live(k, t)' <=> Live(k, t)
    BY <1>1 DEF Live
  <2>3. LiveApart(t)' /\ LiveRuns(t)'
    BY <1>1, <2>1, <2>2 DEF Separate, LiveApart, LiveRuns
  <2>4. /\ MarkedApart(t)' /\ ListedApart(t)' /\ EligibleApart(t)'
        /\ AskedApart(t)' /\ RetryForgets(t)'
    BY <1>1, <2>1, TaskAssumption
    DEF Separate, MarkedApart, ListedApart, EligibleApart, AskedApart,
        RetryForgets, Retryable, Asked
  <2> QED
    BY <2>3, <2>4 DEF Separate
<1> QED
  BY <1>1, <1>2, TaskAssumption DEF SeparateInv

\* A step of a tick keeps executions apart; a new tick forgets only the
\* disturbances of tasks that are at rest.
LEMMA SeparateDispatcher ==
    ASSUME NoOverlap, TypeOK, SeparateInv,
           NEW d \in Dispatcher, DispatcherStep(d)
    PROVE  SeparateInv'
<1> USE TaskAssumption
<1>1. CASE TickStart(d)
  BY <1>1, ListStep DEF TickStart, zombieListed, SeparateInv, TypeOK
<1>2. CASE ZombieScanFails(d)
  BY <1>2, ListStep DEF ZombieScanFails, SeparateInv, TypeOK
<1>3. CASE ZombieScanDone(d)
  BY <1>3, ListStep DEF ZombieScanDone, SeparateInv, TypeOK
<1>4. CASE ScanCandidatesFails(d)
  BY <1>4, ListStep DEF ScanCandidatesFails, SeparateInv, TypeOK
<1>5. ASSUME NEW t \in Task, MarkTaskRunningFails(d, t) PROVE SeparateInv'
  BY <1>5, ListStep DEF MarkTaskRunningFails, SeparateInv, TypeOK
<1>6. CASE ListOrphans(d)
  BY <1>6, ListStep DEF ListOrphans, parked, orphanReviewRecoverable, SeparateInv, TypeOK
<1>7. CASE OrphansChecked(d)
  BY <1>7, ListStep DEF OrphansChecked, SeparateInv, TypeOK
<1>8. CASE Sweep(d)
  BY <1>8, ListStep DEF Sweep, SeparateInv, TypeOK
<1> QED
  BY <1>1, <1>2, <1>3, <1>4, <1>5, <1>6, <1>7, <1>8, SeparateZombie,
     SeparateScan, SeparateMark, SeparateStart, SeparateStartFails,
     SeparateOrphan DEF DispatcherStep

\* So does a death: what the dead held is gone, and nothing takes its place.
LEMMA SeparateDeath ==
    ASSUME NoOverlap, TypeOK, SeparateInv, Death
    PROVE  SeparateInv'
<1>1. ASSUME NEW k \in Kind, NEW t \in Task, WorkflowDies(k, t)
      PROVE  SeparateInv'
  <2>1. SetPhase(k, t, "idle")
    BY <1>1 DEF WorkflowDies
  <2> QED
    BY <1>1, <2>1, PhaseSet, RunStep DEF WorkflowDies, Live, SameRow
<1>2. ASSUME NEW d \in Dispatcher, DispatcherDies(d)
      PROVE  SeparateInv'
  BY <1>2, ListStep DEF DispatcherDies, SeparateInv, TypeOK
<1> QED
  BY <1>1, <1>2 DEF Death

\* An approval reads a task that is ready, a retry one that failed; what any
\* other request reads does not matter yet.
LEMMA SeparateArrival ==
    ASSUME TypeOK, SeparateInv,
           NEW op \in TaskOp, NEW t \in Task, RequestArrives(op, t)
    PROVE  SeparateInv'
<1>1. /\ op \in harmless => status[t] \in { "ready" } \cup Retryable
      /\ http = NoRequest /\ http' = [op |-> op, task |-> t, read |-> pausedFrom[t]]
      /\ UNCHANGED << status, prLink, wf, tick, todo, eligible, marked, disturbed >>
  BY DEF RequestArrives, harmless, accepts, Retryable
<1>2. http'.op = op /\ http'.task = t
  BY <1>1
<1>3. ASSUME NEW s \in Task \ disturbed PROVE Separate(s)'
  <2>1. Separate(s) /\ SameRow(s) /\ SameRun(s)
    BY <1>1 DEF SeparateInv, SameRow, SameRun
  <2>2. CASE s # t \/ op \notin harmless
    BY <1>1, <1>2, <2>1, <2>2, UntouchedStaysSeparate DEF Asked
  <2>3. CASE s = t /\ op \in harmless
    BY <1>1, <2>1, <2>3
    DEF Separate, LiveApart, LiveRuns, MarkedApart, ListedApart,
        EligibleApart, AskedApart, RetryForgets, Retryable, Asked, Live, Stopped
  <2> QED
    BY <2>2, <2>3
<1> QED
  BY <1>1, <1>3 DEF SeparateInv

\* The request writes.  Nobody listed, marked or started meanwhile the task
\* that an approval or a retry read; any other write finds its task at rest
\* or disturbs it.
LEMMA SeparateWrite ==
    ASSUME TypeOK, SeparateInv, RequestWrites
    PROVE  SeparateInv'
<1>1. /\ http.op \in TaskOp /\ http.task \in Task
      /\ http' = NoRequest
      /\ disturbed \subseteq disturbed'
      /\ UNCHANGED << wf, tick, todo, eligible, marked >>
  BY DEF RequestWrites, TypeOK, Request
<1>2. PICK t \in Task : t = http.task
  BY <1>1
<1>3. \A s \in Task \ {t} : SameRow(s)
  BY <1>1, <1>2 DEF RequestWrites, SetStatus, SameRow, TypeOK
<1>4. \A s \in Task \ disturbed : s # t => Separate(s)'
  BY <1>1, <1>3, OthersStaySeparate, TaskAssumption DEF SameRun, Asked, NoRequest
<1>5. ASSUME t \notin disturbed' PROVE Separate(t)'
  <2>1. CASE http.op \notin harmless
    <3>1. ~ inWork(t)
      BY <1>2, <1>5, <2>1 DEF RequestWrites
    <3>2. http'.task # t
      BY <1>1, TaskAssumption DEF NoRequest
    <3> QED
      BY <1>1, <3>1, <3>2, StaysAtRest
  <2>2. CASE http.op \in harmless
    <3>1. /\ status'[t] \in { "approved", "ready" }
          /\ status'[t] = "ready" => prLink'[t] = "none"
      BY <1>1, <1>2, <2>2
      DEF RequestWrites, writes, clearsErrorLog, harmless, SetStatus, TypeOK
    <3>2. /\ Separate(t)
          /\ status[t] \in { "ready", "needs_review", "completed" } \cup Retryable
          /\ Asked(t)
      BY <1>1, <1>2, <1>5, <2>2 DEF SeparateInv, Separate, AskedApart, Asked
    <3>3. \A k \in Kind : ~ Live(k, t) /\ ~ Live(k, t)'
      BY <1>1, <3>2 DEF Separate, LiveRuns, Live, Retryable
    <3>4. ~ Asked(t)'
      BY <1>1, TaskAssumption DEF NoRequest, Asked
    <3> QED
      BY <1>1, <3>1, <3>2, <3>3, <3>4
      DEF Separate, LiveApart, LiveRuns, MarkedApart, ListedApart, EligibleApart,
          AskedApart, RetryForgets, Retryable, Stopped
  <2> QED
    BY <2>1, <2>2
<1> QED
  BY <1>1, <1>4, <1>5 DEF SeparateInv

\* A project's pause or resume disturbs what it reaches; the rest is at rest.
LEMMA SeparatePause ==
    ASSUME TypeOK, SeparateInv, PauseProjectTasks \/ ResumeProjectTasks
    PROVE  SeparateInv'
<1>1. /\ UNCHANGED << prLink, wf, tick, todo, eligible, marked, http >>
      /\ disturbed \subseteq disturbed'
      /\ \A s \in Task : status'[s] # status[s] /\ reached(s) => s \in disturbed'
  BY DEF PauseProjectTasks, ResumeProjectTasks, TypeOK
<1>2. ASSUME NEW s \in Task \ disturbed' PROVE Separate(s)'
  <2>1. CASE status'[s] = status[s]
    <3>1. Separate(s) /\ SameRow(s) /\ SameRun(s)
      BY <1>1, <2>1 DEF SeparateInv, SameRow, SameRun
    <3> QED
      BY <1>1, <3>1, UntouchedStaysSeparate DEF Asked
  <2>2. CASE ~ reached(s)
    BY <1>1, <2>2, StaysAtRest DEF reached
  <2> QED
    BY <1>1, <1>2, <2>1, <2>2
<1> QED
  BY <1>1, <1>2 DEF SeparateInv

\* What people do keeps executions apart, but on the tasks it disturbs.
LEMMA SeparateOperator ==
    ASSUME TypeOK, SeparateInv, OperatorStep
    PROVE  SeparateInv'
<1>1. ASSUME NEW op \in TaskOp, NEW t \in Task, RequestArrives(op, t)
      PROVE  SeparateInv'
  BY <1>1, SeparateArrival
<1>2. CASE RequestWrites
  BY <1>2, SeparateWrite
<1>3. CASE PauseProjectTasks \/ ResumeProjectTasks
  BY <1>3, SeparatePause
<1>4. CASE \/ \E paused \in BOOLEAN : SetGlobalPaused(paused)
           \/ \E t \in Task : MergeOnGitHub(t)
  <2>1. UNCHANGED << status, prLink, wf, tick, todo, eligible, marked, http,
                     disturbed >>
    BY <1>4 DEF SetGlobalPaused, MergeOnGitHub
  <2>2. \A s \in Task \ disturbed : Separate(s)'
    BY <2>1, UntouchedStaysSeparate DEF SeparateInv, SameRow, SameRun, Asked
  <2> QED
    BY <2>1, <2>2 DEF SeparateInv
<1> QED
  BY <1>1, <1>2, <1>3, <1>4 DEF OperatorStep

\* Every step keeps executions apart.
LEMMA SeparateStep ==
    ASSUME NoOverlap
    PROVE  TypeOK /\ SeparateInv /\ [Next]_vars => SeparateInv'
<1> SUFFICES ASSUME TypeOK, SeparateInv, [Next]_vars PROVE SeparateInv'
  OBVIOUS
<1>1. CASE Next
  BY <1>1, SeparateDispatcher, SeparateWorkflow, SeparateDeath,
     SeparateOperator DEF Next
<1>2. CASE UNCHANGED vars
  <2>1. \A s \in Task \ disturbed : Separate(s)'
    BY <1>2, UntouchedStaysSeparate
    DEF vars, SeparateInv, SameRow, SameRun, Asked
  <2> QED
    BY <1>2, <2>1 DEF vars, SeparateInv
<1> QED
  BY <1>1, <1>2

\* Executions always stay apart while ticks do not overlap.
LEMMA AlwaysSeparate ==
    ASSUME NoOverlap
    PROVE  Spec => []SeparateInv
<1>1. TypeOK /\ SeparateInv /\ [Next]_vars => SeparateInv'
  BY SeparateStep
<1> QED
  BY <1>1, SeparateInit, TypeInit, TypeStep, PTL DEF Spec

\* While ticks do not overlap, an agent and a review execution are never at
\* work on one task together unless somebody disturbed it in work, whatever
\* starts, closes, Describes and deaths fail or come late, and whatever people
\* do to a task at rest.
THEOREM ExecutionsStayApart ==
    ASSUME NoOverlap
    PROVE  Spec => []NoDoubleExecution
<1>1. SeparateInv => NoDoubleExecution
  BY DEF SeparateInv, Separate, LiveApart, Live, NoDoubleExecution, Kind
<1> QED
  BY <1>1, AlwaysSeparate, PTL

\* The sweep of the worktrees of terminal tasks never removes one in use,
\* unless somebody disturbed the task in work: any other terminal status is
\* written only over a task whose execution has ended or left its worktree.
THEOREM TerminalIsStopped ==
    ASSUME NoOverlap
    PROVE  Spec => []TerminalMeansStopped
<1>1. SeparateInv => TerminalMeansStopped
  BY DEF SeparateInv, Separate, LiveRuns, Live, TerminalMeansStopped,
     terminalStatuses, Working
<1> QED
  BY <1>1, AlwaysSeparate, PTL
=============================================================================
