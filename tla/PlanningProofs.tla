--------------------------- MODULE PlanningProofs ---------------------------
(***************************************************************************)
(* Proofs about Planning, for every set of approaches, every number of     *)
(* steps, rounds and cycles, with the tracker first or not, and for every  *)
(* bound.                                                                  *)
(***************************************************************************)
EXTENDS Planning, SequenceTheorems, WellFoundedInduction, TLAPS

USE DEF control, ideas, factory, GoOn, Continue, Stop, StopsOr, persistSnapshot, Fails,
        Create

---------------------------------------------------------------------------
(* Type correctness.                                                       *)

\* What is being researched deeper is an approach.
DigNamed == phase = "deeper" => digging \in Approach

TypeInv == TypeOK /\ DigNamed

LEMMA TypeInit == Init => TypeInv
<1> SUFFICES ASSUME Init PROVE TypeInv
  OBVIOUS
<1>1. inbox \in Seq(Signal)
  BY EmptySeq DEF Init
<1>2. /\ phase \in Phase /\ reason \in Reason /\ snapshot \in Row /\ outcome \in Outcome
      /\ DigNamed
  BY DEF Init, Phase, Reason, Row, Outcome, DigNamed
<1>3. depth \in [Approach -> Nat] /\ taken \in Signal \cup { NoSignal }
  BY DEF Init
<1> QED
  BY <1>1, <1>2, <1>3 DEF Init, TypeInv, TypeOK

LEMMA WithoutSeq ==
    ASSUME inbox \in Seq(Signal), NEW i \in 1 .. Len(inbox)
    PROVE  Without(i) \in Seq(Signal)
<1> DEFINE n == Len(inbox) - 1
<1>1. n \in Nat /\ \A j \in 1 .. n : j \in 1 .. Len(inbox) /\ j + 1 \in 1 .. Len(inbox)
  BY LenProperties
<1>2. \A j \in 1 .. Len(inbox) : inbox[j] \in Signal
  BY ElementOfSeq
<1>3. Without(i) \in [1 .. n -> Signal]
  BY <1>1, <1>2 DEF Without
<1> HIDE DEF n
<1> QED
  BY <1>1, <1>3, SeqDef

\* What a selector does to the inbox.
LEMMA TakesFacts ==
    ASSUME TypeInv, NEW p, NEW cases, NEW kind, Takes(p, cases, kind)
    PROVE  inbox' \in Seq(Signal) /\ taken' \in Signal /\ phase = p
<1>1. PICK i \in Pending({ kind }) : inbox' = Without(i) /\ taken' = inbox[i]
  BY DEF Takes
<1>2. i \in 1 .. Len(inbox) /\ inbox \in Seq(Signal)
  BY DEF Pending, TypeInv, TypeOK
<1> QED
  BY <1>1, <1>2, WithoutSeq, ElementOfSeq DEF Takes

LEMMA TypeStopCancelled ==
    ASSUME TypeInv, StopCancelled, UNCHANGED << factory, sent >>, snapshot' = snapshot,
           faults' = faults
    PROVE  TypeInv'
BY EmptySeq DEF StopCancelled, TypeInv, TypeOK, DigNamed, Phase, Outcome, Reason

LEMMA TypeAutonomous ==
    ASSUME TypeInv, PlanningStart \/ Start \/ ClarifyGoal \/ ResearchApproaches
                    \/ AutonomousFails \/ GoalCheck \/ storeAndPresent \/ LoopHead
    PROVE  TypeInv'
<1> USE DEF Phase, Row, Outcome
<1>1. CASE PlanningStart
  BY <1>1 DEF PlanningStart, TypeInv, TypeOK, DigNamed
<1>2. CASE Start
  BY <1>2 DEF Start, TypeInv, TypeOK, DigNamed
<1>3. CASE ClarifyGoal
  <2>1. CASE Cancelling
    BY <1>3, <2>1, TypeStopCancelled DEF ClarifyGoal
  <2> QED
    BY <1>3, <2>1 DEF ClarifyGoal, TypeInv, TypeOK, DigNamed
<1>4. CASE ResearchApproaches
  <2>1. CASE Cancelling
    BY <1>4, <2>1, TypeStopCancelled DEF ResearchApproaches
  <2> QED
    BY <1>4, <2>1 DEF ResearchApproaches, TypeInv, TypeOK, DigNamed
<1>5. CASE AutonomousFails
  BY <1>5 DEF AutonomousFails, TypeInv, TypeOK, DigNamed
<1>6. CASE GoalCheck
  <2>1. CASE Cancelling
    BY <1>6, <2>1, TypeStopCancelled DEF GoalCheck
  <2> QED
    BY <1>6, <2>1 DEF GoalCheck, TypeInv, TypeOK, DigNamed
<1>7. CASE storeAndPresent
  BY <1>7 DEF storeAndPresent, TypeInv, TypeOK, DigNamed
<1>8. CASE LoopHead
  <2>1. CASE Cancelling
    BY <1>8, <2>1, TypeStopCancelled DEF LoopHead
  <2> QED
    BY <1>8, <2>1 DEF LoopHead, TypeInv, TypeOK, DigNamed
<1> QED
  BY <1>1, <1>2, <1>3, <1>4, <1>5, <1>6, <1>7, <1>8

LEMMA TypeSelection ==
    ASSUME TypeInv, TakeSelect \/ TakeDig \/ DeeperResearch \/ TakeQuestion \/ BackToLoop
                    \/ TakeGo \/ TakeRealign \/ TakeCancel \/ SignalTimeout
    PROVE  TypeInv'
<1> USE DEF Phase, Row, Outcome, Reason
<1>1. CASE TakeSelect
  <2>1. inbox' \in Seq(Signal) /\ taken' \in Signal
    BY <1>1, TakesFacts DEF TakeSelect
  <2>2. selected' \in Selection \cup { NoApproach }
    BY <1>1 DEF TakeSelect, Listed, Selection, TypeInv, TypeOK
  <2> QED
    BY <1>1, <2>1, <2>2 DEF TakeSelect, TypeInv, TypeOK, DigNamed
<1>2. CASE TakeDig
  <2>1. inbox' \in Seq(Signal) /\ taken' \in Signal
    BY <1>2, TakesFacts DEF TakeDig
  <2>2. digging' \in Approach \/ (digging' = digging /\ phase' = "loop")
    BY <1>2 DEF TakeDig, Listed
  <2> QED
    BY <1>2, <2>1, <2>2 DEF TakeDig, TypeInv, TypeOK, DigNamed
<1>3. CASE DeeperResearch
  <2>1. digging \in Approach /\ depth[digging] + 1 \in Nat
    BY <1>3 DEF DeeperResearch, TypeInv, TypeOK, DigNamed
  <2>2. depth' \in [Approach -> Nat]
    BY <1>3, <2>1 DEF DeeperResearch, Deeper, TypeInv, TypeOK
  <2>3. selected' \in Selection \cup { NoApproach }
    BY <1>3, <2>1 DEF DeeperResearch, Selection, TypeInv, TypeOK
  <2> QED
    BY <1>3, <2>2, <2>3 DEF DeeperResearch, TypeInv, TypeOK, DigNamed
<1>4. CASE TakeQuestion
  <2>1. inbox' \in Seq(Signal) /\ taken' \in Signal
    BY <1>4, TakesFacts DEF TakeQuestion
  <2> QED
    BY <1>4, <2>1 DEF TakeQuestion, TypeInv, TypeOK, DigNamed
<1>5. CASE BackToLoop
  BY <1>5 DEF BackToLoop, TypeInv, TypeOK, DigNamed
<1>6. CASE TakeGo
  <2>1. inbox' \in Seq(Signal) /\ taken' \in Signal
    BY <1>6, TakesFacts DEF TakeGo
  <2> QED
    BY <1>6, <2>1 DEF TakeGo, TypeInv, TypeOK, DigNamed
<1>7. CASE TakeRealign
  <2>1. inbox' \in Seq(Signal) /\ taken' \in Signal
    BY <1>7, TakesFacts DEF TakeRealign
  <2> QED
    BY <1>7, <2>1 DEF TakeRealign, TypeInv, TypeOK, DigNamed
<1>8. CASE TakeCancel
  <2>1. inbox' \in Seq(Signal) /\ taken' \in Signal
    BY <1>8, TakesFacts DEF TakeCancel
  <2> QED
    BY <1>8, <2>1 DEF TakeCancel, TypeInv, TypeOK, DigNamed
<1>9. CASE SignalTimeout
  BY <1>9 DEF SignalTimeout, TypeInv, TypeOK, DigNamed
<1> QED
  BY <1>1, <1>2, <1>3, <1>4, <1>5, <1>6, <1>7, <1>8, <1>9

LEMMA TypeApproval ==
    ASSUME TypeInv, DecomposeApproach \/ BuildPlanSpec \/ DecomposeFails \/ AwaitApproval
                    \/ TakeApproval \/ TakeRejection \/ RecordPlanningDecision
    PROVE  TypeInv'
<1> USE DEF Phase, Row, Outcome
<1>1. CASE DecomposeApproach
  BY <1>1 DEF DecomposeApproach, TypeInv, TypeOK, DigNamed
<1>2. CASE BuildPlanSpec
  BY <1>2 DEF BuildPlanSpec, TypeInv, TypeOK, DigNamed
<1>3. CASE DecomposeFails
  BY <1>3 DEF DecomposeFails, NextCycle, TypeInv, TypeOK, DigNamed
<1>4. CASE AwaitApproval
  BY <1>4 DEF AwaitApproval, TypeInv, TypeOK, DigNamed
<1>5. CASE TakeApproval
  <2>1. inbox' \in Seq(Signal) /\ taken' \in Signal
    BY <1>5, TakesFacts DEF TakeApproval
  <2> QED
    BY <1>5, <2>1 DEF TakeApproval, TypeInv, TypeOK, DigNamed
<1>6. CASE TakeRejection
  <2>1. inbox' \in Seq(Signal) /\ taken' \in Signal
    BY <1>6, TakesFacts DEF TakeRejection
  <2> QED
    BY <1>6, <2>1 DEF TakeRejection, NextCycle, TypeInv, TypeOK, DigNamed
<1>7. CASE RecordPlanningDecision
  BY <1>7 DEF RecordPlanningDecision, TypeInv, TypeOK, DigNamed
<1> QED
  BY <1>1, <1>2, <1>3, <1>4, <1>5, <1>6, <1>7

LEMMA TypeHandoff ==
    ASSUME TypeInv, CreateIssue \/ CommitSubtasks \/ CreateFails \/ CreateUnreported
                    \/ RollbackIssue \/ RollbackEnds \/ PlanCompletes \/ HandoffDies
    PROVE  TypeInv'
<1> USE DEF Phase, Row, Outcome
<1>1. CASE CreateIssue
  BY <1>1 DEF CreateIssue, TypeInv, TypeOK, DigNamed
<1>2. CASE CommitSubtasks
  BY <1>2 DEF CommitSubtasks, TypeInv, TypeOK, DigNamed
<1>3. CASE CreateFails
  BY <1>3 DEF CreateFails, TypeInv, TypeOK, DigNamed
<1>4. CASE RollbackIssue
  BY <1>4 DEF RollbackIssue, Prepared, TypeInv, TypeOK, DigNamed
<1>5. CASE RollbackEnds
  BY <1>5 DEF RollbackEnds, TypeInv, TypeOK, DigNamed
<1>6. CASE PlanCompletes
  BY <1>6 DEF PlanCompletes, TypeInv, TypeOK, DigNamed
<1>7. CASE HandoffDies
  BY <1>7 DEF HandoffDies, TypeInv, TypeOK, DigNamed
<1>8. CASE CreateUnreported
  BY <1>8 DEF CreateUnreported, TypeInv, TypeOK, DigNamed
<1> QED
  BY <1>1, <1>2, <1>3, <1>4, <1>5, <1>6, <1>7, <1>8

LEMMA TypeNext == TypeInv /\ [Next]_vars => TypeInv'
<1> SUFFICES ASSUME TypeInv, [Next]_vars PROVE TypeInv'
  OBVIOUS
<1>1. CASE SendSignal
  <2>1. PICK sig \in Signal : inbox' = Append(inbox, sig)
    BY <1>1 DEF SendSignal, signalWorkflow, Commands
  <2>2. inbox' \in Seq(Signal)
    BY <2>1, AppendProperties DEF TypeInv, TypeOK
  <2> QED
    BY <1>1, <2>2 DEF SendSignal, TypeInv, TypeOK, DigNamed
<1>2. CASE SessionTimeout
  BY <1>2 DEF SessionTimeout, TypeInv, TypeOK, DigNamed, Reason
<1>3. CASE UNCHANGED vars
  BY <1>3 DEF vars, TypeInv, TypeOK, DigNamed
<1> QED
  BY <1>1, <1>2, <1>3, TypeAutonomous, TypeSelection, TypeApproval, TypeHandoff
  DEF Next, WorkflowStep

\* Every variable keeps its type, whatever signals come when.
THEOREM TypeCorrect == Spec => []TypeOK
<1>1. TypeInv => TypeOK
  BY DEF TypeInv
<1> QED
  BY <1>1, TypeInit, TypeNext, PTL DEF Spec
---------------------------------------------------------------------------
(* The plan and the selection.                                             *)

Early == { "none", "starting", "goal_clarification", "research", "goal_check",
           "push_approaches" }
Late  == { "handoff", "rollback", "mapping", "ended" }

\* Nothing is selected before the list is settled, and something is from a GO
\* to the end of the hand-off.
NotYetSelected == phase \in Early => selected = NoApproach
StillSelected == phase \in { "decompose", "plan_spec" } => selected # NoApproach

\* Subtasks are committed in the hand-off, and nothing is decided after that.
Committed == /\ tasks # NoApproach => phase \in { "mapping", "ended" }
             /\ phase = "mapping" => tasks # NoApproach

PlanInv == PlanFitsSelection /\ NotYetSelected /\ StillSelected /\ Committed

LEMMA PlanInit == Init => PlanInv
BY DEF Init, PlanInv, PlanFitsSelection, NotYetSelected, StillSelected, Committed, Early

LEMMA PlanAutonomous ==
    ASSUME TypeInv, PlanInv, PlanningStart \/ Start \/ ClarifyGoal \/ ResearchApproaches
                    \/ AutonomousFails \/ GoalCheck \/ storeAndPresent \/ LoopHead
    PROVE  PlanInv'
<1> USE DEF PlanInv, PlanFitsSelection, NotYetSelected, StillSelected, Committed, Early,
            StopCancelled
<1>1. CASE PlanningStart
  BY <1>1 DEF PlanningStart
<1>2. CASE Start
  BY <1>2 DEF Start
<1>3. CASE ClarifyGoal
  BY <1>3 DEF ClarifyGoal
<1>4. CASE ResearchApproaches
  BY <1>4 DEF ResearchApproaches
<1>5. CASE AutonomousFails
  BY <1>5 DEF AutonomousFails
<1>6. CASE GoalCheck
  BY <1>6 DEF GoalCheck
<1>7. CASE storeAndPresent
  BY <1>7 DEF storeAndPresent
<1>8. CASE LoopHead
  BY <1>8 DEF LoopHead
<1> QED
  BY <1>1, <1>2, <1>3, <1>4, <1>5, <1>6, <1>7, <1>8

LEMMA PlanSelection ==
    ASSUME TypeInv, PlanInv, TakeSelect \/ TakeDig \/ DeeperResearch \/ TakeQuestion
                    \/ BackToLoop \/ TakeGo \/ TakeRealign \/ TakeCancel \/ SignalTimeout
    PROVE  PlanInv'
<1> USE DEF PlanInv, PlanFitsSelection, NotYetSelected, StillSelected, Committed, Early,
            Takes
<1>1. CASE TakeSelect
  BY <1>1 DEF TakeSelect
<1>2. CASE TakeDig
  BY <1>2 DEF TakeDig
<1>3. CASE DeeperResearch
  <2>1. digging \in Approach /\ depth \in [Approach -> Nat]
    BY <1>3 DEF DeeperResearch, TypeInv, TypeOK, DigNamed
  <2>2. selected # NoApproach => selected.of \in Approach
    BY DEF TypeInv, TypeOK, Selection
  <2>3. depth'[digging] = depth[digging] + 1
        /\ \A a \in Approach \ { digging } : depth'[a] = depth[a]
    BY <1>3, <2>1 DEF DeeperResearch, Deeper
  <2>4. selected' # NoApproach => selected'.depth = depth'[selected'.of]
    BY <1>3, <2>2, <2>3 DEF DeeperResearch
  <2> QED
    BY <1>3, <2>4 DEF DeeperResearch
<1>4. CASE TakeQuestion
  BY <1>4 DEF TakeQuestion
<1>5. CASE BackToLoop
  BY <1>5 DEF BackToLoop
<1>6. CASE TakeGo
  BY <1>6 DEF TakeGo
<1>7. CASE TakeRealign
  BY <1>7 DEF TakeRealign
<1>8. CASE TakeCancel
  BY <1>8 DEF TakeCancel
<1>9. CASE SignalTimeout
  BY <1>9 DEF SignalTimeout
<1> QED
  BY <1>1, <1>2, <1>3, <1>4, <1>5, <1>6, <1>7, <1>8, <1>9

LEMMA PlanApproval ==
    ASSUME TypeInv, PlanInv, DecomposeApproach \/ BuildPlanSpec \/ DecomposeFails
                    \/ AwaitApproval \/ TakeApproval \/ TakeRejection
                    \/ RecordPlanningDecision
    PROVE  PlanInv'
<1> USE DEF PlanInv, PlanFitsSelection, NotYetSelected, StillSelected, Committed, Early,
            Takes
<1>1. CASE DecomposeApproach
  BY <1>1 DEF DecomposeApproach
<1>2. CASE BuildPlanSpec
  BY <1>2 DEF BuildPlanSpec
<1>3. CASE DecomposeFails
  BY <1>3 DEF DecomposeFails, NextCycle
<1>4. CASE AwaitApproval
  BY <1>4 DEF AwaitApproval
<1>5. CASE TakeApproval
  BY <1>5 DEF TakeApproval
<1>6. CASE TakeRejection
  BY <1>6 DEF TakeRejection, NextCycle
<1>7. CASE RecordPlanningDecision
  BY <1>7 DEF RecordPlanningDecision
<1> QED
  BY <1>1, <1>2, <1>3, <1>4, <1>5, <1>6, <1>7

LEMMA PlanHandoff ==
    ASSUME TypeInv, PlanInv, CreateIssue \/ CommitSubtasks \/ CreateFails \/ CreateUnreported
                    \/ RollbackIssue \/ RollbackEnds \/ PlanCompletes \/ HandoffDies
    PROVE  PlanInv'
<1> USE DEF PlanInv, PlanFitsSelection, NotYetSelected, StillSelected, Committed, Early
<1>1. CASE CreateIssue
  BY <1>1 DEF CreateIssue
<1>2. CASE CommitSubtasks
  BY <1>2 DEF CommitSubtasks
<1>3. CASE CreateFails
  BY <1>3 DEF CreateFails
<1>4. CASE RollbackIssue
  BY <1>4 DEF RollbackIssue
<1>5. CASE RollbackEnds
  BY <1>5 DEF RollbackEnds
<1>6. CASE PlanCompletes
  BY <1>6 DEF PlanCompletes
<1>7. CASE HandoffDies
  BY <1>7 DEF HandoffDies
<1>8. CASE CreateUnreported
  BY <1>8 DEF CreateUnreported
<1> QED
  BY <1>1, <1>2, <1>3, <1>4, <1>5, <1>6, <1>7, <1>8

LEMMA PlanNext == TypeInv /\ PlanInv /\ [Next]_vars => PlanInv'
<1> SUFFICES ASSUME TypeInv, PlanInv, [Next]_vars PROVE PlanInv'
  OBVIOUS
<1>1. CASE SendSignal \/ SessionTimeout \/ UNCHANGED vars
  BY <1>1 DEF SendSignal, SessionTimeout, vars, PlanInv, PlanFitsSelection,
     NotYetSelected, StillSelected, Committed
<1> QED
  BY <1>1, PlanAutonomous, PlanSelection, PlanApproval, PlanHandoff DEF Next, WorkflowStep

\* What is up for approval, handed off or committed was made from the approach
\* that is selected, as it was last researched: with any number of approaches,
\* digs, realignments, rejections and cycles.
THEOREM PlanAlwaysFits == Spec => []PlanFitsSelection
<1>1. PlanInv => PlanFitsSelection
  BY DEF PlanInv
<1> QED
  BY <1>1, TypeInit, TypeNext, PlanInit, PlanNext, PTL DEF Spec

---------------------------------------------------------------------------
(* The tracker and the task store.                                         *)

\* There are issues from the hand-off on, which are opened in order; after one
\* whose creation was reported as a failure there is only the rollback.
NoIssuesYet == phase \notin Late => issues = {}
InOrder == phase = "handoff" => \A j \in issues : 1 .. j - 1 \subseteq issues
AllNamed == unnamed # {} => phase \in { "rollback", "ended" } /\ tasks = NoApproach

IssueInv == TrackerAgrees /\ NoIssuesYet /\ InOrder /\ AllNamed

LEMMA IssueInit == Init => IssueInv
BY DEF Init, IssueInv, TrackerAgrees, NoIssuesYet, InOrder, AllNamed

\* Before the hand-off nothing is created.
LEMMA IssueIdle ==
    ASSUME PlanInv, IssueInv, UNCHANGED factory, phase \notin Late,
           phase' \notin Late \ { "handoff", "ended" }
    PROVE  IssueInv'
BY DEF IssueInv, TrackerAgrees, NoIssuesYet, InOrder, AllNamed, PlanInv, Committed, Late

LEMMA IssueNext == TypeInv /\ PlanInv /\ IssueInv /\ [Next]_vars => IssueInv'
<1> SUFFICES ASSUME TypeInv, PlanInv, IssueInv, [Next]_vars PROVE IssueInv'
  OBVIOUS
<1>1. CASE SendSignal \/ SessionTimeout \/ UNCHANGED vars
  BY <1>1 DEF SendSignal, SessionTimeout, vars, IssueInv, TrackerAgrees, NoIssuesYet,
     InOrder, AllNamed
<1>2. CASE PlanningStart \/ Start \/ ClarifyGoal \/ ResearchApproaches
           \/ AutonomousFails \/ GoalCheck \/ storeAndPresent \/ LoopHead
  <2>1. UNCHANGED factory /\ phase \notin Late /\ phase' \notin Late \ { "ended" }
    BY <1>2 DEF PlanningStart, Start, ClarifyGoal, ResearchApproaches, AutonomousFails,
       GoalCheck, storeAndPresent, LoopHead, StopCancelled, Late
  <2> QED
    BY <2>1, IssueIdle
<1>3. CASE TakeSelect \/ TakeDig \/ DeeperResearch \/ TakeQuestion \/ BackToLoop
           \/ TakeGo \/ TakeRealign \/ TakeCancel \/ SignalTimeout
  <2>1. UNCHANGED factory /\ phase \notin Late /\ phase' \notin Late \ { "ended" }
    BY <1>3 DEF TakeSelect, TakeDig, DeeperResearch, TakeQuestion, BackToLoop, TakeGo,
       TakeRealign, TakeCancel, SignalTimeout, Takes, Late
  <2> QED
    BY <2>1, IssueIdle
<1>4. CASE DecomposeApproach \/ BuildPlanSpec \/ DecomposeFails \/ AwaitApproval
           \/ TakeApproval \/ TakeRejection \/ RecordPlanningDecision
  <2>1. UNCHANGED factory /\ phase \notin Late
        /\ phase' \notin Late \ { "handoff", "ended" }
    BY <1>4 DEF DecomposeApproach, BuildPlanSpec, DecomposeFails, AwaitApproval,
       TakeApproval, TakeRejection, RecordPlanningDecision, NextCycle, Takes, Late
  <2> QED
    BY <2>1, IssueIdle
<1>5. CASE CreateIssue \/ CommitSubtasks \/ CreateFails \/ CreateUnreported
           \/ RollbackIssue \/ RollbackEnds \/ PlanCompletes \/ HandoffDies
  <2> USE DEF IssueInv, TrackerAgrees, NoIssuesYet, InOrder, AllNamed, PlanInv, Committed,
              Late
  <2>1. ASSUME NEW i \in Step \ issues, \A j \in 1 .. i - 1 : j \in issues,
               phase = "handoff", issues' = issues \cup { i }
        PROVE  /\ \A j \in issues' : 1 .. j - 1 \subseteq issues'
               /\ \A j \in issues' : j <= i
    <3>1. \A j \in issues : 1 .. j - 1 \subseteq issues /\ j \in Step /\ j # i
      BY <2>1 DEF TypeInv, TypeOK
    <3>2. \A j \in issues : j <= i
      BY <3>1 DEF Step
    <3> QED
      BY <2>1, <3>1, <3>2 DEF Step
  <2>2. CASE CreateIssue
    BY <2>1, <2>2 DEF CreateIssue
  <2>3. CASE CommitSubtasks
    BY <2>3 DEF CommitSubtasks, PlanFitsSelection
  <2>4. CASE CreateFails
    BY <2>4 DEF CreateFails
  <2>5. CASE CreateUnreported
    <3>1. PICK i \in Step \ issues : /\ \A j \in 1 .. i - 1 : j \in issues
                                    /\ issues' = issues \cup { i }
      BY <2>5 DEF CreateUnreported
    <3>2. unnamed' = { i } /\ phase = "handoff" /\ phase' = "rollback" /\ tasks' = tasks
      BY <2>5, <3>1 DEF CreateUnreported
    <3> QED
      BY <2>1, <3>1, <3>2
  <2>6. CASE RollbackIssue
    BY <2>6 DEF RollbackIssue
  <2>7. CASE RollbackEnds
    BY <2>7 DEF RollbackEnds, Prepared
  <2>8. CASE PlanCompletes
    BY <2>8 DEF PlanCompletes
  <2>9. CASE HandoffDies
    BY <2>9 DEF HandoffDies
  <2> QED
    BY <1>5, <2>2, <2>3, <2>4, <2>5, <2>6, <2>7, <2>8, <2>9
<1> QED
  BY <1>1, <1>2, <1>3, <1>4, <1>5 DEF Next, WorkflowStep

\* Committed subtasks keep all their issues, and without a commit no issue
\* stays open but those whose closing failed or whose process died, and at most
\* the last, if its Create took effect and still reported a failure: for plans
\* of any length, wherever the hand-off fails.
THEOREM TrackerAlwaysAgrees == Spec => []TrackerAgrees
<1>1. IssueInv => TrackerAgrees
  BY DEF IssueInv
<1> QED
  BY <1>1, TypeInit, TypeNext, PlanInit, PlanNext, IssueInit, IssueNext, PTL DEF Spec

---------------------------------------------------------------------------
(* Cancels and GOs.                                                        *)

\* A selector of the interactive phase that found signals waiting found one
\* before any cancel that has come since.
CancelsAfter ==
    phase = "interactive" /\ ~ waiting =>
        \E i \in 1 .. Len(inbox) :
            /\ inbox[i].kind \notin { "approve", "cancel" }
            /\ \A j \in Pending({ "cancel" }) : i < j

\* The first of some positions.
LEMMA FirstIsLeast ==
    ASSUME NEW S, S \subseteq Nat, S # {}
    PROVE  First(S) \in S /\ \A j \in S : First(S) <= j
<1> DEFINE R == OpToRel(<, Nat)
<1>1. PICK i \in S : \A j \in S : ~ (<< j, i >> \in R)
  <2>1. IsWellFoundedOn(R, Nat)
    BY NatLessThanWellFounded DEF R
  <2> HIDE DEF R
  <2> QED
    BY <2>1, WFMin
<1>2. \A j \in S : i <= j
  <2> SUFFICES ASSUME NEW j \in S, ~ (i <= j) PROVE FALSE
    OBVIOUS
  <2>1. i \in Nat /\ j \in Nat /\ j < i
    OBVIOUS
  <2>2. << j, i >> \in R
    BY <2>1 DEF OpToRel
  <2> QED
    BY <2>2, <1>1
<1>3. \E k \in S : \A j \in S : k <= j
  BY <1>2
<1> QED
  BY <1>3 DEF First

LEMMA PendingPositions == ASSUME TypeInv, NEW kinds PROVE Pending(kinds) \subseteq Nat
BY LenProperties DEF Pending, TypeInv, TypeOK

LEMMA CancelsInit == Init => CancelsAfter
BY DEF Init, CancelsAfter

\* The steps that leave the selector as it is, or start none.
LEMMA CancelsKept ==
    ASSUME CancelsAfter, phase' = "interactive" =>
                            phase = "interactive" /\ UNCHANGED << waiting, inbox >>
    PROVE  CancelsAfter'
BY DEF CancelsAfter, Pending

LEMMA CancelsNext == TypeInv /\ CancelsAfter /\ [Next]_vars => CancelsAfter'
<1> SUFFICES ASSUME TypeInv, CancelsAfter, [Next]_vars PROVE CancelsAfter'
  OBVIOUS
<1>1. CASE SendSignal
  <2>1. PICK sig \in Signal : inbox' = Append(inbox, sig)
    BY <1>1 DEF SendSignal, signalWorkflow, Commands
  <2>2. /\ Len(inbox') = Len(inbox) + 1 /\ Len(inbox) \in Nat
        /\ \A i \in 1 .. Len(inbox) : inbox'[i] = inbox[i]
    BY <2>1, AppendProperties, LenProperties DEF TypeInv, TypeOK
  <2>3. UNCHANGED << phase, waiting >>
    BY <1>1 DEF SendSignal
  <2> SUFFICES ASSUME phase = "interactive", ~ waiting PROVE CancelsAfter'
    BY <2>3 DEF CancelsAfter
  <2>4. PICK i \in 1 .. Len(inbox) :
          /\ inbox[i].kind \notin { "approve", "cancel" }
          /\ \A j \in Pending({ "cancel" }) : i < j
    BY DEF CancelsAfter
  <2>5. i \in 1 .. Len(inbox') /\ inbox'[i].kind \notin { "approve", "cancel" }
    BY <2>2, <2>4
  <2>6. ASSUME NEW j \in 1 .. Len(inbox'), inbox'[j].kind = "cancel" PROVE i < j
    <3>1. CASE j \in 1 .. Len(inbox)
      BY <2>2, <2>4, <2>6, <3>1 DEF Pending
    <3>2. CASE j = Len(inbox) + 1
      BY <2>2, <3>2
    <3> QED
      BY <2>2, <3>1, <3>2
  <2> QED
    BY <2>5, <2>6 DEF CancelsAfter, Pending
<1>2. CASE LoopHead
  <2>1. CASE Cancelling
    BY <1>2, <2>1, CancelsKept DEF LoopHead, StopCancelled
  <2>2. CASE ~ Cancelling
    <3>1. Pending({ "cancel" }) = {} /\ UNCHANGED inbox
          /\ (~ waiting' => Pending(Kind \ { "approve" }) # {})
      BY <1>2, <2>2 DEF LoopHead, Cancelling
    <3>2. \A i \in Pending(Kind \ { "approve" }) :
            i \in 1 .. Len(inbox) /\ inbox[i].kind \notin { "approve", "cancel" }
      BY <3>1 DEF Pending
    <3> QED
      BY <3>1, <3>2 DEF CancelsAfter, Pending
  <2> QED
    BY <2>1, <2>2
<1>3. CASE SessionTimeout \/ UNCHANGED vars
  BY <1>3, CancelsKept DEF SessionTimeout, vars
<1>4. CASE PlanningStart \/ Start \/ ClarifyGoal \/ ResearchApproaches
           \/ AutonomousFails \/ GoalCheck \/ storeAndPresent
  BY <1>4, CancelsKept DEF PlanningStart, Start, ClarifyGoal, ResearchApproaches,
     AutonomousFails, GoalCheck, storeAndPresent, StopCancelled
<1>5. CASE TakeSelect \/ TakeDig \/ DeeperResearch \/ TakeQuestion \/ BackToLoop
           \/ TakeGo \/ TakeRealign \/ TakeCancel \/ SignalTimeout
  BY <1>5, CancelsKept DEF TakeSelect, TakeDig, DeeperResearch, TakeQuestion, BackToLoop,
     TakeGo, TakeRealign, TakeCancel, SignalTimeout
<1>6. CASE DecomposeApproach \/ BuildPlanSpec \/ DecomposeFails \/ AwaitApproval
           \/ TakeApproval \/ TakeRejection \/ RecordPlanningDecision
  BY <1>6, CancelsKept DEF DecomposeApproach, BuildPlanSpec, DecomposeFails,
     AwaitApproval, TakeApproval, TakeRejection, RecordPlanningDecision, NextCycle
<1>7. CASE CreateIssue \/ CommitSubtasks \/ CreateFails \/ CreateUnreported
           \/ RollbackIssue \/ RollbackEnds \/ PlanCompletes \/ HandoffDies
  BY <1>7, CancelsKept DEF CreateIssue, CommitSubtasks, CreateFails, CreateUnreported,
     RollbackIssue, RollbackEnds, PlanCompletes, HandoffDies
<1> QED
  BY <1>1, <1>2, <1>3, <1>4, <1>5, <1>6, <1>7 DEF Next, WorkflowStep

\* A GO that the selector takes came before every cancel that waits.
LEMMA GoTakenFirst ==
    ASSUME TypeInv, CancelsAfter, TakeGo, NEW c \in Pending({ "cancel" })
    PROVE  \E j \in Pending({ "go" }) : j < c
<1>1. PICK i \in Pending({ "go" }) : Chosen(i, SelectCases)
  BY DEF TakeGo, Takes
<1>2. i \in Nat /\ c \in Nat /\ inbox[i].kind = "go" /\ inbox[c].kind = "cancel"
      /\ i \in 1 .. Len(inbox) /\ c \in 1 .. Len(inbox)
  BY PendingPositions DEF Pending
<1>3. /\ DOMAIN SelectCases = 1 .. 5
      /\ SelectCases[1] = { "select" } /\ SelectCases[2] = { "dig" }
      /\ SelectCases[3] = { "question" } /\ SelectCases[4] = { "go", "realign" }
      /\ SelectCases[5] = { "cancel" }
  BY DEF SelectCases
<1>4. i < c
  <2>1. CASE waiting
    <3> DEFINE All == UNION { SelectCases[d] : d \in DOMAIN SelectCases }
    <3>1. i = First(Pending(All))
      BY <1>1, <2>1 DEF Chosen
    <3>2. "cancel" \in All
      BY <1>3
    <3> HIDE DEF All
    <3>3. c \in Pending(All)
      BY <1>2, <3>2 DEF Pending
    <3>4. First(Pending(All)) <= c
      BY <3>3, FirstIsLeast, PendingPositions
    <3> QED
      BY <1>2, <3>1, <3>4
  <2>2. CASE ~ waiting
    <3>1. PICK d \in DOMAIN SelectCases :
            /\ Pending(SelectCases[d]) # {} /\ i = First(Pending(SelectCases[d]))
            /\ \A e \in 1 .. d - 1 : Pending(SelectCases[e]) = {}
      BY <1>1, <2>2 DEF Chosen
    <3>2. i \in Pending(SelectCases[d])
          /\ \A j \in Pending(SelectCases[d]) : i <= j
      BY <3>1, FirstIsLeast, PendingPositions
    <3>3. d = 4
      <4>1. "go" \in SelectCases[d]
        BY <1>2, <3>2 DEF Pending
      <4> QED
        BY <1>3, <3>1, <4>1
    <3>4. PICK k \in 1 .. Len(inbox) :
            /\ inbox[k].kind \notin { "approve", "cancel" }
            /\ \A j \in Pending({ "cancel" }) : k < j
      BY <2>2 DEF CancelsAfter, TakeGo, Takes
    <3>5. inbox[k].kind \in Kind
      <4>1. inbox[k] \in Signal
        BY <3>4, ElementOfSeq DEF TypeInv, TypeOK
      <4> QED
        BY <4>1 DEF Signal
    <3>6. \A e \in 1 .. 3 : Pending(SelectCases[e]) = {}
      BY <3>1, <3>3
    <3>7. inbox[k].kind \notin { "select", "dig", "question" }
      <4>1. \A e \in 1 .. 3 : inbox[k].kind \notin SelectCases[e]
        BY <3>4, <3>6 DEF Pending
      <4> QED
        BY <1>3, <4>1
    <3>8. inbox[k].kind \in { "go", "realign" }
      BY <3>4, <3>5, <3>7 DEF Kind
    <3>9. k \in Pending(SelectCases[4]) /\ k \in Nat
      BY <1>3, <3>4, <3>8, LenProperties DEF Pending, TypeInv, TypeOK
    <3>10. i <= k /\ k < c
      BY <3>2, <3>3, <3>4, <3>9
    <3> QED
      BY <1>2, <3>9, <3>10
  <2> QED
    BY <2>1, <2>2
<1> QED
  BY <1>1, <1>4

LEMMA CancelStep ==
    TypeInv /\ CancelsAfter /\ [Next]_vars =>
        [phase = "interactive" /\ phase' = "decompose" =>
            \A i \in Pending({ "cancel" }) : \E j \in Pending({ "go" }) : j < i]_vars
<1> SUFFICES ASSUME TypeInv, CancelsAfter, Next, phase = "interactive",
                    phase' = "decompose"
             PROVE  TakeGo
  BY GoTakenFirst
<1> QED
  BY DEF Next, WorkflowStep, SendSignal, SessionTimeout, PlanningStart, Start,
     ClarifyGoal, ResearchApproaches, AutonomousFails, GoalCheck, storeAndPresent,
     LoopHead, StopCancelled, TakeSelect, TakeDig, DeeperResearch, TakeQuestion,
     BackToLoop, TakeRealign, TakeCancel, SignalTimeout, Takes, DecomposeApproach,
     BuildPlanSpec, DecomposeFails, AwaitApproval, TakeApproval, TakeRejection,
     RecordPlanningDecision, NextCycle, CreateIssue, CommitSubtasks, CreateFails,
     CreateUnreported, RollbackIssue, RollbackEnds, PlanCompletes, HandoffDies

\* A GO never overtakes a cancel that was sent before it: drainCancel at the
\* head of the loop and the order of the selector's cases see to it, however
\* many signals of whatever kinds wait.
THEOREM CancelsWin == Spec => CancelBeforeGoWins
<1>1. QED
  BY TypeInit, TypeNext, CancelsInit, CancelsNext, CancelStep, PTL DEF Spec, CancelBeforeGoWins
=============================================================================
