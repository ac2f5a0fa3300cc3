-------------------------- MODULE BeadsScanProofs --------------------------
(***************************************************************************)
(* Proofs about BeadsScan, for every finite set of issues, every choice of *)
(* labelled and imported ones, every set of classes the reconciler may fix *)
(* and every bound.                                                        *)
(***************************************************************************)
EXTENDS BeadsScan, TLAPS

USE DEF tracker, store, rows, scanning, submits, history

---------------------------------------------------------------------------
(* Type correctness.                                                       *)

\* Between the take of an issue and its end the scan has one.
AtTaken == phase \notin { "idle", "unblock", "next", "dispatch" } => at \in Issue

\* A submission that is under way has made its issue.
SubmitNamed == submit # "idle" => submitted \in Issue

TypeInv == TypeOK /\ AtTaken /\ SubmitNamed

LEMMA StatusMapped == \A s : mapIssueStatus(s) \in { "open", "running", "completed" }
BY DEF mapIssueStatus

LEMMA ReadyMapped ==
    \A s : /\ mapReadyIssueStatus(s) \in { "ready", "running", "completed" }
           /\ mapReadyIssueStatus(s) = "completed" => s = "closed"
BY DEF mapReadyIssueStatus, mapIssueStatus

LEMMA SeenRecord ==
    ASSUME TypeOK, NEW i \in Issue PROVE Seen(i) \in Record /\ Short(i) \in Record
BY DEF Seen, InList, Short, TypeOK, Record

LEMMA TypeInit == Init => TypeInv
<1> SUFFICES ASSUME Init PROVE TypeInv
  OBVIOUS
<1>1. issue \in [Issue -> Record]
  <2>1. issue \in [Issue -> [status : IssueStatus \ { "approved", "in_progress" },
                             rev : { 0 }, deps : SUBSET Issue]]
    BY DEF Init
  <2>2. [status : IssueStatus \ { "approved", "in_progress" }, rev : { 0 },
         deps : SUBSET Issue] \subseteq Record
    BY DEF Record
  <2> QED
    BY <2>1, <2>2
<1>2. NoRecord \in Record
  BY DEF NoRecord, Record, IssueStatus
<1>3. task \in [Issue -> TaskStatus] /\ edge \in [Issue \X Issue -> Source]
  BY DEF Init, TaskStatus, Source
<1>4. /\ phase \in ScanPhase /\ submit \in SubmitPhase
      /\ AtTaken /\ SubmitNamed
  BY DEF Init, ScanPhase, SubmitPhase, AtTaken, SubmitNamed
<1> QED
  BY <1>1, <1>2, <1>3, <1>4 DEF Init, TypeInv, TypeOK

LEMMA TypeScanFirst ==
    ASSUME TypeInv, ScanList \/ ScanUnblock \/ ScanReady \/ ScanTake \/ ScanFails
                    \/ ScanDone \/ DispatchEnds \/ ScanNext
    PROVE  TypeInv'
<1> USE DEF Scan, Goes, ScanIdle, Act, AtTaken, SubmitNamed, ScanPhase
<1>1. NoRecord \in Record
  BY DEF NoRecord, Record, IssueStatus
<1>2. CASE ScanList
  BY <1>2 DEF ScanList, TypeInv, TypeOK
<1>3. CASE ScanUnblock
  <2>1. PICK i \in Issue :
          /\ listed # NoIssue
          /\ issue' = [issue EXCEPT ![i].status = "open"]
          /\ listed' = [listed EXCEPT ![i].status = "open"]
    BY <1>3 DEF ScanUnblock, Unblockable
  <2>2. \A r \in Record : [r EXCEPT !.status = "open"] \in Record
    BY DEF Record, IssueStatus
  <2>3. issue' \in [Issue -> Record] /\ listed' \in [Issue -> Record]
    BY <2>1, <2>2 DEF TypeInv, TypeOK
  <2> QED
    BY <1>3, <2>3 DEF ScanUnblock, TypeInv, TypeOK
<1>4. CASE ScanReady
  BY <1>4 DEF ScanReady, Ready, TypeInv, TypeOK
<1>5. CASE ScanTake
  <2>1. PICK i \in todo :
          /\ at' = i /\ record' \in { Seen(i), Short(i) }
          /\ acts' \in { acts, acts + 1 }
          /\ todo' \in { todo, todo \ { i } }
          /\ phase' \in { "next", "admit", "promote", "update" }
    BY <1>5 DEF ScanTake, Take
  <2>2. i \in Issue /\ Seen(i) \in Record /\ Short(i) \in Record
    BY <2>1, SeenRecord DEF TypeInv, TypeOK
  <2>3. UNCHANGED << tracker, store, listed, wanted, earned, adopted,
                     working, submits, fixes, granted, demoted >>
    BY <1>5 DEF ScanTake, Take
  <2> QED
    BY <2>1, <2>2, <2>3 DEF TypeInv, TypeOK
<1>6. CASE ScanFails
  BY <1>1, <1>6 DEF ScanFails, TypeInv, TypeOK
<1>7. CASE ScanDone
  BY <1>1, <1>7 DEF ScanDone, TypeInv, TypeOK
<1>8. CASE DispatchEnds
  BY <1>1, <1>8 DEF DispatchEnds, TypeInv, TypeOK
<1>9. CASE ScanNext
  BY <1>1, <1>9 DEF ScanNext, TypeInv, TypeOK
<1> QED
  BY <1>2, <1>3, <1>4, <1>5, <1>6, <1>7, <1>8, <1>9

LEMMA TypeScanIssue ==
    ASSUME TypeInv, ScanUpdate \/ ScanPromote \/ ScanMakeReady \/ ScanAdmit \/ ScanCreate
                    \/ ScanMap \/ ScanTerminal \/ ScanSettle \/ ScanPrune \/ ScanEdge
    PROVE  TypeInv'
<1> USE DEF Scan, Goes, ScanIdle, Act, AtTaken, SubmitNamed, ScanPhase
<1>1. NoRecord \in Record
  BY DEF NoRecord, Record, IssueStatus
<1>2. at \in Issue
  BY DEF TypeInv, ScanUpdate, ScanPromote, ScanMakeReady, ScanAdmit, ScanCreate, ScanMap,
     ScanTerminal, ScanSettle, ScanPrune, ScanEdge
<1>3. record \in Record /\ record.deps \subseteq Issue /\ record.rev \in Nat
  BY DEF TypeInv, TypeOK, Record
<1>4. CASE ScanUpdate
  BY <1>2, <1>3, <1>4 DEF ScanUpdate, TypeInv, TypeOK
<1>5. CASE ScanPromote
  BY <1>2, <1>5 DEF ScanPromote, TypeInv, TypeOK
<1>6. CASE ScanMakeReady
  BY <1>2, <1>6 DEF ScanMakeReady, TypeInv, TypeOK, TaskStatus
<1>a. CASE ScanAdmit
  BY <1>2, <1>a DEF ScanAdmit, TypeInv, TypeOK
<1>b. CASE ScanCreate
  <2>1. mapReadyIssueStatus(record.status) \in TaskStatus
    BY ReadyMapped DEF TaskStatus
  <2>2. CASE task[at] = "none"
    BY <1>2, <1>3, <1>b, <2>1, <2>2 DEF ScanCreate, TypeInv, TypeOK
  <2>3. CASE task[at] # "none"
    BY <1>1, <1>b, <2>3 DEF ScanCreate, TypeInv, TypeOK
  <2> QED
    BY <2>2, <2>3
<1>7. CASE ScanMap
  BY <1>1, <1>2, <1>3, <1>7 DEF ScanMap, TypeInv, TypeOK
<1>8. CASE ScanTerminal
  <2>1. wanted' \subseteq Issue
    BY <1>3, <1>8 DEF ScanTerminal, Unsettled
  <2> QED
    BY <1>2, <1>8, <2>1 DEF ScanTerminal, TypeInv, TypeOK
<1>c. CASE ScanSettle
  BY <1>2, <1>c DEF ScanSettle, TypeInv, TypeOK, TaskStatus
<1>9. CASE ScanPrune
  <2>1. edge' \in [Issue \X Issue -> Source]
    BY <1>9 DEF ScanPrune, RemoveEdges, TypeInv, TypeOK, Source
  <2> QED
    BY <1>2, <1>3, <1>9, <2>1 DEF ScanPrune, Settled, TypeInv, TypeOK
<1>10. CASE ScanEdge
  <2>1. edge' \in [Issue \X Issue -> Source]
    BY <1>10 DEF ScanEdge, RemoveEdges, TypeInv, TypeOK, Source
  <2> QED
    BY <1>2, <1>10, <2>1 DEF ScanEdge, TypeInv, TypeOK
<1> QED
  BY <1>4, <1>5, <1>6, <1>a, <1>b, <1>7, <1>8, <1>c, <1>9, <1>10

LEMMA TypeReconcile ==
    ASSUME TypeInv, ReconcileRead \/ ReconcileFix PROVE TypeInv'
<1> USE DEF AtTaken, SubmitNamed
<1>1. CASE ReconcileRead
  <2>1. StatusFixes \subseteq Fix
    BY StatusMapped DEF StatusFixes, Fix, Class, TaskStatus
  <2>2. DependencyFixes \subseteq Fix
    BY DEF DependencyFixes, Fix, Class, TaskStatus
  <2> QED
    BY <1>1, <2>1, <2>2 DEF ReconcileRead, Act, TypeInv, TypeOK
<1>2. CASE ReconcileFix
  <2>1. PICK f \in fixes :
        /\ fixes' = fixes \ { f }
        /\ \/ /\ task' = [task EXCEPT ![f.of] = f.to]
              /\ demoted' \in { demoted, demoted \cup { f.of } }
              /\ granted' = granted \ { f.of }
              /\ UNCHANGED edge
           \/ /\ edge' \in { edge, [edge EXCEPT ![<< f.of, f.on >>] = "beads_bridge"] }
              /\ UNCHANGED << task, demoted, granted >>
    BY <1>2 DEF ReconcileFix
  <2>2. f.of \in Issue /\ f.to \in TaskStatus
    BY <2>1 DEF TypeInv, TypeOK, Fix
  <2>3. UNCHANGED << tracker, content, rows, working, scanning, submits, earned,
                     adopted, acts >>
    BY <1>2 DEF ReconcileFix
  <2> QED
    BY <2>1, <2>2, <2>3 DEF TypeInv, TypeOK, Source
<1> QED
  BY <1>1, <1>2

LEMMA TypeSubmit == ASSUME TypeInv, SubmitStep PROVE TypeInv'
<1> USE DEF Submitting, SubmitEnds, Act, AtTaken, SubmitNamed, SubmitPhase
<1>1. NoRecord \in Record
  BY DEF NoRecord, Record, IssueStatus
<1>2. \A r \in Record, s \in IssueStatus : [r EXCEPT !.status = s] \in Record
  BY DEF Record
<1>3. CASE SubmitCreate
  <2>1. PICK i \in Labelled :
          issue' = [issue EXCEPT ![i].status = "open"] /\ submitted' = i
    BY <1>3 DEF SubmitCreate
  <2>2. i \in Issue /\ issue' \in [Issue -> Record]
    BY <1>2, <2>1, BridgeAssumption DEF TypeInv, TypeOK, IssueStatus
  <2> QED
    BY <1>3, <2>1, <2>2 DEF SubmitCreate, TypeInv, TypeOK
<1>4. CASE SubmitMark
  <2>1. issue' \in [Issue -> Record]
    BY <1>2, <1>4 DEF SubmitMark, TypeInv, TypeOK, IssueStatus
  <2> QED
    BY <1>4, <2>1 DEF SubmitMark, TypeInv, TypeOK
<1>5. CASE SubmitShow
  BY <1>5 DEF SubmitShow, TypeInv, TypeOK
<1>6. CASE SubmitLook
  BY <1>6 DEF SubmitLook, TypeInv, TypeOK
<1>7. CASE SubmitUpdateTask
  BY <1>7 DEF SubmitUpdateTask, TypeInv, TypeOK, TaskStatus
<1>8. CASE SubmitCreateTask
  BY <1>1, <1>8 DEF SubmitCreateTask, TypeInv, TypeOK, TaskStatus
<1>9. CASE SubmitMap
  BY <1>1, <1>9 DEF SubmitMap, TypeInv, TypeOK
<1>10. CASE SubmitFails
  BY <1>1, <1>10 DEF SubmitFails, TypeInv, TypeOK
<1> QED
  BY <1>3, <1>4, <1>5, <1>6, <1>7, <1>8, <1>9, <1>10 DEF SubmitStep

LEMMA TypeTracker ==
    ASSUME TypeInv, CreateIssue \/ EditIssue \/ SetIssueStatus \/ Fence
    PROVE  TypeInv'
<1> USE DEF Edited, Act, AtTaken, SubmitNamed
<1>1. CASE CreateIssue
  <2>1. issue' \in [Issue -> Record]
    BY <1>1 DEF CreateIssue, TypeInv, TypeOK, Record, IssueStatus
  <2> QED
    BY <1>1, <2>1 DEF CreateIssue, TypeInv, TypeOK
<1>2. CASE EditIssue
  <2>1. PICK i \in Issue :
           \/ issue' = [issue EXCEPT ![i].rev = @ + 1]
           \/ \E d \in Issue : issue' = [issue EXCEPT ![i].deps = @ \cup { d }]
           \/ \E d \in issue[i].deps : issue' = [issue EXCEPT ![i].deps = @ \ { d }]
    BY <1>2 DEF EditIssue
  <2>2. issue[i] \in Record /\ issue[i].rev \in Nat /\ issue[i].deps \subseteq Issue
    BY DEF TypeInv, TypeOK, Record
  <2>3. issue' \in [Issue -> Record]
    <3>1. CASE issue' = [issue EXCEPT ![i].rev = @ + 1]
      <4>1. [issue[i] EXCEPT !.rev = @ + 1] \in Record
        BY <2>2 DEF Record
      <4> QED
        BY <3>1, <4>1 DEF TypeInv, TypeOK
    <3>2. ASSUME NEW d \in Issue, issue' = [issue EXCEPT ![i].deps = @ \cup { d }]
          PROVE  issue' \in [Issue -> Record]
      <4>1. [issue[i] EXCEPT !.deps = @ \cup { d }] \in Record
        BY <2>2 DEF Record
      <4> QED
        BY <3>2, <4>1 DEF TypeInv, TypeOK
    <3>3. ASSUME NEW d \in issue[i].deps, issue' = [issue EXCEPT ![i].deps = @ \ { d }]
          PROVE  issue' \in [Issue -> Record]
      <4>1. [issue[i] EXCEPT !.deps = @ \ { d }] \in Record
        BY <2>2 DEF Record
      <4> QED
        BY <3>3, <4>1 DEF TypeInv, TypeOK
    <3> QED
      BY <2>1, <3>1, <3>2, <3>3
  <2> QED
    BY <1>2, <2>3 DEF EditIssue, TypeInv, TypeOK
<1>3. CASE SetIssueStatus
  <2>1. PICK i \in Issue, s \in { "open", "in_progress", "blocked", "closed" } :
          /\ issue' = [issue EXCEPT ![i].status = s]
          /\ earned' = IF s = "closed" THEN earned \cup { i } ELSE earned
    BY <1>3 DEF SetIssueStatus
  <2>2. [issue[i] EXCEPT !.status = s] \in Record
    BY DEF TypeInv, TypeOK, Record, IssueStatus
  <2>3. issue' \in [Issue -> Record] /\ earned' \subseteq Issue
    BY <2>1, <2>2 DEF TypeInv, TypeOK
  <2> QED
    BY <1>3, <2>3 DEF SetIssueStatus, TypeInv, TypeOK
<1>4. CASE Fence
  <2>1. edge' \in [Issue \X Issue -> Source]
    BY <1>4 DEF Fence, TypeInv, TypeOK, Source
  <2> QED
    BY <1>4, <2>1 DEF Fence, TypeInv, TypeOK
<1> QED
  BY <1>1, <1>2, <1>3, <1>4

LEMMA TypeTasks ==
    ASSUME TypeInv, Approve \/ Bootstrap \/ Start \/ Finish \/ RecoverZombie
    PROVE  TypeInv'
<1> USE DEF Act, AtTaken, SubmitNamed, TaskStatus
<1>1. CASE Approve
  BY <1>1 DEF Approve, TypeInv, TypeOK
<1>2. CASE Bootstrap
  BY <1>2 DEF Bootstrap, TypeInv, TypeOK
<1>3. CASE Start
  BY <1>3 DEF Start, TypeInv, TypeOK
<1>4. CASE Finish
  BY <1>4 DEF Finish, TypeInv, TypeOK
<1>5. CASE RecoverZombie
  BY <1>5 DEF RecoverZombie, TypeInv, TypeOK
<1> QED
  BY <1>1, <1>2, <1>3, <1>4, <1>5

LEMMA TypeNext == TypeInv /\ [Next]_vars => TypeInv'
<1> SUFFICES ASSUME TypeInv, [Next]_vars PROVE TypeInv'
  OBVIOUS
<1>1. CASE UNCHANGED vars
  BY <1>1 DEF vars, TypeInv, TypeOK, AtTaken, SubmitNamed
<1> QED
  BY <1>1, TypeScanFirst, TypeScanIssue, TypeReconcile, TypeSubmit, TypeTracker, TypeTasks
  DEF Next, ScanStep

\* Every variable keeps its type: statuses of the tracker never get into the
\* task store unmapped, and a scan or a submission that goes on has its issue.
THEOREM TypeCorrect == Spec => []TypeOK
<1>1. TypeInv => TypeOK
  BY DEF TypeInv
<1> QED
  BY <1>1, TypeInit, TypeNext, PTL DEF Spec
---------------------------------------------------------------------------
(* Approvals.                                                              *)

\* The reconciler has no fix that approves.
FixApprovesNot == \A f \in fixes : f.to # "approved"

GrantInv == ApprovalFromPeople /\ FixApprovesNot

LEMMA GrantInit == Init => GrantInv
BY DEF Init, GrantInv, ApprovalFromPeople, FixApprovesNot

\* A step that approves only what is granted and takes no grant of what stays
\* approved.
LEMMA GrantStep ==
    ASSUME GrantInv,
           \A i \in Issue : task'[i] = "approved" =>
                i \in granted' \/ (task[i] = "approved" /\ (i \in granted => i \in granted')),
           fixes' \subseteq fixes
    PROVE  GrantInv'
BY DEF GrantInv, ApprovalFromPeople, FixApprovesNot

LEMMA GrantNext == TypeInv /\ GrantInv /\ [Next]_vars => GrantInv'
<1> SUFFICES ASSUME TypeInv, GrantInv, [Next]_vars PROVE GrantInv'
  OBVIOUS
<1> USE DEF Scan, Goes, Submitting, SubmitEnds, Edited
<1>1. ASSUME UNCHANGED << task, granted, fixes >> PROVE GrantInv'
  BY <1>1, GrantStep
<1>2. CASE ScanStep \/ ScanFails
  <2>2. CASE ScanMakeReady
    BY <2>2, GrantStep DEF ScanMakeReady, TypeInv, TypeOK
  <2>3. CASE ScanCreate
    BY <2>3, GrantStep, ReadyMapped DEF ScanCreate, TypeInv, TypeOK
  <2>4. CASE ScanSettle
    BY <2>4, GrantStep DEF ScanSettle, TypeInv, TypeOK
  <2>5. CASE ~ (ScanMakeReady \/ ScanCreate \/ ScanSettle)
    BY <1>1, <1>2, <2>5 DEF ScanStep, ScanFails, ScanList, ScanUnblock, ScanReady, ScanTake, Take,
       ScanUpdate, ScanPromote, ScanAdmit, ScanMap, ScanTerminal, ScanPrune, ScanEdge,
       ScanNext, ScanDone, DispatchEnds
  <2> QED
    BY <2>2, <2>3, <2>4, <2>5
<1>3. CASE ReconcileRead
  BY <1>3, StatusMapped DEF ReconcileRead, StatusFixes, DependencyFixes, GrantInv,
     ApprovalFromPeople, FixApprovesNot
<1>4. CASE ReconcileFix
  <2>1. PICK f \in fixes :
        /\ fixes' = fixes \ { f }
        /\ \/ task' = [task EXCEPT ![f.of] = f.to] /\ granted' = granted \ { f.of }
           \/ UNCHANGED << task, granted >>
    BY <1>4 DEF ReconcileFix
  <2>2. f.of \in Issue /\ f.to # "approved"
    BY DEF TypeInv, TypeOK, Fix, GrantInv, FixApprovesNot
  <2> QED
    BY <2>1, <2>2, GrantStep DEF TypeInv, TypeOK
<1>5. CASE SubmitStep
  <2>1. CASE SubmitUpdateTask
    BY <2>1, GrantStep DEF SubmitUpdateTask, TypeInv, TypeOK
  <2>2. CASE SubmitCreateTask
    BY <2>2, GrantStep DEF SubmitCreateTask, TypeInv, TypeOK
  <2> QED
    BY <1>1, <1>5, <2>1, <2>2 DEF SubmitStep, SubmitCreate, SubmitMark, SubmitShow,
       SubmitLook, SubmitMap, SubmitFails
<1>6. CASE CreateIssue \/ EditIssue \/ SetIssueStatus \/ Fence
  BY <1>1, <1>6 DEF CreateIssue, EditIssue, SetIssueStatus, Fence
<1>7. CASE Approve
  BY <1>7, GrantStep DEF Approve, TypeInv, TypeOK
<1>8. CASE Bootstrap
  BY <1>1, <1>8 DEF Bootstrap
<1>9. CASE Start
  BY <1>9, GrantStep DEF Start, TypeInv, TypeOK
<1>10. CASE Finish
  BY <1>10, GrantStep DEF Finish, TypeInv, TypeOK
<1>11. CASE RecoverZombie
  BY <1>11, GrantStep DEF RecoverZombie, TypeInv, TypeOK
<1>12. CASE UNCHANGED vars
  BY <1>1, <1>12 DEF vars
<1> QED
  BY <1>2, <1>3, <1>4, <1>5, <1>6, <1>7, <1>8, <1>9, <1>10, <1>11, <1>12 DEF Next

\* The bridge hands out no approvals: a task is approved only while a person's
\* or a submission's approval of it is unspent, however scans, submissions and
\* fixes found on old reads interleave and wherever they are cut.
THEOREM ApprovalsComeFromPeople == Spec => []ApprovalFromPeople
<1>1. GrantInv => ApprovalFromPeople
  BY DEF GrantInv
<1> QED
  BY <1>1, TypeInit, TypeNext, GrantInit, GrantNext, PTL DEF Spec

---------------------------------------------------------------------------
(* Completions.                                                            *)

\* Closed issues are earned: as they are, as they were listed, and as the scan
\* holds them.
ClosedEarned == \A i \in Issue : issue[i].status = "closed" => i \in earned
ListEarned ==
    listed # NoIssue => \A i \in Issue : listed[i].status = "closed" => i \in earned
RecordEarned == at \in Issue /\ record.status = "closed" => at \in earned

\* A fix that completes was found on a closed issue.
FixEarned == \A f \in fixes : f.to = "completed" => f.of \in earned

\* So is the dependency that the scan is about to complete.
SettleEarned == phase = "settle" => wanted \subseteq earned

EarnedInv == /\ CompletionEarned /\ ClosedEarned /\ ListEarned /\ RecordEarned
             /\ FixEarned /\ SettleEarned

LEMMA EarnedInit == Init => EarnedInv
BY IssueAssumption DEF Init, EarnedInv, CompletionEarned, ClosedEarned, ListEarned, RecordEarned,
   FixEarned, SettleEarned

\* What the scan sees closed is earned.
LEMMA SeenEarned ==
    ASSUME EarnedInv, NEW i \in Issue, NEW r \in { Seen(i), issue[i] },
           r.status = "closed"
    PROVE  i \in earned
BY DEF EarnedInv, ClosedEarned, ListEarned, Seen, InList

\* What is mapped to completed is closed.
LEMMA OnlyClosedCompletes == \A s : mapIssueStatus(s) = "completed" => s = "closed"
BY DEF mapIssueStatus

\* A step that completes only what is earned, and leaves the rest.
LEMMA EarnedStep ==
    ASSUME EarnedInv, earned \subseteq earned',
           \A i \in Issue : task'[i] = "completed" => task[i] = "completed" \/ i \in earned',
           ClosedEarned', ListEarned', RecordEarned', SettleEarned', fixes' \subseteq fixes
    PROVE  EarnedInv'
BY DEF EarnedInv, CompletionEarned, FixEarned

\* A scan that stands still completes nothing.
LEMMA SettleStill ==
    ASSUME EarnedInv, UNCHANGED << phase, wanted >>, earned \subseteq earned'
    PROVE  SettleEarned'
BY DEF EarnedInv, SettleEarned

LEMMA EarnedScan == ASSUME TypeInv, EarnedInv, ScanStep \/ ScanFails PROVE EarnedInv'
<1> USE DEF Scan, Goes, ScanIdle
<1>1. UNCHANGED << fixes, earned >>
  BY DEF ScanStep, ScanFails, ScanList, ScanUnblock, ScanReady, ScanTake, Take, ScanUpdate,
     ScanPromote, ScanMakeReady, ScanAdmit, ScanCreate, ScanMap, ScanTerminal, ScanSettle,
     ScanPrune, ScanEdge, ScanNext, ScanDone, DispatchEnds
<1>2. CASE ScanUnblock
  <2>1. PICK i \in Issue :
          /\ listed # NoIssue
          /\ issue' = [issue EXCEPT ![i].status = "open"]
          /\ listed' = [listed EXCEPT ![i].status = "open"]
    BY <1>2 DEF ScanUnblock, Unblockable
  <2>2. \A j \in Issue : /\ issue'[j].status = "closed" => issue[j].status = "closed"
                         /\ listed'[j].status = "closed" => listed[j].status = "closed"
    BY <2>1 DEF TypeInv, TypeOK, Record
  <2>3. UNCHANGED << task, at, record >> /\ phase' # "settle"
    BY <1>2 DEF ScanUnblock
  <2> QED
    BY <1>1, <2>1, <2>2, <2>3, EarnedStep
    DEF EarnedInv, ClosedEarned, ListEarned, RecordEarned, SettleEarned
<1>3. CASE ~ ScanUnblock
  <2> USE <1>3 DEF ScanStep, ScanFails, ScanList, ScanReady, ScanTake, Take, ScanUpdate, ScanPromote,
          ScanMakeReady, ScanAdmit, ScanCreate, ScanMap, ScanTerminal, ScanSettle, ScanPrune,
          ScanEdge, ScanNext, ScanDone, DispatchEnds
  <2>1. UNCHANGED issue
    OBVIOUS
  <2>2. listed' \in { listed, issue, NoIssue }
    OBVIOUS
  <2>3. ClosedEarned' /\ ListEarned'
    BY <1>1, <2>1, <2>2 DEF EarnedInv, ClosedEarned, ListEarned
  <2>4. RecordEarned'
    <3>1. \/ at' = NoIssue
          \/ at' = at /\ record' = record
          \/ at' \in Issue /\ record' \in { Seen(at'), Short(at') }
      BY DEF TypeInv, TypeOK
    <3>2. \A i \in Issue : Short(i).status = issue[i].status
      BY DEF Short, TypeInv, TypeOK, Record
    <3> QED
      BY <1>1, <3>1, <3>2, SeenEarned, IssueAssumption DEF EarnedInv, RecordEarned
  <2>5. SettleEarned'
    <3>1. CASE ScanTerminal
      <4>1. PICK d \in Unsettled : wanted' = { d }
        BY <3>1
      <4>2. d \in Issue /\ d \in earned
        BY SeenEarned, OnlyClosedCompletes DEF Unsettled, TypeInv, TypeOK, Record
      <4> QED
        BY <1>1, <4>1, <4>2 DEF SettleEarned
    <3>2. CASE ~ ScanTerminal
      <4>1. phase' # "settle"
        BY <3>2
      <4> QED
        BY <4>1 DEF SettleEarned
    <3> QED
      BY <3>1, <3>2
  <2>6. \A i \in Issue : task'[i] = "completed" => task[i] = "completed" \/ i \in earned
    <3>1. CASE ScanMakeReady
      BY <3>1 DEF TypeInv, TypeOK
    <3>2. CASE ScanCreate
      <4>1. at \in Issue
        BY <3>2 DEF TypeInv, AtTaken
      <4> QED
        BY <3>2, <4>1, ReadyMapped DEF EarnedInv, RecordEarned, TypeInv, TypeOK
    <3>3. CASE ScanSettle
      BY <3>3 DEF EarnedInv, SettleEarned
    <3>4. CASE ~ (ScanMakeReady \/ ScanCreate \/ ScanSettle)
      BY <3>4
    <3> QED
      BY <3>1, <3>2, <3>3, <3>4
  <2> QED
    BY <1>1, <2>3, <2>4, <2>5, <2>6, EarnedStep
<1> QED
  BY <1>2, <1>3

LEMMA EarnedSubmit == ASSUME TypeInv, EarnedInv, SubmitStep PROVE EarnedInv'
<1> USE DEF Submitting, SubmitEnds
<1>1. UNCHANGED << fixes, earned, listed, at, record, phase, wanted >>
  BY DEF SubmitStep, SubmitCreate, SubmitMark, SubmitShow, SubmitLook, SubmitUpdateTask,
     SubmitCreateTask, SubmitMap, SubmitFails
<1>2. \A i \in Issue : issue'[i].status = "closed" => issue[i].status = "closed"
  <2>1. CASE SubmitCreate
    BY <2>1 DEF SubmitCreate, TypeInv, TypeOK, Record
  <2>2. CASE SubmitMark
    BY <2>2 DEF SubmitMark, TypeInv, TypeOK, Record
  <2> QED
    BY <2>1, <2>2 DEF SubmitStep, SubmitShow, SubmitLook, SubmitUpdateTask,
       SubmitCreateTask, SubmitMap, SubmitFails
<1>3. \A i \in Issue : task'[i] = "completed" => task[i] = "completed"
  <2>1. CASE SubmitUpdateTask
    BY <2>1 DEF SubmitUpdateTask, TypeInv, TypeOK
  <2>2. CASE SubmitCreateTask
    BY <2>2 DEF SubmitCreateTask, TypeInv, TypeOK
  <2> QED
    BY <2>1, <2>2 DEF SubmitStep, SubmitCreate, SubmitMark, SubmitShow, SubmitLook,
       SubmitMap, SubmitFails
<1> QED
  BY <1>1, <1>2, <1>3, EarnedStep, SettleStill DEF EarnedInv, ClosedEarned, ListEarned, RecordEarned

LEMMA EarnedTracker ==
    ASSUME TypeInv, EarnedInv, CreateIssue \/ EditIssue \/ SetIssueStatus \/ Fence
    PROVE  EarnedInv'
<1> USE DEF Edited
<1>1. UNCHANGED << fixes, listed, at, record, task, phase, wanted >> /\ earned \subseteq earned'
  BY DEF CreateIssue, EditIssue, SetIssueStatus, Fence
<1>2. \A i \in Issue : issue'[i].status = "closed" =>
        issue[i].status = "closed" \/ i \in earned'
  <2>1. CASE CreateIssue
    BY <2>1 DEF CreateIssue, TypeInv, TypeOK, Record
  <2>2. CASE EditIssue
    <3>1. PICK i \in Issue :
           \/ issue' = [issue EXCEPT ![i].rev = @ + 1]
           \/ \E d \in Issue : issue' = [issue EXCEPT ![i].deps = @ \cup { d }]
           \/ \E d \in issue[i].deps : issue' = [issue EXCEPT ![i].deps = @ \ { d }]
      BY <2>2 DEF EditIssue
    <3>2. issue[i] \in Record
      BY DEF TypeInv, TypeOK
    <3>3. issue'[i].status = issue[i].status
      <4>1. \A n : [issue[i] EXCEPT !.rev = n].status = issue[i].status
        BY <3>2 DEF Record
      <4>2. \A D : [issue[i] EXCEPT !.deps = D].status = issue[i].status
        BY <3>2 DEF Record
      <4>3. CASE issue' = [issue EXCEPT ![i].rev = @ + 1]
        BY <4>1, <4>3 DEF TypeInv, TypeOK
      <4>4. CASE \E d \in Issue : issue' = [issue EXCEPT ![i].deps = @ \cup { d }]
        BY <4>2, <4>4 DEF TypeInv, TypeOK
      <4>5. CASE \E d \in issue[i].deps : issue' = [issue EXCEPT ![i].deps = @ \ { d }]
        BY <4>2, <4>5 DEF TypeInv, TypeOK
      <4> QED
        BY <3>1, <4>3, <4>4, <4>5
    <3>4. \A j \in Issue \ { i } : issue'[j] = issue[j]
      <4>1. \A f : issue' = [issue EXCEPT ![i] = f] => \A j \in Issue \ { i } : issue'[j] = issue[j]
        BY DEF TypeInv, TypeOK
      <4> QED
        BY <3>1, <4>1
    <3>5. \A j \in Issue : issue'[j].status = issue[j].status
      BY <3>3, <3>4
    <3> QED
      BY <3>5
  <2>3. CASE SetIssueStatus
    <3>1. PICK i \in Issue, s \in { "open", "in_progress", "blocked", "closed" } :
            /\ issue' = [issue EXCEPT ![i].status = s]
            /\ earned' = IF s = "closed" THEN earned \cup { i } ELSE earned
      BY <2>3 DEF SetIssueStatus
    <3> QED
      BY <3>1 DEF TypeInv, TypeOK, Record
  <2>4. CASE Fence
    BY <2>4 DEF Fence
  <2> QED
    BY <2>1, <2>2, <2>3, <2>4
<1> QED
  BY <1>1, <1>2, EarnedStep, SettleStill DEF EarnedInv, ClosedEarned, ListEarned, RecordEarned

LEMMA EarnedTasks ==
    ASSUME TypeInv, EarnedInv, Approve \/ Bootstrap \/ Start \/ Finish \/ RecoverZombie
    PROVE  EarnedInv'
<1>1. UNCHANGED << fixes, listed, at, record, issue, phase, wanted >> /\ earned \subseteq earned'
  BY DEF Approve, Bootstrap, Start, Finish, RecoverZombie
<1>2. \A i \in Issue : task'[i] = "completed" => task[i] = "completed" \/ i \in earned'
  <2>1. CASE Approve
    BY <2>1 DEF Approve, TypeInv, TypeOK
  <2>2. CASE Bootstrap
    BY <2>2 DEF Bootstrap
  <2>3. CASE Start
    BY <2>3 DEF Start, TypeInv, TypeOK
  <2>4. CASE Finish
    BY <2>4 DEF Finish, TypeInv, TypeOK
  <2>5. CASE RecoverZombie
    BY <2>5 DEF RecoverZombie, TypeInv, TypeOK
  <2> QED
    BY <2>1, <2>2, <2>3, <2>4, <2>5
<1> QED
  BY <1>1, <1>2, EarnedStep, SettleStill DEF EarnedInv, ClosedEarned, ListEarned, RecordEarned

LEMMA EarnedNext == TypeInv /\ EarnedInv /\ [Next]_vars => EarnedInv'
<1> SUFFICES ASSUME TypeInv, EarnedInv, [Next]_vars PROVE EarnedInv'
  OBVIOUS
<1>1. CASE ReconcileRead
  <2>1. UNCHANGED << task, issue, listed, at, record, earned, phase, wanted >>
    BY <1>1 DEF ReconcileRead
  <2>2. \A f \in StatusFixes \cup DependencyFixes : f.to = "completed" => f.of \in earned
    BY OnlyClosedCompletes DEF StatusFixes, DependencyFixes, EarnedInv, ClosedEarned
  <2>3. FixEarned'
    BY <1>1, <2>1, <2>2 DEF ReconcileRead, FixEarned
  <2> QED
    BY <2>1, <2>3, SettleStill
    DEF EarnedInv, CompletionEarned, ClosedEarned, ListEarned, RecordEarned
<1>2. CASE ReconcileFix
  <2>1. PICK f \in fixes :
        /\ fixes' = fixes \ { f }
        /\ task' = [task EXCEPT ![f.of] = f.to] \/ UNCHANGED task
    BY <1>2 DEF ReconcileFix
  <2>2. UNCHANGED << issue, listed, at, record, earned, phase, wanted >>
    BY <1>2 DEF ReconcileFix
  <2>3. \A i \in Issue : task'[i] = "completed" => task[i] = "completed" \/ i \in earned
    BY <2>1 DEF EarnedInv, FixEarned, TypeInv, TypeOK
  <2> QED
    BY <2>1, <2>2, <2>3, EarnedStep, SettleStill DEF EarnedInv, ClosedEarned, ListEarned, RecordEarned
<1>3. CASE UNCHANGED vars
  BY <1>3 DEF vars, EarnedInv, CompletionEarned, ClosedEarned, ListEarned, RecordEarned,
     FixEarned, SettleEarned
<1> QED
  BY <1>1, <1>2, <1>3, EarnedScan, EarnedSubmit, EarnedTracker, EarnedTasks DEF Next

\* Nothing is completed but what its agent finished or whose issue has been
\* closed: lists, records and fixes may be old, but what they saw closed was.
THEOREM CompletionsAreEarned == Spec => []CompletionEarned
<1>1. EarnedInv => CompletionEarned
  BY DEF EarnedInv
<1> QED
  BY <1>1, TypeInit, TypeNext, EarnedInit, EarnedNext, PTL DEF Spec
---------------------------------------------------------------------------
(* Submissions.                                                            *)

\* The task of a submission that is about to be mapped has not gone back
\* behind its approval, unless a fix or a late promotion has taken it back.
Approved(i) == \/ task[i] \in { "approved", "needs_review", "completed" }
               \/ task[i] = "running" /\ i \in working
Stands == submit = "map" => submitted \in demoted \/ Approved(submitted)

LEMMA StandsInit == Init => Stands
BY DEF Init, Stands

\* A step that leaves the submission alone and takes no task behind its approval.
LEMMA StandsStep ==
    ASSUME TypeInv, Stands, UNCHANGED << submit, submitted >>,
           \A i \in Issue : Approved(i) => Approved(i)' \/ i \in demoted',
           demoted \subseteq demoted'
    PROVE  Stands'
BY DEF Stands, TypeInv, SubmitNamed, Approved

LEMMA StandsNext == TypeInv /\ Stands /\ [Next]_vars => Stands'
<1> SUFFICES ASSUME TypeInv, Stands, [Next]_vars PROVE Stands'
  OBVIOUS
<1> USE DEF Scan, Goes, Edited
<1>1. ASSUME UNCHANGED << task, working, submit, submitted, demoted >> PROVE Stands'
  BY <1>1 DEF Stands, Approved
<1>2. CASE ScanStep \/ ScanFails
  <2>1. UNCHANGED << working, submit, submitted >>
    BY <1>2 DEF ScanStep, ScanFails, ScanList, ScanUnblock, ScanReady, ScanTake, Take, ScanUpdate,
       ScanPromote, ScanMakeReady, ScanAdmit, ScanCreate, ScanMap, ScanTerminal, ScanSettle,
       ScanPrune, ScanEdge, ScanNext, ScanDone, DispatchEnds
  <2>2. CASE ScanMakeReady
    <3>1. at \in Issue
      BY <2>2 DEF ScanMakeReady, TypeInv, AtTaken
    <3>2. \A i \in Issue : Approved(i) => Approved(i)' \/ i \in demoted'
      BY <2>1, <2>2, <3>1 DEF ScanMakeReady, Approved, TypeInv, TypeOK
    <3>3. demoted \subseteq demoted'
      BY <2>2 DEF ScanMakeReady
    <3> QED
      BY <2>1, <3>2, <3>3, StandsStep
  <2>3. CASE ScanCreate
    BY <2>1, <2>3, StandsStep DEF ScanCreate, Approved, TypeInv, TypeOK
  <2>4. CASE ScanSettle
    BY <2>1, <2>4, StandsStep DEF ScanSettle, Approved, TypeInv, TypeOK
  <2>5. CASE ~ (ScanMakeReady \/ ScanCreate \/ ScanSettle)
    <3>1. UNCHANGED << task, demoted >>
      BY <1>2, <2>5 DEF ScanStep, ScanFails, ScanList, ScanUnblock, ScanReady, ScanTake, Take,
         ScanUpdate, ScanPromote, ScanAdmit, ScanMap, ScanTerminal, ScanPrune, ScanEdge,
         ScanNext, ScanDone, DispatchEnds
    <3> QED
      BY <1>1, <2>1, <3>1
  <2> QED
    BY <2>2, <2>3, <2>4, <2>5
<1>3. CASE ReconcileRead
  BY <1>1, <1>3 DEF ReconcileRead
<1>4. CASE ReconcileFix
  <2>1. PICK f \in fixes :
        \/ /\ task' = [task EXCEPT ![f.of] = f.to]
           /\ demoted' = IF task[f.of] \in { "open", "ready" } THEN demoted
                         ELSE demoted \cup { f.of }
        \/ UNCHANGED << task, demoted >>
    BY <1>4 DEF ReconcileFix
  <2>2. UNCHANGED << working, submit, submitted >>
    BY <1>4 DEF ReconcileFix
  <2>3. f.of \in Issue
    BY DEF TypeInv, TypeOK, Fix
  <2>4. demoted \subseteq demoted'
    BY <2>1
  <2>5. \A i \in Issue : Approved(i) => Approved(i)' \/ i \in demoted'
    BY <2>1, <2>2, <2>3 DEF Approved, TypeInv, TypeOK
  <2> QED
    BY <2>2, <2>4, <2>5, StandsStep
<1>5. CASE SubmitStep
  <2>1. CASE SubmitUpdateTask
    BY <2>1 DEF SubmitUpdateTask, Submitting, Stands, Approved, TypeInv, TypeOK, SubmitNamed
  <2>2. CASE SubmitCreateTask
    BY <2>2 DEF SubmitCreateTask, Submitting, SubmitEnds, Stands, Approved, TypeInv, TypeOK,
       SubmitNamed
  <2>3. CASE ~ (SubmitUpdateTask \/ SubmitCreateTask)
    <3>1. submit' # "map"
      BY <1>5, <2>3 DEF SubmitStep, SubmitCreate, SubmitMark, SubmitShow, SubmitLook,
         SubmitMap, SubmitFails, Submitting, SubmitEnds
    <3> QED
      BY <3>1 DEF Stands
  <2> QED
    BY <2>1, <2>2, <2>3
<1>6. CASE CreateIssue \/ EditIssue \/ SetIssueStatus \/ Fence
  BY <1>1, <1>6 DEF CreateIssue, EditIssue, SetIssueStatus, Fence
<1>7. CASE Approve
  BY <1>7, StandsStep DEF Approve, Approved, TypeInv, TypeOK
<1>8. CASE Bootstrap
  BY <1>1, <1>8 DEF Bootstrap
<1>9. CASE Start
  BY <1>9, StandsStep DEF Start, Approved, TypeInv, TypeOK
<1>10. CASE Finish
  BY <1>10, StandsStep DEF Finish, Approved, TypeInv, TypeOK
<1>11. CASE RecoverZombie
  BY <1>11, StandsStep DEF RecoverZombie, Approved, TypeInv, TypeOK
<1>12. CASE UNCHANGED vars
  BY <1>1, <1>12 DEF vars
<1> QED
  BY <1>2, <1>3, <1>4, <1>5, <1>6, <1>7, <1>8, <1>9, <1>10, <1>11, <1>12 DEF Next

LEMMA StandsStated ==
    Stands => [SubmitMap => submitted \in demoted \/
                 task[submitted] \in { "approved", "running", "needs_review", "completed" }]_vars
BY DEF SubmitMap, Stands, Approved

\* A submission that reports success has a task that is approved or past its
\* approval, although scans may have admitted, promoted or updated its issue in
\* between; only a fix of the reconciler takes the approval back, or a promotion
\* that had read the task as open before it was approved.
THEOREM SubmissionsStand == Spec => SubmissionStands
<1>1. QED
  BY TypeInit, TypeNext, StandsInit, StandsNext, StandsStated, PTL DEF Spec, SubmissionStands
=============================================================================
