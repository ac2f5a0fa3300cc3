------------------------------ MODULE BeadsScan ------------------------------
(***************************************************************************)
(* The bridge from the tracker to the task store: ScanProject, which every *)
(* tick of the dispatcher runs, one call at a time; ReconcileProject with  *)
(* fixes applied; and Submit, which creates an approved issue and its      *)
(* task.  Meanwhile people edit issues and approve tasks, and agents work. *)
(* A task has the ID of its issue, so both are an Issue here.              *)
(***************************************************************************)
EXTENDS Naturals, FiniteSets

CONSTANTS
    Issue,         \* issue IDs
    NoIssue,       \* no issue; no value
    Labelled,      \* issues with the canary label
    Imported,      \* tasks that chum sync has imported before
    Allowed,       \* drift classes that the reconciler may fix
    MaxActs        \* bound: what people, fences and reconciliations do besides
                   \* submissions, and calls that fail

IssueStatus == { "none", "open", "in_progress", "blocked", "approved", "closed" }
TaskStatus == { "none", "open", "ready", "approved", "running", "needs_review",
                "completed" }
Source == { "none", "beads_bridge", "ast" }
\* An issue, what its fingerprint is a hash of, and none.
Record == [status : IssueStatus, rev : Nat, deps : SUBSET Issue]
NoRecord == [status |-> "none", rev |-> 0, deps |-> {}]

ScanPhase == { "idle", "unblock", "next", "admit", "create", "update", "promote",
               "promote_update", "ready", "ready_update", "map", "terminal", "settle",
               "edges", "dispatch" }
SubmitPhase == { "idle", "mark", "show", "look", "create", "update", "map" }
Class == { "status_mismatch", "dependency_mismatch" }
Fix == [class : Class, of : Issue, on : Issue \cup { NoIssue }, to : TaskStatus]

ASSUME IssueAssumption == IsFiniteSet(Issue) /\ NoIssue \notin Issue
ASSUME BridgeAssumption ==
    /\ Labelled \subseteq Issue /\ Imported \subseteq Issue /\ Allowed \subseteq Class
    /\ MaxActs \in Nat

VARIABLES
    issue,      \* tracker: the issues
    task,       \* task store: status of the task, "none" when there is none
    content,    \* task store: the revision of the issue it was written from
    map,        \* beads_sync_map: last_fingerprint, NoIssue without a row
    synthetic,  \* beads_sync_map: tasks with a row of an issue nobody has
    edge,       \* task store: source of the edge from a task to another
    working,    \* tasks whose agent is at work
    phase,      \* where the scan is
    listed,     \* what List has returned, NoIssue when it failed
    todo,       \* ready issues that the scan has not finished
    at, record, \* the issue that the scan is at, as it was read
    wanted,     \* its mapped dependencies; the one that is being completed
    submit, submitted, fingerprint, \* where Submit is, with which issue
    fixes,      \* what the reconciler has found and not applied yet
    granted,    \* history: tasks that people approved and no agent started
    earned,     \* history: tasks whose agent finished, issues that were closed
    demoted,    \* history: tasks that a fix or a late promotion has reset after
                \* their approval
    adopted,    \* history: tasks mapped with a text that may not be the issue's
    acts        \* bounded

tracker  == << issue >>
rows     == << map, synthetic >>
store    == << task, content, rows, edge >>
scanning == << phase, listed, todo, at, record, wanted >>
submits  == << submit, submitted, fingerprint >>
history  == << granted, earned, demoted, adopted >>
vars == << tracker, store, working, scanning, submits, fixes, history, acts >>

TypeOK ==
    /\ issue \in [Issue -> Record]
    /\ task \in [Issue -> TaskStatus]
    /\ content \in [Issue -> Nat]
    /\ map \in [Issue -> Record \cup { NoIssue }]
    /\ synthetic \subseteq Issue
    /\ edge \in [Issue \X Issue -> Source]
    /\ working \subseteq Issue
    /\ phase \in ScanPhase
    /\ listed \in [Issue -> Record] \cup { NoIssue }
    /\ todo \subseteq Issue
    /\ at \in Issue \cup { NoIssue }
    /\ record \in Record
    /\ wanted \subseteq Issue
    /\ submit \in SubmitPhase /\ submitted \in Issue \cup { NoIssue }
    /\ fingerprint \in Record
    /\ fixes \subseteq Fix
    /\ granted \subseteq Issue /\ earned \subseteq Issue
    /\ demoted \subseteq Issue /\ adopted \subseteq Issue
    /\ acts \in Nat

---------------------------------------------------------------------------
(* Helpers.                                                                *)

Edges == { p \in Issue \X Issue : edge[p] # "none" }
\* A relation has a cycle when some tasks each wait for another one of them.
Cyclic(R) == \E S \in (SUBSET Issue) \ { {} } : \A x \in S : \E y \in S : << x, y >> \in R
TrackerDeps == { p \in Issue \X Issue : p[2] \in issue[p[1]].deps }
RemoveEdges(R) == edge' = [p \in Issue \X Issue |-> IF p \in R THEN "none" ELSE edge[p]]
\* AddEdgeWithSource refuses this edge.
Closes(i, d) == Cyclic(Edges \cup { << i, d >> })

Mapped(i) == map[i] # NoIssue
\* GetBeadsMappingsByTasks finds a row of any issue.
HasRow(i) == Mapped(i) \/ i \in synthetic
isIssueTerminalStatus(s) == s = "closed"

\* bd ready: an external program.
Ready == { i \in Issue : /\ issue[i].status = "open"
                         /\ \A d \in issue[i].deps : issue[d].status = "closed" }

\* Mutant: what is not ready or running is done.
mapIssueStatus_Default(s) == IF s = "open" THEN "open" ELSE "completed"

\* Mutant: the tracker's word is taken over.
mapIssueStatus_Raw(s) == s

mapIssueStatus(s) == CASE s = "in_progress" -> "running"
                       [] s = "closed" -> "completed"
                       [] OTHER -> "open"

\* Mutant: an approved issue makes an approved task.
mapReadyIssueStatus_Approves(s) ==
    CASE s = "approved" -> "approved"
      [] mapIssueStatus(s) = "open" /\ s # "approved" -> "ready"
      [] OTHER -> mapIssueStatus(s)

mapReadyIssueStatus(s) == IF mapIssueStatus(s) = "open" THEN "ready"
                          ELSE mapIssueStatus(s)

\* isCHUMInternalStatus, of the statuses that occur here.
isCHUMInternalStatus(s) == s = "needs_review"

EvaluateGate(i, r) == i \in Labelled /\ ~ isIssueTerminalStatus(r.status)

\* An issue as the scan sees it: in the list, or shown; and as bd ready tells of
\* it, without its dependencies.
InList(i) == listed # NoIssue /\ listed[i].status # "none"
Seen(i) == IF InList(i) THEN listed[i] ELSE issue[i]
Short(i) == [issue[i] EXCEPT !.deps = {}]

Act == /\ acts < MaxActs
       /\ acts' = acts + 1

\* The tracker has been in use, and chum sync has left tasks without a mapping.
Init ==
    /\ issue \in [Issue -> [status : IssueStatus \ { "approved", "in_progress" }, rev : { 0 },
                            deps : SUBSET Issue]]
    /\ \A i \in Issue :
        /\ i \in Imported => issue[i].status = "open"
        /\ issue[i].status = "none" => issue[i].deps = {}
        /\ \A d \in issue[i].deps : issue[d].status # "none"
    /\ ~ Cyclic(TrackerDeps)
    /\ task = [i \in Issue |-> IF i \in Imported THEN "open" ELSE "none"]
    /\ content = [i \in Issue |-> 0]
    /\ map = [i \in Issue |-> NoIssue] /\ synthetic = {}
    /\ edge = [p \in Issue \X Issue |-> "none"]
    /\ working = {}
    /\ phase = "idle" /\ listed = NoIssue /\ todo = {} /\ at = NoIssue
    /\ record = NoRecord /\ wanted = {}
    /\ submit = "idle" /\ submitted = NoIssue /\ fingerprint = NoRecord
    /\ fixes = {}
    /\ granted = {} /\ earned = { i \in Issue : issue[i].status = "closed" }
    /\ demoted = {} /\ adopted = {}
    /\ acts = 0

---------------------------------------------------------------------------
(* ScanProject.                                                            *)

\* The scan goes on at p; Goes leaves approvals alone.
Goes(p) == /\ phase' = p
           /\ UNCHANGED << working, submits, fixes >>
Scan(p) == Goes(p) /\ UNCHANGED << granted, demoted >>

ScanIdle == /\ listed' = NoIssue /\ todo' = {} /\ at' = NoIssue
            /\ record' = NoRecord /\ wanted' = {}

\* List: when it fails the scan goes on, and shows the issues one by one.
ScanList ==
    /\ phase = "idle"
    /\ Scan("unblock")
    /\ \/ listed' = issue /\ UNCHANGED acts
       \/ Act /\ UNCHANGED listed
    /\ UNCHANGED << tracker, store, todo, at, record, wanted, earned,
                    adopted >>

Unblockable(i) ==
    /\ listed # NoIssue /\ listed[i].status = "blocked" /\ listed[i].deps # {}
    /\ \A d \in listed[i].deps : isIssueTerminalStatus(Seen(d).status)

\* unblockStaleBlockedIssues: whatever the issue has become since it was listed.
ScanUnblock ==
    /\ phase = "unblock"
    /\ \E i \in Issue :
        /\ Unblockable(i)
        /\ issue' = [issue EXCEPT ![i].status = "open"]
        /\ listed' = [listed EXCEPT ![i].status = "open"]
    /\ Scan("unblock")
    /\ UNCHANGED << store, todo, at, record, wanted, earned, adopted, acts >>

\* Ready.  The order of the IDs is any order here.
ScanReady ==
    /\ phase = "unblock"
    /\ \A i \in Issue : ~ Unblockable(i)
    /\ todo' = Ready
    /\ Scan("next")
    /\ UNCHANGED << tracker, store, listed, at, record, wanted, earned,
                    adopted, acts >>

\* An issue, as r, is skipped, known, changed or new.
Take(i, r) ==
    /\ at' = i /\ record' = r
    /\ IF ~ Mapped(i) /\ ~ EvaluateGate(i, r)
         THEN todo' = todo \ { i } /\ Scan("next")
         ELSE /\ UNCHANGED todo
              /\ Scan(IF ~ Mapped(i) THEN "admit"
                      ELSE IF map[i] = r THEN "promote" ELSE "update")

\* Show: when it fails the scan goes on with what Ready has told of the issue.
ScanTake ==
    /\ phase = "next"
    /\ \E i \in todo : \/ Take(i, Seen(i)) /\ UNCHANGED acts
                       \/ ~ InList(i) /\ Take(i, Short(i)) /\ Act
    /\ UNCHANGED << tracker, store, listed, wanted, earned, adopted >>

\* updateMappedTask.
ScanUpdate ==
    /\ phase = "update"
    /\ content' = [content EXCEPT ![at] = record.rev]
    /\ adopted' = adopted \ { at }
    /\ Scan("promote_update")
    /\ UNCHANGED << tracker, task, rows, edge, listed, todo, at, record, wanted,
                    earned, acts >>

\* promoteMappedTaskFromReady reads the task.
ScanPromote ==
    /\ phase \in { "promote", "promote_update" }
    /\ Scan(IF task[at] = "open"
              THEN IF phase = "promote" THEN "ready" ELSE "ready_update"
              ELSE IF phase = "promote" THEN "terminal" ELSE "map")
    /\ UNCHANGED << tracker, store, listed, todo, at, record, wanted, earned, adopted,
                    acts >>

\* It was open: it becomes ready, whatever it has become since.
ScanMakeReady ==
    /\ phase \in { "ready", "ready_update" }
    /\ task' = [task EXCEPT ![at] = "ready"]
    /\ demoted' = IF task[at] \in { "open", "ready" } THEN demoted ELSE demoted \cup { at }
    /\ granted' = granted \ { at }
    /\ Goes(IF phase = "ready" THEN "terminal" ELSE "map")
    /\ UNCHANGED << tracker, content, rows, edge, listed, todo, at, record, wanted,
                    earned, adopted, acts >>

\* GetTask: a task that is there already is left as it is.
ScanAdmit ==
    /\ phase = "admit"
    /\ IF task[at] = "none" THEN Scan("create") /\ UNCHANGED adopted
       ELSE Scan("map") /\ adopted' = adopted \cup { at }
    /\ UNCHANGED << tracker, store, listed, todo, at, record, wanted, earned, acts >>

\* CreateTask: a task that has come since is an error, which ends the scan.
ScanCreate ==
    /\ phase = "create"
    /\ IF task[at] = "none"
         THEN /\ task' = [task EXCEPT ![at] = mapReadyIssueStatus(record.status)]
              /\ content' = [content EXCEPT ![at] = record.rev]
              /\ Scan("map")
              /\ UNCHANGED << listed, todo, at, record, wanted >>
         ELSE Scan("idle") /\ ScanIdle /\ UNCHANGED << task, content >>
    /\ UNCHANGED << tracker, rows, edge, earned, adopted, acts >>

\* UpsertBeadsMapping, last.  A task has one row: when that row is synthetic
\* there is an error, which ends the scan and the tick.
ScanMap ==
    /\ phase = "map"
    /\ IF at \in synthetic
         THEN Scan("idle") /\ ScanIdle /\ UNCHANGED map
         ELSE /\ map' = [map EXCEPT ![at] = record]
              /\ Scan("terminal")
              /\ UNCHANGED << listed, todo, at, record, wanted >>
    /\ UNCHANGED << tracker, task, content, synthetic, edge, earned, adopted, acts >>

\* Dependencies whose tasks are not completed although their issues are.
Unsettled == { d \in record.deps :
                 /\ mapIssueStatus(Seen(d).status) = "completed" /\ Mapped(d)
                 /\ task[d] \notin { "none", "running", "completed" } }

\* syncTerminalDependencyStatuses reads the task of a dependency.
ScanTerminal ==
    /\ phase = "terminal"
    /\ \E d \in Unsettled : wanted' = { d }
    /\ Scan("settle")
    /\ UNCHANGED << tracker, store, listed, todo, at, record, earned, adopted, acts >>

\* It becomes completed, whatever it has become since.
ScanSettle ==
    /\ phase = "settle"
    /\ task' = [d \in Issue |-> IF d \in wanted THEN "completed" ELSE task[d]]
    /\ wanted' = {}
    /\ granted' = granted \ wanted
    /\ Goes("terminal")
    /\ UNCHANGED << tracker, content, rows, edge, listed, todo, at, record, earned,
                    demoted, adopted, acts >>

\* Mutant: bridge edges that are not wanted stay.
Stale_None(d) == FALSE

\* An edge that the bridge has made and the issue does not ask for; without a
\* mapping it stays while dependencies are pending.
Stale(d) == /\ edge[<< at, d >>] = "beads_bridge"
            /\ d \notin record.deps \/ ~ Mapped(d)
            /\ Mapped(d) \/ \A e \in record.deps : Mapped(e)

\* Nothing is left to complete, or without a list bd fails to show what is.
Settled == \/ Unsettled = {} /\ UNCHANGED acts
           \/ Unsettled # {} /\ listed = NoIssue /\ Act

\* syncProjectedDependencies: mappings are looked up, stale edges removed.
ScanPrune ==
    /\ phase = "terminal"
    /\ Settled
    /\ wanted' = { d \in record.deps \ { at } : Mapped(d) }
    /\ RemoveEdges({ at } \X { d \in Issue : Stale(d) })
    /\ Scan("edges")
    /\ UNCHANGED << tracker, task, content, rows, listed, todo, at, record, earned,
                    adopted >>

\* An edge with another source is removed first; one that would close a cycle
\* is not added.
ScanEdge ==
    /\ phase = "edges"
    /\ \E d \in wanted :
        \/ /\ edge[<< at, d >>] = "ast"
           /\ RemoveEdges({ << at, d >> })
        \/ /\ edge[<< at, d >>] = "none" /\ ~ Closes(at, d)
           /\ edge' = [edge EXCEPT ![<< at, d >>] = "beads_bridge"]
    /\ Scan("edges")
    /\ UNCHANGED << tracker, task, content, rows, listed, todo, at, record, wanted,
                    earned, adopted, acts >>

ScanNext ==
    /\ phase = "edges"
    /\ \A d \in wanted : \/ edge[<< at, d >>] = "beads_bridge"
                         \/ edge[<< at, d >>] = "none" /\ Closes(at, d)
    /\ todo' = todo \ { at }
    /\ Scan("next")
    /\ at' = NoIssue /\ record' = NoRecord /\ wanted' = {}
    /\ UNCHANGED << tracker, store, listed, earned, adopted, acts >>

\* The cursor is written, the scan ends, and the tick goes on.
ScanDone ==
    /\ phase = "next" /\ todo = {}
    /\ Scan("dispatch") /\ ScanIdle
    /\ UNCHANGED << tracker, store, earned, adopted, acts >>

\* A call fails or the process dies: the scan is over.
ScanFails ==
    /\ phase # "idle"
    /\ Act
    /\ Scan("idle") /\ ScanIdle
    /\ UNCHANGED << tracker, store, earned, adopted >>

\* The tick ends: it has started what it could.
DispatchEnds ==
    /\ phase = "dispatch"
    /\ Scan("idle") /\ ScanIdle
    /\ UNCHANGED << tracker, store, earned, adopted, acts >>

ScanStep == \/ ScanList \/ ScanUnblock \/ ScanReady \/ ScanTake \/ ScanUpdate
            \/ ScanPromote \/ ScanMakeReady \/ ScanAdmit \/ ScanCreate \/ ScanMap
            \/ ScanTerminal \/ ScanSettle \/ ScanPrune \/ ScanEdge \/ ScanNext
            \/ ScanDone \/ DispatchEnds

---------------------------------------------------------------------------
(* ReconcileProject, with fixes applied.                                   *)

\* What the report lists for mapped issues and a fix is allowed for.
StatusFixes == { [class |-> "status_mismatch", of |-> i, on |-> NoIssue,
                  to |-> mapIssueStatus(issue[i].status)] :
                 i \in { j \in Issue : /\ Mapped(j) /\ task[j] # "none"
                           /\ issue[j].status # "none"
                           /\ task[j] # mapIssueStatus(issue[j].status)
                           /\ ~ isCHUMInternalStatus(task[j]) } }
DependencyFixes == { [class |-> "dependency_mismatch", of |-> p[1], on |-> p[2],
                      to |-> "none"] :
                     p \in { q \in Issue \X Issue :
                               /\ Mapped(q[1]) /\ task[q[1]] # "none"
                               /\ q[2] \in issue[q[1]].deps /\ Mapped(q[2])
                               /\ edge[q] = "none" } }

Permitted(f) == f.class \in Allowed

\* Issues, tasks and mappings are read, and compared.
ReconcileRead ==
    /\ fixes = {}
    /\ Act
    /\ fixes' = { f \in StatusFixes \cup DependencyFixes : Permitted(f) }
    /\ UNCHANGED << tracker, store, working, scanning, submits, history >>

\* A fix: whatever the task has become since.
ReconcileFix ==
    /\ \E f \in fixes :
        /\ fixes' = fixes \ { f }
        /\ \/ /\ f.class = "status_mismatch"
              /\ task' = [task EXCEPT ![f.of] = f.to]
              /\ demoted' = IF task[f.of] \in { "open", "ready" } THEN demoted
                            ELSE demoted \cup { f.of }
              /\ granted' = granted \ { f.of }
              /\ UNCHANGED edge
           \/ /\ f.class = "dependency_mismatch"
              /\ edge' = IF edge[<< f.of, f.on >>] = "none" /\ ~ Closes(f.of, f.on)
                           THEN [edge EXCEPT ![<< f.of, f.on >>] = "beads_bridge"]
                           ELSE edge
              /\ UNCHANGED << task, demoted, granted >>
    /\ UNCHANGED << tracker, content, rows, working, scanning, submits, earned,
                    adopted, acts >>

---------------------------------------------------------------------------
(* Submit, where the policy asks for an issue first.                       *)

Submitting(p) == /\ submit' = p
                 /\ UNCHANGED << working, scanning, fixes, earned, demoted >>

SubmitEnds == /\ Submitting("idle")
              /\ submitted' = NoIssue /\ fingerprint' = NoRecord

\* Create, with the canary label.
SubmitCreate ==
    /\ submit = "idle"
    /\ \E i \in Labelled :
        /\ issue[i].status = "none" /\ task[i] = "none"
        /\ issue' = [issue EXCEPT ![i].status = "open"]
        /\ submitted' = i
    /\ Submitting("mark")
    /\ UNCHANGED << store, fingerprint, granted, adopted, acts >>

\* Update: the status of the issue.
SubmitMark ==
    /\ submit = "mark"
    /\ issue' = [issue EXCEPT ![submitted].status = "approved"]
    /\ Submitting("show")
    /\ UNCHANGED << store, submitted, fingerprint, granted, acts, adopted >>

\* Show, whose failure leaves the fingerprint empty.
SubmitShow ==
    /\ submit = "show"
    /\ \/ fingerprint' = issue[submitted] /\ UNCHANGED acts
       \/ Act /\ UNCHANGED fingerprint
    /\ Submitting("look")
    /\ UNCHANGED << tracker, store, submitted, granted, adopted >>

\* GetTask: a scan may have been faster.
SubmitLook ==
    /\ submit = "look"
    /\ Submitting(IF task[submitted] = "none" THEN "create" ELSE "update")
    /\ UNCHANGED << tracker, store, submitted, fingerprint, granted, acts,
                    adopted >>

\* Mutant: the task that a scan has made keeps its status.
SubmitUpdateTask_Fields ==
    /\ submit = "update"
    /\ granted' = granted \cup { submitted }
    /\ content' = [content EXCEPT ![submitted] = 0]
    /\ Submitting("map")
    /\ adopted' = adopted \cup { submitted }
    /\ UNCHANGED << tracker, task, rows, edge, submitted, fingerprint, acts >>

\* UpdateTask: an approval for any status.
SubmitUpdateTask ==
    /\ submit = "update"
    /\ task' = [task EXCEPT ![submitted] = "approved"]
    /\ granted' = granted \cup { submitted }
    /\ content' = [content EXCEPT ![submitted] = 0]
    /\ Submitting("map")
    /\ adopted' = adopted \cup { submitted }
    /\ UNCHANGED << tracker, rows, edge, submitted, fingerprint, acts >>

\* CreateTask: a task that has come since is an error.
SubmitCreateTask ==
    /\ submit = "create"
    /\ IF task[submitted] = "none"
         THEN /\ task' = [task EXCEPT ![submitted] = "approved"]
              /\ granted' = granted \cup { submitted }
              /\ Submitting("map")
              /\ UNCHANGED << submitted, fingerprint >>
         ELSE SubmitEnds /\ UNCHANGED << task, granted >>
    /\ UNCHANGED << tracker, content, rows, edge, acts, adopted >>

\* The task has the text of the submission, whatever the issue has by now.
SubmitMap ==
    /\ submit = "map" /\ submitted \notin synthetic
    /\ map' = [map EXCEPT ![submitted] = fingerprint]
    /\ adopted' = adopted \cup { submitted }
    /\ SubmitEnds
    /\ UNCHANGED << tracker, task, content, synthetic, edge, granted, acts >>

\* An error for the caller; nothing is taken back.
SubmitFails ==
    /\ submit \in { "mark", "look", "create", "update", "map" }
    /\ IF submit = "map" /\ submitted \in synthetic THEN UNCHANGED acts ELSE Act
    /\ SubmitEnds
    /\ UNCHANGED << tracker, store, granted, adopted >>

SubmitStep == \/ SubmitCreate \/ SubmitMark \/ SubmitShow \/ SubmitLook
              \/ SubmitUpdateTask \/ SubmitCreateTask \/ SubmitMap \/ SubmitFails

---------------------------------------------------------------------------
(* People, agents and the admission gate.                                  *)

Edited == /\ Act
          /\ UNCHANGED << working, scanning, submits, fixes, demoted, adopted >>

\* SubmitFromFile without an issue_id, or bd create.
CreateIssue ==
    /\ Edited
    /\ \E i \in Issue, D \in SUBSET Issue :
        /\ issue[i].status = "none" /\ i # submitted
        /\ i \notin D /\ \A d \in D : issue[d].status # "none"
        /\ issue' = [issue EXCEPT ![i] = [status |-> "open", rev |-> 0, deps |-> D]]
    /\ UNCHANGED << store, granted, earned >>

\* SubmitFromFile with one, or bd update: fields, and dependencies one by one.
\* bd refuses a dependency that would close a cycle.
EditIssue ==
    /\ Edited
    /\ \E i \in Issue :
        /\ issue[i].status # "none"
        /\ \/ issue' = [issue EXCEPT ![i].rev = @ + 1]
           \/ \E d \in Issue \ (issue[i].deps \cup { i }) :
                /\ issue[d].status # "none"
                /\ ~ Cyclic(TrackerDeps \cup { << i, d >> })
                /\ issue' = [issue EXCEPT ![i].deps = @ \cup { d }]
           \/ \E d \in issue[i].deps :
                issue' = [issue EXCEPT ![i].deps = @ \ { d }]
    /\ UNCHANGED << store, granted, earned >>

\* People, or the outbox, change an issue's status.
SetIssueStatus ==
    /\ Edited
    /\ \E i \in Issue, s \in { "open", "in_progress", "blocked", "closed" } :
        /\ issue[i].status \notin { "none", s }
        /\ issue' = [issue EXCEPT ![i].status = s]
        /\ earned' = IF s = "closed" THEN earned \cup { i } ELSE earned
    /\ UNCHANGED << store, granted >>

\* RunGate fences two tasks; not while the scan wires edges, where the fence
\* would stay until the next scan.
Fence ==
    /\ Edited
    /\ phase # "edges"
    /\ \E p \in Issue \X Issue :
        /\ task[p[1]] # "none" /\ task[p[2]] # "none"
        /\ edge[p] = "none" /\ ~ Closes(p[1], p[2])
        /\ edge' = [edge EXCEPT ![p] = "ast"]
    /\ UNCHANGED << tracker, task, content, rows, granted, earned >>

\* handleDashboardTaskApprove.
Approve ==
    /\ Act
    /\ \E i \in Issue :
        /\ task[i] = "ready"
        /\ task' = [task EXCEPT ![i] = "approved"]
        /\ granted' = granted \cup { i }
    /\ UNCHANGED << tracker, content, rows, edge, working, scanning, submits, fixes,
                    earned, demoted, adopted >>

\* GetApprovedNodes: approved, and not blocked.
Dispatchable(i) ==
    /\ task[i] = "approved" /\ i \notin working
    /\ \A d \in Issue :
        /\ edge[<< i, d >>] = "beads_bridge" => task[d] = "completed"
        /\ edge[<< i, d >>] = "ast" => task[d] \notin { "ready", "running", "approved" }

\* filterBeadsMappedReadyTasks: a task without a row gets one, of its issue or,
\* when bd does not show that, of an issue made up.
Bootstrap ==
    /\ phase = "dispatch"
    /\ \E i \in Issue :
        /\ Dispatchable(i) /\ ~ HasRow(i)
        /\ \/ /\ map' = [map EXCEPT ![i] = issue[i]]
              /\ adopted' = adopted \cup { i }
              /\ UNCHANGED << synthetic, acts >>
           \/ /\ Act
              /\ synthetic' = synthetic \cup { i }
              /\ UNCHANGED << map, adopted >>
    /\ UNCHANGED << tracker, task, content, edge, working, scanning, submits, fixes,
                    granted, earned, demoted >>

\* A tick whose scan has succeeded starts what has a row.
Start ==
    /\ phase = "dispatch"
    /\ \E i \in Issue :
        /\ Dispatchable(i) /\ HasRow(i)
        /\ task' = [task EXCEPT ![i] = "running"]
        /\ working' = working \cup { i }
        /\ granted' = granted \ { i }
    /\ UNCHANGED << tracker, content, rows, edge, scanning, submits, fixes, earned,
                    demoted, adopted, acts >>

\* The agent closes its task, whatever its status has become.
Finish ==
    /\ \E i \in working, s \in { "completed", "needs_review" } :
        /\ working' = working \ { i }
        /\ task' = [task EXCEPT ![i] = s]
        /\ earned' = IF s = "completed" THEN earned \cup { i } ELSE earned
        /\ granted' = granted \ { i }
    /\ UNCHANGED << tracker, content, rows, edge, scanning, submits, fixes, demoted,
                    adopted, acts >>

\* A tick looks for running tasks that nothing works on.
RecoverZombie ==
    /\ phase = "idle"
    /\ \E i \in Issue \ working :
        /\ task[i] = "running"
        /\ task' = [task EXCEPT ![i] = "ready"]
    /\ UNCHANGED << tracker, content, rows, edge, working, scanning, submits, fixes,
                    history, acts >>

---------------------------------------------------------------------------
Next ==
    \/ ScanStep \/ ScanFails
    \/ ReconcileRead \/ ReconcileFix
    \/ SubmitStep
    \/ CreateIssue \/ EditIssue \/ SetIssueStatus \/ Fence
    \/ Approve \/ Bootstrap \/ Start \/ Finish \/ RecoverZombie

\* The schedule goes on starting ticks, a tick looks for zombies and goes on
\* with its scan, and agents finish; nobody else need do anything.
Spec == /\ Init /\ [][Next]_vars
        /\ WF_vars(ScanStep) /\ WF_vars(Finish) /\ SF_vars(RecoverZombie)

---------------------------------------------------------------------------
(* Properties.                                                             *)

\* The bridge hands out no approvals: a task is approved only while an
\* approval of a person or of a submission is unspent, whatever statuses
\* tracker, scans and reconciliations write.
ApprovalFromPeople == \A i \in Issue : task[i] = "approved" => i \in granted

\* A task is completed only when its agent finished it or when its issue has
\* been closed: neither a scan with an old list nor a reconciliation
\* completes anything else (mapIssueStatus, syncTerminalDependencyStatuses).
CompletionEarned == \A i \in Issue : task[i] = "completed" => i \in earned

\* A submission that reports success has an approved task, or one that was
\* approved, although scans may have admitted its issue in between: all but
\* those whose approval a fix has taken back, or a promotion that had read the
\* task before the approval and made it ready after it.
SubmissionStands ==
    [][SubmitMap => submitted \in demoted \/
        task[submitted] \in { "approved", "running", "needs_review", "completed" }]_vars

\* Of an issue that stays ready, the task store in the end holds the task,
\* its content unless it was adopted, and the edges the tracker asks for and
\* no stale ones; what it depends on is completed.
Synced(i) ==
    /\ Mapped(i) /\ task[i] \notin { "none", "open" }
    /\ i \notin adopted => content[i] = issue[i].rev
    /\ \A d \in issue[i].deps : Mapped(d) =>
        /\ task[d] \in { "none", "completed" }
        /\ edge[<< i, d >>] = "beads_bridge" \/ Closes(i, d)
    /\ \A d \in Issue : edge[<< i, d >>] = "beads_bridge" =>
        \/ d \in issue[i].deps
        \/ ~ Mapped(d) /\ \E e \in issue[i].deps : ~ Mapped(e)

\* Once people rest, scans bring the task store in line with the tracker and
\* leave no issue blocked by closed ones, although calls failed and scans
\* died at any point (ScanProject); unless a dispatch has made a synthetic row.
ConvergesUnlessSynthetic ==
    <>[](synthetic # {} \/ \A i \in Issue :
          /\ i \in Ready /\ EvaluateGate(i, issue[i]) => Synced(i)
          /\ ~ (issue[i].status = "blocked" /\ issue[i].deps # {} /\
                \A d \in issue[i].deps : issue[d].status = "closed"))

\* Ticks go on getting as far as starting what is approved, whatever has
\* failed before (filterBeadsMappedReadyTasks: "so they can still dispatch").
DispatchGoesOn == []<>(phase = "dispatch")
=============================================================================
