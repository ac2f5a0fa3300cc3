----------------------------- MODULE ReviewLoop -----------------------------
(***************************************************************************)
(* One pull request from its creation to its merge or its parking: the     *)
(* review loop that AgentWorkflow and ReviewWorkflow share, the reviews it *)
(* submits to GitHub and reads back, the rework it pushes and the merge.   *)
(* GitHub is external: people push to the branch, review, and dismiss      *)
(* reviews between any two calls of the loop, and a call may fail after it *)
(* took effect.  A loop that ends with a recoverable reason is resumed by  *)
(* the dispatcher as a ReviewWorkflow, which starts again at round 1.      *)
(***************************************************************************)
EXTENDS Naturals, Sequences

CONSTANTS
    MaxReviewRounds,  \* general.max_review_rounds
    PageSize,         \* reviews GitHub lists when it is not asked for pages
    People,           \* what other people do in this instance (see Deed)
    MaxCommit,        \* bound: commits of the branch
    MaxRemarks,       \* bound: reviews by people, and dismissals
    MaxFaults         \* bound: calls that fail and executions that die

Deed == { "push", "review", "dismiss", "fetch" }

Commit == 1 .. MaxCommit
Author == { "none", "agent", "person", "update" }

\* What reviewToOutcome makes of a review's state and its fallback marker.
Verdict == { "approve", "changes", "comment", "dismissed" }
Review == [ by : { "chum", "person" }, sha : Commit,
            round : 0 .. MaxReviewRounds, verdict : Verdict ]

Phase == { "open", "setup", "review", "guard", "submit", "check", "merge",
           "updated", "merged", "rework", "push", "refresh", "idle" }

\* The close's sub_reason as error_log keeps it; "lost" is a task that went
\* back to ready without it.
SubReason == { "none", "pr_create_failed", "reviewer_error",
               "no_reviewer_activity", "review_submit_failed",
               "pr_info_failed", "worktree_failed", "reviewer_modified_code",
               "merge_failed", "merge_blocked", "checks_pending_timeout",
               "max_rounds_reached", "exec_failed", "dod_error", "dod_failed",
               "push_failed", "completed", "lost" }

ASSUME BoundAssumption == /\ MaxReviewRounds \in Nat \ {0}
                          /\ PageSize \in Nat
                          /\ MaxCommit \in Nat \ {0}
                          /\ MaxRemarks \in Nat
                          /\ MaxFaults \in Nat
ASSUME PeopleAssumption == People \subseteq Deed

---------------------------------------------------------------------------
VARIABLES
    head,      \* the branch on GitHub
    madeBy,    \* madeBy[c]: who made commit c
    last,      \* commits made so far
    merged,    \* the commit that was merged, or 0
    reviews,   \* the pull request's reviews, oldest first
    local,     \* HEAD of the worktree
    parent,    \* the commit the worktree's unpushed work is based on
    tracking,  \* refs/remotes/origin/<branch> of the shared repository
    phase,     \* where the loop is
    round,     \* the loop's round
    known,     \* PRInfo.HeadSHA
    signal,    \* the draft's verdict, until it is submitted
    reason,    \* sub_reason of the last close
    opinion,   \* history: opinion[c], the verdicts the reviewer posted on c
    remarks,   \* reviews and dismissals by people so far
    faults     \* failures so far

branch   == << head, madeBy, last >>
github   == << branch, merged, reviews, opinion >>
checkout == << local, parent, tracking >>
loop     == << phase, round, known, signal, reason >>
vars     == << github, checkout, loop, remarks, faults >>

TypeOK ==
    /\ head \in Commit
    /\ madeBy \in [Commit -> Author]
    /\ last \in Commit
    /\ merged \in Commit \cup {0}
    /\ reviews \in Seq(Review)
    /\ local \in Commit /\ parent \in Commit /\ tracking \in Commit
    /\ phase \in Phase
    /\ round \in 1 .. MaxReviewRounds
    /\ known \in Commit
    /\ signal \in { "none", "approve", "changes" }
    /\ reason \in SubReason
    /\ opinion \in [Commit -> SUBSET { "approve", "changes" }]
    /\ remarks \in Nat
    /\ faults \in Nat

\* The agent has pushed its first commit and created the pull request.
Init ==
    /\ head = 1 /\ last = 1 /\ merged = 0
    /\ madeBy = [c \in Commit |-> IF c = 1 THEN "agent" ELSE "none"]
    /\ reviews = << >>
    /\ local = 1 /\ parent = 1 /\ tracking = 1
    /\ phase = "open" /\ round = 1 /\ known = 1 /\ signal = "none"
    /\ reason = "none"
    /\ opinion = [c \in Commit |-> {}]
    /\ remarks = 0 /\ faults = 0

---------------------------------------------------------------------------
(* Helpers.                                                                *)

GoTo(p) == phase' = p

Close(sub) == /\ phase' = "idle"
              /\ reason' = sub

\* Mutant: the rounds are counted from zero.
Knows_FromZero(r) == /\ known' = head
                     /\ round' = r - 1

\* PRInfo is read, for the first round or the next.
Knows(r) == /\ known' = head
            /\ round' = r

Fails == /\ faults < MaxFaults
         /\ faults' = faults + 1

\* A new commit by somebody.
Adds(who) == /\ last < MaxCommit
             /\ last' = last + 1
             /\ madeBy' = [madeBy EXCEPT ![last + 1] = who]

\* The reviews one call lists: the first page.
listPRReviews == { i \in 1 .. Len(reviews) : i <= PageSize }

\* Mutant: any commit's review of the round counts.
matching_AnySHA ==
    { i \in listPRReviews : /\ reviews[i].by = "chum"
                            /\ reviews[i].round = round
                            /\ reviews[i].verdict # "dismissed" }

\* findLatestMatchingReview: by this reviewer, for this head and this round,
\* not dismissed; the latest of them.
matching ==
    { i \in listPRReviews : /\ reviews[i].by = "chum"
                            /\ reviews[i].sha = known
                            /\ reviews[i].round = round
                            /\ reviews[i].verdict # "dismissed" }
findLatestMatchingReview ==
    reviews[CHOOSE i \in matching : \A j \in matching : j <= i]

\* Mutant: the verdict is posted again whenever it is asked for.
alreadySubmitted_Never == FALSE

\* SubmitReview is idempotent: there is one already.
alreadySubmitted == matching # {}

\* Mutant: exhausted rounds are resumed.
orphanReviewRecoverable_MaxRounds ==
    { "no_reviewer_activity", "reviewer_error", "review_submit_failed",
      "pr_info_failed", "worktree_failed", "max_rounds_reached" }

\* The close reasons a tick resumes.
orphanReviewRecoverable ==
    { "no_reviewer_activity", "reviewer_error", "review_submit_failed",
      "pr_info_failed", "worktree_failed" }

---------------------------------------------------------------------------
(* Starting and resuming.                                                  *)

\* AgentWorkflow: PRInfo as created, then the reviewer's login.
AgentStarts ==
    /\ phase = "open"
    /\ \/ GoTo("review") /\ Knows(1) /\ UNCHANGED << reason, faults >>
       \/ Fails /\ Close("pr_create_failed") /\ UNCHANGED << round, known >>
       \/ Fails /\ Close("reviewer_error") /\ Knows(1)
    /\ UNCHANGED << github, checkout, signal, remarks >>

\* A tick resumes the review of a parked task: ReviewWorkflow's GetPRInfo.
ReviewStarts ==
    /\ phase = "idle" /\ merged = 0
    /\ reason \in orphanReviewRecoverable
    /\ \/ GoTo("setup") /\ Knows(1) /\ UNCHANGED << reason, faults >>
       \/ Fails /\ Close("pr_info_failed") /\ UNCHANGED << round, known >>
    /\ UNCHANGED << github, checkout, signal, remarks >>

\* SetupWorktreeFromRef fetches everything and checks the known head out;
\* then the reviewer's login.
ReviewSetup ==
    /\ phase = "setup"
    /\ tracking' = head
    /\ \/ /\ local' = known /\ parent' = known
          /\ \/ GoTo("review") /\ UNCHANGED << reason, faults >>
             \/ Fails /\ Close("reviewer_error")
       \/ /\ Fails /\ Close("worktree_failed")
          /\ UNCHANGED << local, parent >>
    /\ UNCHANGED << github, round, known, signal, remarks >>

---------------------------------------------------------------------------
(* A round.                                                                *)

\* RunReviewActivity: a verdict; an unreadable one is REQUEST_CHANGES.
RunReview ==
    /\ phase = "review"
    /\ \/ /\ signal' \in { "approve", "changes" }
          /\ GoTo("guard")
          /\ UNCHANGED << reason, faults >>
       \/ Fails /\ Close("reviewer_error") /\ UNCHANGED signal
    /\ UNCHANGED << github, checkout, round, known, remarks >>

\* GuardReviewerCleanActivity.
GuardReviewerClean ==
    /\ phase = "guard"
    /\ \/ GoTo("submit") /\ UNCHANGED << reason, faults >>
       \/ Fails /\ Close("reviewer_modified_code")
    /\ UNCHANGED << github, checkout, round, known, signal, remarks >>

\* The review goes to whatever commit the branch is at by now.
PostReview ==
    /\ reviews' = Append(reviews, [ by |-> "chum", sha |-> head,
                                    round |-> round, verdict |-> signal ])
    /\ opinion' = [opinion EXCEPT ![head] = @ \cup { signal }]

\* SubmitReviewActivity.
SubmitReview ==
    /\ phase = "submit"
    /\ \/ /\ GoTo("check")
          /\ IF alreadySubmitted THEN UNCHANGED << reviews, opinion >>
                                 ELSE PostReview
          /\ UNCHANGED << reason, faults >>
       \/ /\ Fails /\ Close("review_submit_failed")
          /\ \/ UNCHANGED << reviews, opinion >>
             \/ ~alreadySubmitted /\ PostReview
    /\ signal' = "none"
    /\ UNCHANGED << branch, merged, checkout, round, known, remarks >>

\* CheckPRStateActivity and the loop's switch on its outcome.
CheckPRState ==
    /\ phase = "check"
    /\ \/ /\ matching # {}
          /\ findLatestMatchingReview.verdict = "approve"
          /\ GoTo("merge")
          /\ UNCHANGED << reason, faults >>
       \/ /\ matching # {}
          /\ findLatestMatchingReview.verdict = "changes"
          /\ IF round = MaxReviewRounds
             THEN Close("max_rounds_reached")
             ELSE GoTo("rework") /\ UNCHANGED reason
          /\ UNCHANGED faults
       \/ /\ matching = {}
          /\ Close("no_reviewer_activity")
          /\ UNCHANGED faults
       \/ Fails /\ Close("reviewer_error")
    /\ UNCHANGED << github, checkout, round, known, signal, remarks >>

---------------------------------------------------------------------------
(* Merging.                                                                *)

\* attemptMerge: gh merges the branch as it is, or refuses; gh may fail
\* although GitHub merged.
attemptMerge ==
    \/ merged' = head /\ GoTo("merged") /\ UNCHANGED << reason, faults >>
    \/ /\ \E sub \in { "merge_blocked", "merge_failed" } : Close(sub)
       /\ UNCHANGED << merged, faults >>
    \/ merged' = head /\ Fails /\ Close("merge_failed")

\* MergePRActivity on CLEAN, on BLOCKED, on BEHIND and on the other states.
MergePR ==
    /\ phase = "merge"
    /\ \/ attemptMerge /\ UNCHANGED branch
       \/ /\ \E sub \in { "merge_blocked", "checks_pending_timeout" } :
               Close(sub)
          /\ UNCHANGED << merged, branch, faults >>
       \/ Fails /\ Close("merge_failed") /\ UNCHANGED << merged, branch >>
       \/ /\ GoTo("updated")
          /\ Adds("update")
          /\ head' = last + 1
          /\ UNCHANGED << merged, reason, faults >>
    /\ UNCHANGED << reviews, opinion, checkout, round, known, signal,
                    remarks >>

\* The branch was updated from its base; its state is read again.
MergeUpdated ==
    /\ phase = "updated"
    /\ \/ attemptMerge
       \/ /\ \E sub \in { "merge_blocked", "checks_pending_timeout" } :
               Close(sub)
          /\ UNCHANGED << merged, faults >>
    /\ UNCHANGED << branch, reviews, opinion, checkout, round, known, signal,
                    remarks >>

CloseMerged ==
    /\ phase = "merged"
    /\ Close("completed")
    /\ UNCHANGED << github, checkout, round, known, signal, remarks, faults >>

\* Mutant: only the tasks whose review would be resumed are asked about.
mergedListed_Recoverable == reason \in orphanReviewRecoverable

\* ScanOrphanedReviewsActivity asks GitHub about every needs_review task whose
\* error_log names a pull request; dod_failed is a status of its own.
mergedListed ==
    reason \notin { "none", "lost", "pr_create_failed", "completed",
                    "dod_failed" }

\* The scan completes a parked task whose pull request is merged.
CompleteMerged ==
    /\ phase = "idle" /\ merged # 0
    /\ mergedListed
    /\ Close("completed")
    /\ UNCHANGED << github, checkout, round, known, signal, remarks, faults >>

---------------------------------------------------------------------------
(* Rework.                                                                 *)

\* The agent runs again on the feedback, and the definition of done is
\* checked; it may leave nothing to commit.
Rework ==
    /\ phase = "rework"
    /\ \/ /\ GoTo("push")
          /\ \/ UNCHANGED << local, parent, madeBy, last >>
             \/ Adds("agent") /\ parent' = local /\ local' = last + 1
          /\ UNCHANGED << reason, faults >>
       \/ /\ \E sub \in { "exec_failed", "dod_error", "dod_failed" } :
               Fails /\ Close(sub)
          /\ UNCHANGED << local, parent, madeBy, last >>
    /\ UNCHANGED << head, merged, reviews, opinion, tracking, round, known,
                    signal, remarks >>

\* git push, and when it is not a fast-forward, --force-with-lease against
\* the tracking branch, which every worktree of the repository shares.
Push ==
    /\ phase = "push"
    /\ \/ /\ head \in { local, parent } \/ tracking = head
          /\ head' = local /\ tracking' = local /\ parent' = local
          /\ GoTo("refresh")
          /\ UNCHANGED << reason, faults >>
       \/ /\ head \notin { local, parent } /\ tracking # head
          /\ Close("push_failed")
          /\ UNCHANGED << head, parent, tracking, faults >>
       \/ /\ Fails /\ Close("push_failed")
          /\ UNCHANGED << head, parent, tracking >>
    /\ UNCHANGED << madeBy, last, merged, reviews, opinion, local, round,
                    known, signal, remarks >>

\* GetPRInfoActivity after the push, and the next round.
RefreshPRInfo ==
    /\ phase = "refresh"
    /\ \/ GoTo("review") /\ Knows(round + 1) /\ UNCHANGED << reason, faults >>
       \/ Fails /\ Close("reviewer_error") /\ UNCHANGED << round, known >>
    /\ UNCHANGED << github, checkout, signal, remarks >>

\* The execution dies, or its close fails: the zombie scan makes the task
\* ready, or parks it with the error_log it had while the system is paused.
Dies ==
    /\ phase # "idle"
    /\ Fails
    /\ GoTo("idle")
    /\ \/ reason' = "lost"
       \/ UNCHANGED reason
    /\ UNCHANGED << github, checkout, round, known, signal, remarks >>

---------------------------------------------------------------------------
(* Other people, and other tasks.                                          *)

\* Somebody pushes a commit to the branch.
PersonPushes ==
    /\ "push" \in People /\ merged = 0
    /\ Adds("person")
    /\ head' = last + 1
    /\ UNCHANGED << merged, reviews, opinion, checkout, loop, remarks,
                    faults >>

PersonReviews ==
    /\ "review" \in People /\ remarks < MaxRemarks
    /\ \E v \in { "approve", "changes", "comment" } :
         reviews' = Append(reviews, [ by |-> "person", sha |-> head,
                                      round |-> 0, verdict |-> v ])
    /\ remarks' = remarks + 1
    /\ UNCHANGED << branch, merged, opinion, checkout, loop, faults >>

PersonDismisses ==
    /\ "dismiss" \in People /\ remarks < MaxRemarks
    /\ \E i \in 1 .. Len(reviews) :
         /\ reviews[i].verdict \in { "approve", "changes" }
         /\ reviews' = [reviews EXCEPT ![i].verdict = "dismissed"]
    /\ remarks' = remarks + 1
    /\ UNCHANGED << branch, merged, opinion, checkout, loop, faults >>

\* Another task's review sets its worktree up in the same repository.
OtherTaskFetches ==
    /\ "fetch" \in People
    /\ tracking' = head
    /\ UNCHANGED << github, local, parent, loop, remarks, faults >>

---------------------------------------------------------------------------
LoopStep ==
    \/ AgentStarts
    \/ ReviewStarts
    \/ ReviewSetup
    \/ RunReview
    \/ GuardReviewerClean
    \/ SubmitReview
    \/ CheckPRState
    \/ MergePR
    \/ MergeUpdated
    \/ CloseMerged
    \/ CompleteMerged
    \/ Rework
    \/ Push
    \/ RefreshPRInfo

PeopleStep ==
    \/ PersonPushes
    \/ PersonReviews
    \/ PersonDismisses
    \/ OtherTaskFetches

Next == LoopStep \/ Dies \/ PeopleStep

Spec == Init /\ [][Next]_vars

\* Temporal carries the loop on, and ticks keep resuming parked reviews.
FairSpec == Spec /\ WF_vars(LoopStep)

---------------------------------------------------------------------------
(* Properties.                                                             *)

\* No commit of the agent is merged unless the reviewer approved that very
\* commit: an approval of an earlier commit, or one that went to another
\* commit because the branch moved, never carries over to the rework.
MergedWasApproved ==
    merged # 0 /\ madeBy[merged] = "agent" => "approve" \in opinion[merged]

\* The reviewer has at most one standing review for a commit and a round,
\* however often the submission is tried again.
Standing(i) == /\ reviews[i].by = "chum"
               /\ reviews[i].verdict # "dismissed"
OneVerdict ==
    \A i, j \in 1 .. Len(reviews) :
        (/\ Standing(i) /\ Standing(j)
         /\ reviews[i].sha = reviews[j].sha
         /\ reviews[i].round = reviews[j].round) => i = j

\* A review that is under way or can be resumed comes to an end, once calls
\* stop failing and people stop interfering.
ReviewSettles ==
    <>[](phase = "idle" /\ (reason \notin orphanReviewRecoverable
                              \/ merged # 0))

\* A merge is recorded in the end, whether gh reported it or not and whether
\* the execution lived to close the task, unless the zombie scan forgot about
\* the pull request.
MergeRecorded ==
    merged # 0 ~> phase = "idle" /\ reason \in { "completed", "lost", "none" }
=============================================================================
