-------------------------- MODULE ReviewLoopProofs --------------------------
(***************************************************************************)
(* Proofs about ReviewLoop, for every number of rounds, every page size,   *)
(* everything people may do, and every bound.                              *)
(***************************************************************************)
EXTENDS ReviewLoop, WellFoundedInduction, TLAPS

USE DEF branch, github, checkout, loop

---------------------------------------------------------------------------
(* Type correctness.                                                       *)

\* What the types rest on: a verdict that is about to be submitted has been
\* read, and a rework is only begun when there is a round left for it.
VerdictRead == phase \in { "guard", "submit" } => signal # "none"
RoundLeft == phase \in { "rework", "push", "refresh" }
                => round < MaxReviewRounds

TypeInv == TypeOK /\ VerdictRead /\ RoundLeft

LEMMA TypeInit == Init => TypeInv
<1> SUFFICES ASSUME Init PROVE TypeInv
  OBVIOUS
<1> USE BoundAssumption
<1>1. reviews \in Seq(Review)
  BY DEF Init
<1>2. madeBy \in [Commit -> Author]
  BY DEF Init, Author
<1>3. opinion \in [Commit -> SUBSET { "approve", "changes" }]
  BY DEF Init
<1> QED
  BY <1>1, <1>2, <1>3 DEF Init, TypeInv, TypeOK, VerdictRead, RoundLeft,
     Commit, Phase, SubReason

\* Starting, resuming and setting up keep the types.
LEMMA TypeStarting ==
    ASSUME TypeInv, AgentStarts \/ ReviewStarts \/ ReviewSetup
    PROVE  TypeInv'
<1> USE BoundAssumption DEF TypeInv, TypeOK, VerdictRead, RoundLeft, Phase,
        SubReason, Commit, Close, GoTo, Fails
<1>1. CASE AgentStarts
  BY <1>1 DEF AgentStarts, Knows
<1>2. CASE ReviewStarts
  BY <1>2 DEF ReviewStarts, Knows
<1>3. CASE ReviewSetup
  BY <1>3 DEF ReviewSetup
<1> QED
  BY <1>1, <1>2, <1>3

\* Posting the verdict keeps the reviews well-typed.
LEMMA TypePost ==
    ASSUME TypeInv, phase = "submit", PostReview
    PROVE  /\ reviews' \in Seq(Review)
           /\ opinion' \in [Commit -> SUBSET { "approve", "changes" }]
<1>1. [ by |-> "chum", sha |-> head, round |-> round, verdict |-> signal ]
        \in Review
  BY BoundAssumption DEF TypeInv, TypeOK, VerdictRead, Review, Verdict
<1>2. reviews' \in Seq(Review)
  BY <1>1 DEF TypeInv, TypeOK, PostReview
<1>3. opinion' \in [Commit -> SUBSET { "approve", "changes" }]
  BY DEF TypeInv, TypeOK, VerdictRead, PostReview
<1> QED
  BY <1>2, <1>3

\* The steps of a round keep the types.
LEMMA TypeRound ==
    ASSUME TypeInv,
           RunReview \/ GuardReviewerClean \/ SubmitReview \/ CheckPRState
    PROVE  TypeInv'
<1> USE BoundAssumption DEF TypeInv, VerdictRead, RoundLeft, Phase,
        SubReason, Commit, Close, GoTo, Fails
<1>1. CASE RunReview
  BY <1>1 DEF RunReview, TypeOK
<1>2. CASE GuardReviewerClean
  BY <1>2 DEF GuardReviewerClean, TypeOK
<1>3. CASE SubmitReview
  <2>1. /\ reviews' \in Seq(Review)
        /\ opinion' \in [Commit -> SUBSET { "approve", "changes" }]
    <3>1. CASE PostReview
      BY <1>3, <3>1, TypePost DEF SubmitReview
    <3>2. CASE UNCHANGED << reviews, opinion >>
      BY <3>2 DEF TypeOK
    <3> QED
      BY <1>3, <3>1, <3>2 DEF SubmitReview
  <2> QED
    BY <1>3, <2>1 DEF SubmitReview, TypeOK
<1>4. CASE CheckPRState
  BY <1>4 DEF CheckPRState, TypeOK
<1> QED
  BY <1>1, <1>2, <1>3, <1>4

\* Merging keeps the types.
LEMMA TypeMerging ==
    ASSUME TypeInv, MergePR \/ MergeUpdated \/ CloseMerged \/ CompleteMerged
    PROVE  TypeInv'
<1> USE BoundAssumption DEF TypeInv, TypeOK, VerdictRead, RoundLeft, Phase,
        SubReason, Commit, Close, GoTo, Fails
<1>1. CASE MergePR
  <2>1. CASE GoTo("updated") /\ Adds("update") /\ head' = last + 1
             /\ UNCHANGED << merged, reason, faults >>
    BY <1>1, <2>1 DEF MergePR, Adds, Author
  <2>2. CASE attemptMerge /\ UNCHANGED branch
    BY <1>1, <2>2 DEF MergePR, attemptMerge
  <2>3. CASE UNCHANGED << merged, branch >> /\ phase' = "idle"
    BY <1>1, <2>3 DEF MergePR, attemptMerge
  <2> QED
    BY <1>1, <2>1, <2>2, <2>3 DEF MergePR
<1>2. CASE MergeUpdated
  BY <1>2 DEF MergeUpdated, attemptMerge
<1>3. CASE CloseMerged
  BY <1>3 DEF CloseMerged
<1>4. CASE CompleteMerged
  BY <1>4 DEF CompleteMerged
<1> QED
  BY <1>1, <1>2, <1>3, <1>4

\* Rework, its push and the death of an execution keep the types.
LEMMA TypeRework ==
    ASSUME TypeInv, Rework \/ Push \/ RefreshPRInfo \/ Dies
    PROVE  TypeInv'
<1> USE BoundAssumption DEF TypeInv, TypeOK, VerdictRead, RoundLeft, Phase,
        SubReason, Commit, Close, GoTo, Fails
<1>1. CASE Rework
  BY <1>1 DEF Rework, Adds, Author
<1>2. CASE Push
  BY <1>2 DEF Push
<1>3. CASE RefreshPRInfo
  BY <1>3 DEF RefreshPRInfo, Knows
<1>4. CASE Dies
  BY <1>4 DEF Dies
<1> QED
  BY <1>1, <1>2, <1>3, <1>4

\* What people and other tasks do keeps the types.
LEMMA TypePeople ==
    ASSUME TypeInv, PeopleStep
    PROVE  TypeInv'
<1> USE BoundAssumption DEF TypeInv, VerdictRead, RoundLeft
<1>1. CASE PersonPushes
  BY <1>1 DEF PersonPushes, Adds, Author, Commit, TypeOK
<1>2. CASE PersonReviews
  <2>1. PICK v \in { "approve", "changes", "comment" } :
          reviews' = Append(reviews, [ by |-> "person", sha |-> head,
                                       round |-> 0, verdict |-> v ])
    BY <1>2 DEF PersonReviews
  <2>2. [ by |-> "person", sha |-> head, round |-> 0, verdict |-> v ]
          \in Review
    BY DEF TypeOK, Review, Verdict
  <2>3. reviews' \in Seq(Review)
    BY <2>1, <2>2 DEF TypeOK
  <2> QED
    BY <1>2, <2>3 DEF PersonReviews, TypeOK
<1>3. CASE PersonDismisses
  <2>1. PICK i \in 1 .. Len(reviews) :
          reviews' = [reviews EXCEPT ![i].verdict = "dismissed"]
    BY <1>3 DEF PersonDismisses
  <2>2. reviews \in Seq(Review) /\ reviews[i] \in Review
    BY DEF TypeOK
  <2>3. [reviews[i] EXCEPT !.verdict = "dismissed"] \in Review
    BY <2>2 DEF Review, Verdict
  <2>4. reviews' \in Seq(Review)
    BY <2>1, <2>2, <2>3
  <2> QED
    BY <1>3, <2>4 DEF PersonDismisses, TypeOK
<1>4. CASE OtherTaskFetches
  BY <1>4 DEF OtherTaskFetches, TypeOK
<1> QED
  BY <1>1, <1>2, <1>3, <1>4 DEF PeopleStep

LEMMA TypeStep == TypeInv /\ [Next]_vars => TypeInv'
<1> SUFFICES ASSUME TypeInv, [Next]_vars PROVE TypeInv'
  OBVIOUS
<1>1. CASE LoopStep
  BY <1>1, TypeStarting, TypeRound, TypeMerging, TypeRework DEF LoopStep
<1>2. CASE Dies
  BY <1>2, TypeRework
<1>3. CASE PeopleStep
  BY <1>3, TypePeople
<1>4. CASE UNCHANGED vars
  BY <1>4 DEF vars, TypeInv, TypeOK, VerdictRead, RoundLeft
<1> QED
  BY <1>1, <1>2, <1>3, <1>4 DEF Next

LEMMA TypeInvariant == Spec => []TypeInv
  BY TypeInit, TypeStep, PTL DEF Spec

\* Every variable keeps its type; in particular the rounds of the loop, the
\* resumed ones included, never exceed general.max_review_rounds.
THEOREM TypeCorrect == Spec => []TypeOK
<1>1. TypeInv => TypeOK
  BY DEF TypeInv
<1> QED
  BY TypeInvariant, <1>1, PTL

---------------------------------------------------------------------------
(* What is merged was approved.                                            *)

\* Commits that the loop deals with have been made.
Made == \A c \in { head, local, known, merged } : c <= last

\* A review that stands on GitHub is one the reviewer gave of that commit.
VerdictsKept ==
    \A i \in 1 .. Len(reviews) :
        (reviews[i].by = "chum" /\ reviews[i].verdict # "dismissed")
            => reviews[i].verdict \in opinion[reviews[i].sha]

\* From the reading of PRInfo to the merge the branch is at the commit that
\* was read, unless somebody else's commit is on top.
Reviewing == phase \in { "setup", "review", "guard", "submit", "check",
                         "merge", "updated" }
HeadKnown == (Reviewing /\ madeBy[head] = "agent") => head = known

\* The loop merges only after it has seen an approval of that commit.
ApprovedToMerge ==
    phase \in { "merge", "updated" } => "approve" \in opinion[known]

MergeInv == /\ Made
            /\ VerdictsKept
            /\ HeadKnown
            /\ ApprovedToMerge
            /\ MergedWasApproved

LEMMA MergeInit == Init => MergeInv
  BY BoundAssumption DEF Init, MergeInv, Made, VerdictsKept, HeadKnown,
     Reviewing, ApprovedToMerge, MergedWasApproved, Commit

\* A nonempty set of positions has a last one: the loop's choice is a matching
\* review.
LEMMA LatestMatches ==
    ASSUME TypeOK, matching # {}
    PROVE  \E i \in matching : findLatestMatchingReview = reviews[i]
<1> DEFINE n == Len(reviews)
           Back == { n - i : i \in matching }
<1>1. n \in Nat /\ matching \subseteq 1 .. n
  BY DEF TypeOK, matching, listPRReviews
<1>2. Back \subseteq Nat /\ Back # {}
  BY <1>1
<1>3. PICK b \in Back : \A c \in Back : ~ (<< c, b >> \in OpToRel(<, Nat))
  <2> HIDE DEF Back
  <2> QED
    BY <1>2, NatLessThanWellFounded, WFMin
<1>4. \A c \in Back : b <= c
  <2> HIDE DEF Back
  <2> SUFFICES ASSUME NEW c \in Back PROVE b <= c
    OBVIOUS
  <2>1. c \in Nat /\ b \in Nat
    BY <1>2
  <2>2. ~ (c < b)
    BY <1>3, <2>1 DEF OpToRel
  <2> QED
    BY <2>1, <2>2
<1>5. PICK i \in matching : b = n - i
  OBVIOUS
<1>6. ASSUME NEW j \in matching PROVE j <= i
  <2>1. b <= n - j
    BY <1>4
  <2>2. i \in 1 .. n /\ j \in 1 .. n
    BY <1>1
  <2> HIDE DEF n
  <2> QED
    BY <1>1, <1>5, <2>1, <2>2
<1>7. (CHOOSE k \in matching : \A j \in matching : j <= k) \in matching
  BY <1>6
<1> QED
  BY <1>7 DEF findLatestMatchingReview

\* Most steps neither move the branch nor touch a review, and come no nearer
\* to the merge.
Quiet == /\ UNCHANGED << github, known >>
         /\ local' \in { local, known }
         /\ Reviewing' => Reviewing
         /\ phase' \in { "merge", "updated" } => phase \in { "merge", "updated" }

LEMMA QuietKeeps ==
    ASSUME MergeInv, Quiet
    PROVE  MergeInv'
<1>1. Made'
  BY DEF MergeInv, Made, Quiet
<1>2. VerdictsKept'
  BY DEF MergeInv, VerdictsKept, Quiet
<1>3. HeadKnown' /\ ApprovedToMerge' /\ MergedWasApproved'
  BY DEF MergeInv, HeadKnown, ApprovedToMerge, MergedWasApproved, Quiet
<1> QED
  BY <1>1, <1>2, <1>3 DEF MergeInv

\* The loop starts, or goes on after a push, with the head it has just read.
LEMMA MergeStarting ==
    ASSUME MergeInv, AgentStarts \/ ReviewStarts \/ RefreshPRInfo
    PROVE  MergeInv'
<1> USE DEF AgentStarts, ReviewStarts, RefreshPRInfo, Knows, Close, GoTo
<1>1. UNCHANGED << github, checkout >>
  OBVIOUS
<1>2. phase' \notin { "merge", "updated" }
  OBVIOUS
<1>3. known' = head \/ (known' = known /\ ~ Reviewing')
  BY DEF Reviewing
<1>4. Made' /\ VerdictsKept'
  BY <1>1, <1>3 DEF MergeInv, Made, VerdictsKept
<1>5. HeadKnown' /\ ApprovedToMerge' /\ MergedWasApproved'
  BY <1>1, <1>2, <1>3 DEF MergeInv, HeadKnown, ApprovedToMerge,
     MergedWasApproved
<1> QED
  BY <1>4, <1>5 DEF MergeInv

\* The verdict that is posted is recorded for the commit it is posted on.
LEMMA MergeSubmit ==
    ASSUME TypeInv, MergeInv, SubmitReview
    PROVE  MergeInv'
<1>1. CASE UNCHANGED << reviews, opinion >>
  <2>1. Quiet
    BY <1>1 DEF SubmitReview, Quiet, Reviewing, GoTo, Close
  <2> QED
    BY <2>1, QuietKeeps
<1>2. CASE PostReview
  <2>1. /\ reviews \in Seq(Review)
        /\ opinion \in [Commit -> SUBSET { "approve", "changes" }]
        /\ head \in Commit
    BY DEF TypeInv, TypeOK
  <2>2. UNCHANGED << branch, merged, checkout, known >>
    BY DEF SubmitReview
  <2>3. \A c \in Commit : opinion[c] \subseteq opinion'[c]
    BY <1>2, <2>1 DEF PostReview
  <2>4. Made'
    BY <2>2 DEF MergeInv, Made
  <2>5. VerdictsKept'
    <3> DEFINE new == [ by |-> "chum", sha |-> head, round |-> round,
                        verdict |-> signal ]
    <3>1. reviews' = Append(reviews, new)
      BY <1>2 DEF PostReview
    <3>2. signal \in opinion'[head]
      BY <1>2, <2>1 DEF PostReview
    <3> SUFFICES ASSUME NEW i \in 1 .. Len(reviews'),
                        reviews'[i].by = "chum",
                        reviews'[i].verdict # "dismissed"
                 PROVE  reviews'[i].verdict \in opinion'[reviews'[i].sha]
      BY DEF VerdictsKept
    <3>3. CASE i = Len(reviews) + 1
      <4>1. reviews'[i] = new
        BY <2>1, <3>1, <3>3
      <4> QED
        BY <3>2, <4>1
    <3>4. CASE i \in 1 .. Len(reviews)
      <4>1. reviews'[i] = reviews[i] /\ reviews[i] \in Review
        BY <2>1, <3>1, <3>4
      <4>2. reviews[i].verdict \in opinion[reviews[i].sha]
        BY <3>4, <4>1 DEF MergeInv, VerdictsKept
      <4>3. reviews[i].sha \in Commit
        BY <4>1 DEF Review
      <4> QED
        BY <2>3, <4>1, <4>2, <4>3
    <3>5. i \in 1 .. Len(reviews) \/ i = Len(reviews) + 1
      <4>1. Len(reviews') = Len(reviews) + 1 /\ Len(reviews) \in Nat
        BY <2>1, <3>1
      <4> QED
        BY <4>1
    <3> QED
      BY <3>3, <3>4, <3>5
  <2>6. HeadKnown' /\ ApprovedToMerge'
    BY <2>2 DEF SubmitReview, MergeInv, HeadKnown, ApprovedToMerge, Reviewing,
       GoTo, Close
  <2>7. MergedWasApproved'
    <3>1. merged # 0 => merged \in Commit
      BY DEF TypeInv, TypeOK
    <3> QED
      BY <2>2, <2>3, <3>1 DEF MergeInv, MergedWasApproved
  <2> QED
    BY <2>4, <2>5, <2>6, <2>7 DEF MergeInv
<1> QED
  BY <1>1, <1>2 DEF SubmitReview

\* An approval is what the merge is entered with.
LEMMA MergeCheck ==
    ASSUME TypeInv, MergeInv, CheckPRState
    PROVE  MergeInv'
<1>1. CASE phase' = "merge"
  <2>1. /\ matching # {}
        /\ findLatestMatchingReview.verdict = "approve"
        /\ phase = "check"
    BY <1>1 DEF CheckPRState, Close, GoTo
  <2>2. PICK i \in matching : findLatestMatchingReview = reviews[i]
    BY <2>1, LatestMatches DEF TypeInv
  <2>3. /\ i \in 1 .. Len(reviews)
        /\ reviews[i].by = "chum"
        /\ reviews[i].sha = known
        /\ reviews[i].verdict = "approve"
    BY <2>1, <2>2 DEF matching, listPRReviews
  <2>4. "approve" \in opinion[known]
    BY <2>3 DEF MergeInv, VerdictsKept
  <2>5. UNCHANGED << github, checkout, known >>
    BY DEF CheckPRState
  <2>6. Made' /\ VerdictsKept'
    BY <2>5 DEF MergeInv, Made, VerdictsKept
  <2>7. HeadKnown' /\ ApprovedToMerge' /\ MergedWasApproved'
    BY <2>1, <2>4, <2>5 DEF MergeInv, HeadKnown, ApprovedToMerge,
       MergedWasApproved, Reviewing
  <2> QED
    BY <2>6, <2>7 DEF MergeInv
<1>2. CASE phase' # "merge"
  <2>1. Quiet
    BY <1>2 DEF CheckPRState, Quiet, Reviewing, GoTo, Close
  <2> QED
    BY <2>1, QuietKeeps
<1> QED
  BY <1>1, <1>2

\* A commit somebody else adds on top of the branch.
LEMMA MergeOthersCommit ==
    ASSUME TypeInv, MergeInv, NEW who \in { "update", "person" }, Adds(who),
           head' = last + 1,
           UNCHANGED << merged, reviews, opinion, checkout, known >>,
           phase' \in { "merge", "updated" } => phase \in { "merge", "updated" }
    PROVE  MergeInv'
<1>1. /\ last \in Nat /\ last + 1 \in Commit /\ last' = last + 1
      /\ madeBy \in [Commit -> Author]
      /\ madeBy' = [madeBy EXCEPT ![last + 1] = who]
  BY BoundAssumption DEF TypeInv, TypeOK, Commit, Adds
<1>2. /\ head \in Nat /\ local \in Nat /\ known \in Nat /\ merged \in Nat
  BY DEF TypeInv, TypeOK, Commit
<1>3. Made'
  BY <1>1, <1>2 DEF MergeInv, Made
<1>4. VerdictsKept'
  BY DEF MergeInv, VerdictsKept
<1>5. madeBy'[head'] # "agent"
  BY <1>1
<1>6. HeadKnown' /\ ApprovedToMerge'
  BY <1>5 DEF MergeInv, HeadKnown, ApprovedToMerge
<1>7. MergedWasApproved'
  <2>1. merged # last + 1
    BY <1>1, <1>2 DEF MergeInv, Made
  <2>2. merged # 0 => merged \in Commit
    BY DEF TypeInv, TypeOK
  <2>3. merged # 0 => madeBy'[merged] = madeBy[merged]
    BY <1>1, <2>1, <2>2
  <2> QED
    BY <2>3 DEF MergeInv, MergedWasApproved
<1> QED
  BY <1>3, <1>4, <1>6, <1>7 DEF MergeInv

\* gh merges the head as it is: the commit that was read, or somebody else's.
LEMMA MergeAttempt ==
    ASSUME TypeInv, MergeInv, phase \in { "merge", "updated" }, attemptMerge,
           UNCHANGED << branch, reviews, opinion, checkout, known >>
    PROVE  MergeInv'
<1>1. CASE merged' = head
  <2>1. Made' /\ VerdictsKept'
    BY <1>1 DEF MergeInv, Made, VerdictsKept
  <2>2. phase' \notin { "merge", "updated" } /\ ~ Reviewing'
    BY DEF attemptMerge, GoTo, Close, Reviewing
  <2>3. MergedWasApproved'
    BY <1>1 DEF MergeInv, HeadKnown, ApprovedToMerge, MergedWasApproved,
       Reviewing
  <2> QED
    BY <2>1, <2>2, <2>3 DEF MergeInv, HeadKnown, ApprovedToMerge
<1>2. CASE merged' = merged
  <2>1. Quiet
    BY <1>2 DEF Quiet, Reviewing, attemptMerge, GoTo, Close
  <2> QED
    BY <2>1, QuietKeeps
<1> QED
  BY <1>1, <1>2 DEF attemptMerge

LEMMA MergeMerging ==
    ASSUME TypeInv, MergeInv, MergePR \/ MergeUpdated
    PROVE  MergeInv'
<1>1. CASE MergePR
  <2>1. CASE attemptMerge /\ UNCHANGED branch
    BY <1>1, <2>1, MergeAttempt DEF MergePR
  <2>2. CASE UNCHANGED << merged, branch >> /\ phase' = "idle"
    <3>1. Quiet
      BY <1>1, <2>2 DEF MergePR, Quiet, Reviewing
    <3> QED
      BY <3>1, QuietKeeps
  <2>3. CASE /\ GoTo("updated") /\ Adds("update") /\ head' = last + 1
             /\ UNCHANGED << merged, reason, faults >>
    BY <1>1, <2>3, MergeOthersCommit DEF MergePR
  <2> QED
    BY <1>1, <2>1, <2>2, <2>3 DEF MergePR, Close
<1>2. CASE MergeUpdated
  <2>1. CASE attemptMerge
    BY <1>2, <2>1, MergeAttempt DEF MergeUpdated
  <2>2. CASE UNCHANGED merged /\ phase' = "idle"
    <3>1. Quiet
      BY <1>2, <2>2 DEF MergeUpdated, Quiet, Reviewing
    <3> QED
      BY <3>1, QuietKeeps
  <2> QED
    BY <1>2, <2>1, <2>2 DEF MergeUpdated, Close
<1> QED
  BY <1>1, <1>2

\* A rework makes a new commit, so what was merged is what it was; a push ends
\* what was known of the head.
LEMMA MergeRework ==
    ASSUME TypeInv, MergeInv, Rework \/ Push
    PROVE  MergeInv'
<1>1. /\ ~ Reviewing' /\ phase' \notin { "merge", "updated" }
      /\ UNCHANGED << merged, reviews, opinion, known >>
  BY DEF Rework, Push, GoTo, Close, Reviewing
<1>2. VerdictsKept' /\ HeadKnown' /\ ApprovedToMerge'
  BY <1>1 DEF MergeInv, VerdictsKept, HeadKnown, ApprovedToMerge
<1>3. Made' /\ MergedWasApproved'
  <2>1. /\ head \in Nat /\ local \in Nat /\ known \in Nat /\ merged \in Nat
        /\ last \in Nat /\ madeBy \in [Commit -> Author]
        /\ merged # 0 => merged \in Commit
    BY DEF TypeInv, TypeOK, Commit
  <2>2. CASE Adds("agent") /\ head' = head /\ local' = last + 1
    <3>1. Made'
      BY <1>1, <2>1, <2>2 DEF MergeInv, Made, Adds
    <3>2. merged # last + 1
      BY <2>1 DEF MergeInv, Made
    <3>3. merged # 0 => madeBy'[merged] = madeBy[merged]
      BY <2>1, <2>2, <3>2 DEF Adds
    <3> QED
      BY <1>1, <3>1, <3>3 DEF MergeInv, MergedWasApproved
  <2>3. CASE UNCHANGED << madeBy, last, local >> /\ head' \in { head, local }
    BY <1>1, <2>3 DEF MergeInv, Made, MergedWasApproved
  <2> QED
    BY <2>2, <2>3 DEF Rework, Push
<1> QED
  BY <1>2, <1>3 DEF MergeInv

\* People's reviews are theirs, and a dismissal only takes one away.
LEMMA MergePeople ==
    ASSUME TypeInv, MergeInv, PeopleStep
    PROVE  MergeInv'
<1>0. reviews \in Seq(Review)
  BY DEF TypeInv, TypeOK
<1>1. CASE PersonPushes
  BY <1>1, MergeOthersCommit DEF PersonPushes
<1>2. CASE PersonReviews
  <2>1. PICK v \in { "approve", "changes", "comment" } :
          reviews' = Append(reviews, [ by |-> "person", sha |-> head,
                                       round |-> 0, verdict |-> v ])
    BY <1>2 DEF PersonReviews
  <2>2. UNCHANGED << branch, merged, opinion, checkout, loop >>
    BY <1>2 DEF PersonReviews
  <2>3. VerdictsKept'
    <3> SUFFICES ASSUME NEW i \in 1 .. Len(reviews'),
                        reviews'[i].by = "chum",
                        reviews'[i].verdict # "dismissed"
                 PROVE  reviews'[i].verdict \in opinion'[reviews'[i].sha]
      BY DEF VerdictsKept
    <3>1. i # Len(reviews) + 1
      BY <1>0, <2>1
    <3>2. i \in 1 .. Len(reviews) /\ reviews'[i] = reviews[i]
      BY <1>0, <2>1, <3>1
    <3> QED
      BY <2>2, <3>2 DEF MergeInv, VerdictsKept
  <2>4. Made' /\ HeadKnown' /\ ApprovedToMerge' /\ MergedWasApproved'
    BY <2>2 DEF MergeInv, Made, HeadKnown, ApprovedToMerge, Reviewing,
       MergedWasApproved
  <2> QED
    BY <2>3, <2>4 DEF MergeInv
<1>3. CASE PersonDismisses
  <2>1. PICK k \in 1 .. Len(reviews) :
          reviews' = [reviews EXCEPT ![k].verdict = "dismissed"]
    BY <1>3 DEF PersonDismisses
  <2>2. UNCHANGED << branch, merged, opinion, checkout, loop >>
    BY <1>3 DEF PersonDismisses
  <2>3. VerdictsKept'
    <3> SUFFICES ASSUME NEW i \in 1 .. Len(reviews'),
                        reviews'[i].by = "chum",
                        reviews'[i].verdict # "dismissed"
                 PROVE  reviews'[i].verdict \in opinion'[reviews'[i].sha]
      BY DEF VerdictsKept
    <3>1. i \in 1 .. Len(reviews)
      BY <1>0, <2>1
    <3>2. i # k
      <4>1. reviews[k] \in Review
        BY <1>0
      <4>2. [reviews[k] EXCEPT !.verdict = "dismissed"].verdict = "dismissed"
        BY <4>1 DEF Review
      <4> QED
        BY <1>0, <2>1, <4>2
    <3>3. reviews'[i] = reviews[i]
      BY <1>0, <2>1, <3>1, <3>2
    <3> QED
      BY <2>2, <3>1, <3>3 DEF MergeInv, VerdictsKept
  <2>4. Made' /\ HeadKnown' /\ ApprovedToMerge' /\ MergedWasApproved'
    BY <2>2 DEF MergeInv, Made, HeadKnown, ApprovedToMerge, Reviewing,
       MergedWasApproved
  <2> QED
    BY <2>3, <2>4 DEF MergeInv
<1>4. CASE OtherTaskFetches
  <2>1. Quiet
    BY <1>4 DEF OtherTaskFetches, Quiet, Reviewing
  <2> QED
    BY <2>1, QuietKeeps
<1> QED
  BY <1>1, <1>2, <1>3, <1>4 DEF PeopleStep

LEMMA MergeQuiet ==
    ASSUME MergeInv,
           \/ ReviewSetup \/ RunReview \/ GuardReviewerClean
           \/ CloseMerged \/ CompleteMerged \/ Dies
           \/ UNCHANGED vars
    PROVE  MergeInv'
<1>1. Quiet
  BY DEF ReviewSetup, RunReview, GuardReviewerClean, CloseMerged,
     CompleteMerged, Dies, vars, Quiet, Reviewing, GoTo, Close
<1> QED
  BY <1>1, QuietKeeps

LEMMA MergeStep == TypeInv /\ MergeInv /\ [Next]_vars => MergeInv'
<1> SUFFICES ASSUME TypeInv, MergeInv, [Next]_vars PROVE MergeInv'
  OBVIOUS
<1>1. CASE LoopStep
  BY <1>1, MergeStarting, MergeSubmit, MergeCheck, MergeMerging, MergeRework,
     MergeQuiet DEF LoopStep
<1>2. CASE PeopleStep
  BY <1>2, MergePeople
<1>3. CASE Dies \/ UNCHANGED vars
  BY <1>3, MergeQuiet
<1> QED
  BY <1>1, <1>2, <1>3 DEF Next

\* No commit of the agent is merged that the reviewer did not approve, whatever
\* other people push, review and dismiss, whatever fails and dies, however
\* often the review is resumed and however many reviews GitHub lists.
THEOREM MergesAreApproved == Spec => []MergedWasApproved
<1>1. MergeInv => MergedWasApproved
  BY DEF MergeInv
<1> QED
  BY TypeInvariant, MergeInit, MergeStep, <1>1, PTL DEF Spec
---------------------------------------------------------------------------
(* The reviewer's verdict of a commit and a round is posted once.          *)

\* Every review is of a commit that has been made.
ReviewsMade == \A i \in 1 .. Len(reviews) : reviews[i].sha <= last

\* While the loop is on its way from reading the head to posting the verdict,
\* a head that is not the one it read is somebody's new commit, of which the
\* reviewer has posted nothing.
Reading == phase \in { "setup", "review", "guard", "submit" }
NewHeadUnreviewed ==
    (Reading /\ head # known)
        => \A i \in 1 .. Len(reviews) :
               reviews[i].by = "chum" => reviews[i].sha # head

\* OneVerdict, of the reviews GitHub lists.
OneListed ==
    \A i, j \in listPRReviews :
        (/\ Standing(i) /\ Standing(j)
         /\ reviews[i].sha = reviews[j].sha
         /\ reviews[i].round = reviews[j].round) => i = j

VerdictInv == ReviewsMade /\ NewHeadUnreviewed /\ OneListed

LEMMA VerdictInit == Init => VerdictInv
  BY BoundAssumption DEF Init, VerdictInv, ReviewsMade, NewHeadUnreviewed,
     OneListed, listPRReviews

\* A step that leaves the reviews alone either knows no more and no less of the
\* head than before, or ends or begins the reading, or makes a new head.
Unposted == /\ UNCHANGED reviews
            /\ last' \in Nat /\ last <= last'
            /\ \/ ~ Reading'
               \/ head' = known'
               \/ Reading /\ UNCHANGED << head, known >>
               \/ head' = last + 1

LEMMA UnpostedKeeps ==
    ASSUME TypeInv, VerdictInv, Unposted
    PROVE  VerdictInv'
<1>1. /\ last \in Nat /\ reviews \in Seq(Review) /\ Len(reviews) \in Nat
      /\ \A i \in 1 .. Len(reviews) : reviews[i].sha \in Nat
  <2>1. last \in Nat /\ reviews \in Seq(Review) /\ Len(reviews) \in Nat
    BY DEF TypeInv, TypeOK, Commit
  <2>2. \A r \in Review : r.sha \in Nat
    BY DEF Review, Commit
  <2>3. \A i \in 1 .. Len(reviews) : reviews[i] \in Review
    BY <2>1
  <2> QED
    BY <2>1, <2>2, <2>3
<1>2. ReviewsMade'
  BY <1>1 DEF Unposted, VerdictInv, ReviewsMade
<1>3. NewHeadUnreviewed'
  <2>1. CASE head' = last + 1
    BY <1>1, <2>1 DEF Unposted, VerdictInv, ReviewsMade, NewHeadUnreviewed
  <2>2. CASE Reading /\ UNCHANGED << head, known >>
    BY <2>2 DEF Unposted, VerdictInv, NewHeadUnreviewed
  <2>3. CASE ~ Reading' \/ head' = known'
    BY <2>3 DEF NewHeadUnreviewed
  <2> QED
    BY <2>1, <2>2, <2>3 DEF Unposted
<1>4. OneListed'
  BY DEF Unposted, VerdictInv, OneListed, listPRReviews, Standing
<1> QED
  BY <1>2, <1>3, <1>4 DEF VerdictInv

\* The verdict is posted when no listed review is for this commit and round,
\* and none of any round for a commit that arrived meanwhile.
LEMMA VerdictPosted ==
    ASSUME TypeInv, Made, VerdictInv, phase = "submit", ~ alreadySubmitted,
           PostReview, UNCHANGED branch, ~ Reading'
    PROVE  VerdictInv'
<1> DEFINE n == Len(reviews)
           new == [ by |-> "chum", sha |-> head, round |-> round,
                    verdict |-> signal ]
<1>1. /\ reviews \in Seq(Review) /\ n \in Nat /\ PageSize \in Nat
      /\ reviews' = Append(reviews, new)
  BY BoundAssumption DEF TypeInv, TypeOK, PostReview
<1>2. /\ Len(reviews') = n + 1
      /\ reviews'[n + 1] = new
      /\ \A i \in 1 .. n : reviews'[i] = reviews[i]
  BY <1>1
<1>3. ReviewsMade'
  <2> SUFFICES ASSUME NEW i \in 1 .. Len(reviews')
               PROVE  reviews'[i].sha <= last
    BY DEF ReviewsMade
  <2>1. CASE i = n + 1
    BY <1>2, <2>1 DEF Made
  <2>2. CASE i \in 1 .. n
    BY <1>2, <2>2 DEF VerdictInv, ReviewsMade
  <2> QED
    BY <1>1, <1>2, <2>1, <2>2
<1>4. NewHeadUnreviewed'
  BY DEF NewHeadUnreviewed
<1>5. ASSUME NEW i \in 1 .. n, i <= PageSize, Standing(i),
             reviews[i].sha = head, reviews[i].round = round
      PROVE  FALSE
  <2>1. CASE head = known
    BY <1>5, <2>1 DEF alreadySubmitted, matching, listPRReviews, Standing
  <2>2. CASE head # known
    BY <1>5, <2>2 DEF VerdictInv, NewHeadUnreviewed, Reading, Standing
  <2> QED
    BY <2>1, <2>2
<1>6. OneListed'
  <2> SUFFICES ASSUME NEW i \in 1 .. Len(reviews'), i <= PageSize,
                      NEW j \in 1 .. Len(reviews'), j <= PageSize,
                      Standing(i)', Standing(j)',
                      reviews'[i].sha = reviews'[j].sha,
                      reviews'[i].round = reviews'[j].round
               PROVE  i = j
    BY DEF OneListed, listPRReviews
  <2>1. i \in 1 .. n \/ i = n + 1
    BY <1>1, <1>2
  <2>2. j \in 1 .. n \/ j = n + 1
    BY <1>1, <1>2
  <2>3. CASE i \in 1 .. n /\ j \in 1 .. n
    <3>1. Standing(i) /\ Standing(j)
      BY <1>2, <2>3 DEF Standing
    <3> QED
      BY <1>2, <2>3, <3>1 DEF VerdictInv, OneListed, listPRReviews
  <2>4. CASE i \in 1 .. n /\ j = n + 1
    <3>1. Standing(i) /\ reviews[i].sha = head /\ reviews[i].round = round
      BY <1>2, <2>4 DEF Standing
    <3> QED
      BY <1>5, <2>4, <3>1
  <2>5. CASE i = n + 1 /\ j \in 1 .. n
    <3>1. Standing(j) /\ reviews[j].sha = head /\ reviews[j].round = round
      BY <1>2, <2>5 DEF Standing
    <3> QED
      BY <1>5, <2>5, <3>1
  <2> QED
    BY <2>1, <2>2, <2>3, <2>4, <2>5
<1> QED
  BY <1>3, <1>4, <1>6 DEF VerdictInv

\* People's reviews are not the reviewer's, and a dismissal only takes a
\* standing review away.
LEMMA VerdictPeople ==
    ASSUME TypeInv, VerdictInv, Made, PersonReviews \/ PersonDismisses
    PROVE  VerdictInv'
<1>1. /\ reviews \in Seq(Review) /\ Len(reviews) \in Nat
      /\ PageSize \in Nat
      /\ UNCHANGED << branch, phase, known >>
  BY BoundAssumption DEF TypeInv, TypeOK, PersonReviews, PersonDismisses, loop
<1>2. CASE PersonReviews
  <2>1. PICK v \in { "approve", "changes", "comment" } :
          reviews' = Append(reviews, [ by |-> "person", sha |-> head,
                                       round |-> 0, verdict |-> v ])
    BY <1>2 DEF PersonReviews
  <2>2. /\ Len(reviews') = Len(reviews) + 1
        /\ reviews'[Len(reviews) + 1].by = "person"
        /\ reviews'[Len(reviews) + 1].sha = head
        /\ \A i \in 1 .. Len(reviews) : reviews'[i] = reviews[i]
    BY <1>1, <2>1
  <2>3. \A i \in 1 .. Len(reviews') :
          i \in 1 .. Len(reviews) \/ i = Len(reviews) + 1
    BY <1>1, <2>2
  <2>4. ReviewsMade'
    BY <1>1, <2>2, <2>3 DEF VerdictInv, ReviewsMade, Made
  <2>5. NewHeadUnreviewed'
    BY <1>1, <2>2, <2>3 DEF VerdictInv, NewHeadUnreviewed, Reading
  <2>6. OneListed'
    BY <1>1, <2>2, <2>3 DEF VerdictInv, OneListed, listPRReviews, Standing
  <2> QED
    BY <2>4, <2>5, <2>6 DEF VerdictInv
<1>3. CASE PersonDismisses
  <2>1. PICK k \in 1 .. Len(reviews) :
          reviews' = [reviews EXCEPT ![k].verdict = "dismissed"]
    BY <1>3 DEF PersonDismisses
  <2>2. /\ Len(reviews') = Len(reviews)
        /\ \A i \in 1 .. Len(reviews) :
             /\ reviews'[i].by = reviews[i].by
             /\ reviews'[i].sha = reviews[i].sha
             /\ reviews'[i].round = reviews[i].round
             /\ \/ reviews'[i].verdict = reviews[i].verdict
                \/ reviews'[i].verdict = "dismissed"
    BY <1>1, <2>1 DEF Review
  <2>3. ReviewsMade' /\ NewHeadUnreviewed'
    BY <1>1, <2>2 DEF VerdictInv, ReviewsMade, NewHeadUnreviewed, Reading
  <2>4. OneListed'
    BY <1>1, <2>2 DEF VerdictInv, OneListed, listPRReviews, Standing
  <2> QED
    BY <2>3, <2>4 DEF VerdictInv
<1> QED
  BY <1>2, <1>3

LEMMA VerdictStep == TypeInv /\ TypeInv' /\ Made /\ VerdictInv /\ [Next]_vars
                        => VerdictInv'
<1> SUFFICES ASSUME TypeInv, TypeInv', Made, VerdictInv, [Next]_vars
             PROVE  VerdictInv'
  OBVIOUS
<1>0. last \in Nat /\ last' \in Nat
  BY DEF TypeInv, TypeOK, Commit
<1> USE DEF Unposted, Reading, GoTo, Close
<1>1. CASE AgentStarts \/ ReviewStarts \/ RefreshPRInfo
  BY <1>0, <1>1, UnpostedKeeps DEF AgentStarts, ReviewStarts, RefreshPRInfo,
     Knows
<1>2. CASE ReviewSetup \/ RunReview \/ GuardReviewerClean
  BY <1>0, <1>2, UnpostedKeeps DEF ReviewSetup, RunReview, GuardReviewerClean
<1>3. CASE SubmitReview
  <2>1. /\ phase = "submit" /\ ~ Reading' /\ UNCHANGED branch
        /\ UNCHANGED reviews \/ (~ alreadySubmitted /\ PostReview)
    BY <1>3 DEF SubmitReview
  <2>2. CASE UNCHANGED reviews
    BY <1>0, <2>1, <2>2, UnpostedKeeps
  <2>3. CASE ~ alreadySubmitted /\ PostReview
    BY <2>1, <2>3, VerdictPosted
  <2> QED
    BY <2>1, <2>2, <2>3
<1>4. CASE CheckPRState \/ CloseMerged \/ CompleteMerged
  BY <1>0, <1>4, UnpostedKeeps DEF CheckPRState, CloseMerged, CompleteMerged
<1>5. CASE MergePR \/ MergeUpdated
  BY <1>0, <1>5, UnpostedKeeps DEF MergePR, MergeUpdated, attemptMerge, Adds
<1>6. CASE Rework \/ Push
  BY <1>0, <1>6, UnpostedKeeps DEF Rework, Push, Adds
<1>7. CASE Dies
  BY <1>0, <1>7, UnpostedKeeps DEF Dies
<1>8. CASE PersonPushes
  BY <1>0, <1>8, UnpostedKeeps DEF PersonPushes, Adds
<1>9. CASE OtherTaskFetches \/ UNCHANGED vars
  BY <1>0, <1>9, UnpostedKeeps DEF OtherTaskFetches, vars
<1>10. CASE PersonReviews \/ PersonDismisses
  BY <1>10, VerdictPeople
<1> QED
  BY <1>1, <1>2, <1>3, <1>4, <1>5, <1>6, <1>7, <1>8, <1>9, <1>10
     DEF Next, LoopStep, PeopleStep

\* The reviewer has at most one standing review for a commit and a round,
\* although a submission may fail after it was posted and be tried again by a
\* resumed loop, and although it goes to whatever commit the branch is at: as
\* long as the pull request's reviews are on the one page that is asked for.
THEOREM VerdictPostedOnce ==
    Spec => [](Len(reviews) <= PageSize => OneVerdict)
<1>1. ASSUME TypeInv, VerdictInv, Len(reviews) <= PageSize
      PROVE  OneVerdict
  <2>1. PageSize \in Nat /\ Len(reviews) \in Nat
    BY <1>1, BoundAssumption DEF TypeInv, TypeOK
  <2>2. 1 .. Len(reviews) \subseteq listPRReviews
    BY <1>1, <2>1 DEF listPRReviews
  <2> QED
    BY <1>1, <2>2 DEF VerdictInv, OneListed, OneVerdict
<1>2. MergeInv => Made
  BY DEF MergeInv
<1> QED
  BY TypeInvariant, MergeInit, MergeStep, VerdictInit, VerdictStep,
     <1>1, <1>2, PTL DEF Spec
=============================================================================
