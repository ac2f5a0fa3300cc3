------------------------------ MODULE MCPlans ------------------------------
(***************************************************************************)
(* Instances of Plans for TLC: an epic e with two tasks.                   *)
(***************************************************************************)
EXTENDS Plans, TLC

CONSTANTS c1, c2, e, t, u

Under(p) == [r \in Ref |-> IF r = e THEN NoRef ELSE p]
Listed == << t, u, e >>

\* Children before their epic, and what depends before what it depends on.
Chain == [order |-> Listed, deps |-> { << t, u >>, << u, e >> },
          parent |-> Under(e), gate |-> TRUE]
Ungated == [Chain EXCEPT !.gate = FALSE, !.deps = {}]
DepCycle == [Chain EXCEPT !.deps = { << t, u >>, << u, t >> }]
ParentCycle == [Chain EXCEPT !.deps = {}, !.parent =
                  [r \in Ref |-> IF r = t THEN u ELSE IF r = u THEN t ELSE NoRef]]
UnknownRef == [Chain EXCEPT !.order = << t, u >>, !.deps = { << t, e >> }]

Drafts == { Chain, Ungated, DepCycle, ParentCycle, UnknownRef }
OneDraft == { Chain }
Symmetric == Permutations(Conn)
=============================================================================
