---------------------------- MODULE MCTaskGraph ----------------------------
(***************************************************************************)
(* Instances of TaskGraph for TLC: p may be decomposed into s1 and s2.     *)
(***************************************************************************)
EXTENDS TaskGraph

CONSTANTS a, b, p, s1, s2

POneStep == [t \in Task |-> IF t = p THEN << s1 >> ELSE << >>]
PIsSplit == [t \in Task |-> IF t = p THEN << s1, s2 >> ELSE << >>]
Ranks == [t \in Task |-> CASE t = s1 -> 1 [] t = s2 -> 2 [] t = b -> 3
                           [] t = a -> 4 [] t = p -> 5]

\* One of the three dependencies must be refused: they form a cycle.
CycleOfDeps == { { << a, p >>, << p, b >>, << b, a >> } }
LateDep == { {}, { << b, a >> } }
\* b may be with somebody else when the tracker is read.
Imports == [t \in Issue |-> IF t = b THEN { "open", "in_progress" } ELSE { "open" }]
AllOpen == [t \in Issue |-> { "open" }]
\* p runs after a because of their code; a decomposition passes that on.
Conflicts == { { a, p } }
\* b and a are on the same code, and later b is to depend on a.
SameCode == { { a, b } }
=============================================================================
