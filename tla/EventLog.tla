------------------------------ MODULE EventLog ------------------------------
(***************************************************************************)
(* What the beads outbox promises for each event it was given: the event   *)
(* is queued once, settled once, and then stays settled.                   *)
(***************************************************************************)
CONSTANT Event
VARIABLE outcome

Outcome == { "none", "queued", "delivered", "dead_letter" }

TypeOK == outcome \in [Event -> Outcome]

Init == outcome = [e \in Event |-> "none"]

Enqueue(e) ==
    /\ outcome[e] = "none"
    /\ outcome' = [outcome EXCEPT ![e] = "queued"]

Settle(e) ==
    /\ outcome[e] = "queued"
    /\ \E o \in { "delivered", "dead_letter" } :
         outcome' = [outcome EXCEPT ![e] = o]

Next == \E e \in Event : Enqueue(e) \/ Settle(e)

Spec == Init /\ [][Next]_outcome
=============================================================================
