------------------------------ MODULE MCReview ------------------------------
(***************************************************************************)
(* Instances of ReviewLoop for TLC.                                        *)
(***************************************************************************)
EXTENDS ReviewLoop

Everybody == Deed
=============================================================================
