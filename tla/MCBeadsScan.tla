---------------------------- MODULE MCBeadsScan ----------------------------
(***************************************************************************)
(* Instances of BeadsScan for TLC.                                         *)
(***************************************************************************)
EXTENDS BeadsScan

CONSTANTS i1, i2
=============================================================================
