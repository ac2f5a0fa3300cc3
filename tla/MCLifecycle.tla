---------------------------- MODULE MCLifecycle ----------------------------
(***************************************************************************)
(* Instances of TaskLifecycle for TLC.                                     *)
(***************************************************************************)
EXTENDS TaskLifecycle

AllFaults == Fault

\* Everything that can move a task between its approval and its start.
GateOps == Operation \ { "global_pause", "global_resume", "merge_on_github" }
\* The dispatcher's own recovery: people approve, retry what failed, pause the
\* system and merge by hand, but do not touch a task an execution works on.
RecoveryOps == { "approve", "retry", "merge_on_github", "global_pause",
                 "global_resume" }
=============================================================================
