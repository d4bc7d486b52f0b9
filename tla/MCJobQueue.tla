---------------------------- MODULE MCJobQueue ----------------------------
(* The values the TLC runs of JobQueue give its constants. *)
EXTENDS JobQueue, TLC

Overlapping == Permutations(Ticks)
=============================================================================
