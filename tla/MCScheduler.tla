---------------------------- MODULE MCScheduler ----------------------------
(***************************************************************************)
(* Instances of Scheduler.  Submissions are alike until they are made, and *)
(* so are the workers, so the safety run takes both as symmetric; the      *)
(* liveness run does not, for symmetry would not be sound there.           *)
(***************************************************************************)
EXTENDS Scheduler, TLC

Symmetry == Permutations(Tasks) \cup Permutations(Workers)
=============================================================================
