----------------------------- MODULE MCPipeline -----------------------------
(***************************************************************************)
(* Instances of Pipeline.  The tasks are alike until they are submitted,   *)
(* and so are the admin requests; symmetric in the runs without liveness.  *)
(***************************************************************************)
EXTENDS Pipeline, TLC

Symmetry == Permutations(Tasks) \cup Permutations(Requests)
=============================================================================
