---------------------------- MODULE MCDiagnosis ----------------------------
(***************************************************************************)
(* Instances of Diagnosis: diagnoses of one fingerprint on one project,    *)
(* alike until they run; symmetric in the run without liveness.            *)
(***************************************************************************)
EXTENDS Diagnosis, TLC

Symmetry == Permutations(Jobs \ Earlier)
=============================================================================
