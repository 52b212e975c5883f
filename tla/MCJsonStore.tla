---------------------------- MODULE MCJsonStore ----------------------------
(***************************************************************************)
(* Instances of JsonStore; the records are alike.                          *)
(***************************************************************************)
EXTENDS JsonStore, TLC

Symmetry == Permutations(Records)
=============================================================================
