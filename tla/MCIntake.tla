------------------------------ MODULE MCIntake ------------------------------
(***************************************************************************)
(* Instances of Intake: one registered project; one payload that every     *)
(* event repeats; and one event of each kind that the endpoints screen     *)
(* out.  Two of the events are the lines of one batch, or there is none.   *)
(***************************************************************************)
EXTENDS Intake, TLC

CONSTANTS r1, r2, r3

Report(project, severity, size, json) ==
  [project |-> project, severity |-> severity, size |-> size, json |-> json,
   payload |-> "x"]

MCRequests == {r1, r2, r3}
MCBatch == <<r2, r3>>
NoBatch == <<>>
MCProjects == {"shop"}
MCEvents ==
  {Report("shop", "", 1, TRUE),
   Report("", "critical", 1, TRUE), Report("shop", "fatal", 1, TRUE),
   Report("shop", "", 8, TRUE), Report("shop", "", 9, TRUE),
   Report("blog", "critical", 1, TRUE), Report("blog", "critical", 0, TRUE),
   Report("shop", "info", 1, TRUE), Report("shop", "info", 1, FALSE)}
MCProjectWindow == [p \in MCProjects |-> 2]

Symmetry == Permutations(MCRequests)
=============================================================================
