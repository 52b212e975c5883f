------------------------------ MODULE TaskPool ------------------------------
(***************************************************************************)
(* What the scheduler promises its callers (main.go and api/server.go),    *)
(* with its queue, its workers, its retries and its condition variable     *)
(* left out.  A submitted incident is refused or accepted; an accepted one *)
(* is run to an end, at most MaxConcurrency at a time; Stop closes the     *)
(* door and returns when nothing is left to run.                           *)
(***************************************************************************)
EXTENDS Integers, FiniteSets

CONSTANTS Tasks,            \* one element per call of Submit
          MaxConcurrency    \* how many tasks may run at once

VARIABLES status,           \* status[t]: where t is in its life
          phase             \* "open", then "closed", then "stopped"

vars == <<status, phase>>

InStatus(s) == {t \in Tasks : status[t] \in s}

Init ==
  /\ status = [t \in Tasks |-> "unsubmitted"]
  /\ phase = "open"

Accept(t) ==
  /\ phase = "open"
  /\ status[t] = "unsubmitted"
  /\ status' = [status EXCEPT ![t] = "pending"]
  /\ UNCHANGED phase

\* A caller can be turned away at any time: the queue is full, or closed.
Refuse(t) ==
  /\ status[t] = "unsubmitted"
  /\ status' = [status EXCEPT ![t] = "rejected"]
  /\ UNCHANGED phase

Start(t) ==
  /\ status[t] = "pending"
  /\ Cardinality(InStatus({"running"})) < MaxConcurrency
  /\ status' = [status EXCEPT ![t] = "running"]
  /\ UNCHANGED phase

Finish(t) ==
  /\ status[t] = "running"
  /\ \E end \in {"completed", "failed"} : status' = [status EXCEPT ![t] = end]
  /\ UNCHANGED phase

Close ==
  /\ phase = "open"
  /\ phase' = "closed"
  /\ UNCHANGED status

Stop ==
  /\ phase = "closed"
  /\ InStatus({"pending", "running"}) = {}
  /\ phase' = "stopped"
  /\ UNCHANGED status

Next ==
  \/ \E t \in Tasks : Accept(t) \/ Refuse(t) \/ Start(t) \/ Finish(t)
  \/ Close
  \/ Stop

Safety == Init /\ [][Next]_vars

\* Nobody promises that a caller submits or that Stop is ever called; what has
\* been accepted is run, what runs ends, and a closed pool comes to its end.
Fairness ==
  /\ \A t \in Tasks : WF_vars(Start(t)) /\ WF_vars(Finish(t))
  /\ WF_vars(Stop)

Spec == Safety /\ Fairness
=============================================================================
