--------------------------- MODULE PipelineProofs ---------------------------
(***************************************************************************)
(* Proofs about Pipeline: IInv is inductive, for any events, tasks, admin  *)
(* requests, workers and retries, any number of failing writes, crashes    *)
(* and restarts.                                                           *)
(***************************************************************************)
EXTENDS Pipeline, TLAPS

Statuses == {"unsubmitted", "rejected", "pending", "running", "completed", "failed", "lost"}
NotStarted == {"unsubmitted", "rejected", "pending"}
Places == {"idle", "create", "diagnose", "failTask", "failEvent", "failed",
           "notify", "saveReport", "saveEvent", "saveTask"}
Mains == {"serving", "drainAdmin", "drainIntake", "stopping", "stopped", "storeClosed",
          "exited"}
RequestStates ==
  [pc : {"new", "submit", "refused", "done"}, event : Events \cup {NoEvent}]

TypeCore ==
  /\ status \in [Tasks -> Statuses]
  /\ phase \in {"open", "closed", "stopped"}
  /\ of \in [Tasks -> Events \cup {NoEvent}]
  /\ intake \in [Events -> {"new", "submit", "done"}]
  /\ request \in [Requests -> RequestStates]
  /\ pc \in [Tasks -> Places]
  /\ attempt \in [Tasks -> 0..MaxRetries]
  /\ eventRow \in [Events -> {"none", "pending", "completed", "failed"}]
  /\ taskRow \in [Tasks -> {"none", "running", "completed", "failed"}]
  /\ reportRow \subseteq Tasks /\ damaged \subseteq Tasks \cup Events
  /\ main \in Mains
  /\ late \in BOOLEAN
  /\ notified \in [Tasks -> Nat]
  /\ failures \in 0..MaxFailures /\ starts \in 0..MaxStarts

\* How far the shutdown is, what the pool still takes and runs, and which handlers may be
\* in flight.
MainInv ==
  /\ main \in {"serving", "drainAdmin", "drainIntake"} => phase = "open"
  /\ main = "stopping" => phase = "closed"
  /\ main \in {"stopped", "storeClosed"} => phase = "stopped"
  /\ main \in {"stopped", "storeClosed", "exited"} => \A t \in Tasks : ~Active(t)
  /\ \A e \in Events : intake[e] = "submit" =>
       main # "exited" /\ (late \/ main \in {"serving", "drainAdmin", "drainIntake"})
  /\ \A r \in Requests : request[r].pc = "submit" =>
       main # "exited" /\ (late \/ main \in {"serving", "drainAdmin"})

\* An event is in the store before a task of it is in the pool.
Stored(e) == eventRow[e] # "none" \/ e \in damaged
EventInv ==
  /\ \A e \in Events : intake[e] = "new" => eventRow[e] = "none"
  /\ \A e \in Events : intake[e] = "submit" => StoreClosed \/ Stored(e)
  /\ \A r \in Requests : request[r].pc = "submit" =>
       request[r].event \in Events /\ eventRow[request[r].event] # "none"
  /\ \A t \in Tasks : IF status[t] \in {"unsubmitted", "rejected"} THEN of[t] = NoEvent
                      ELSE of[t] \in Events /\ intake[of[t]] # "new" /\ Stored(of[t])

\* What the rows of a task say at each place of its attempts, and at its end.
RowsOfAttempt(t) ==
  /\ pc[t] = "create" => taskRow[t] \in {"none", "failed"}
  /\ pc[t] \in {"diagnose", "failTask", "notify", "saveReport", "saveEvent", "saveTask"} =>
       taskRow[t] = "running"
  /\ pc[t] \in {"failEvent", "failed"} => taskRow[t] = "failed"
  /\ t \in reportRow <=> pc[t] \in {"saveEvent", "saveTask"}
  /\ pc[t] \in {"failed", "saveTask"} => eventRow[of[t]] # "pending"

RowsAtEnd(t) ==
  /\ taskRow[t] = status[t]
  /\ t \in reportRow <=> status[t] = "completed"
  /\ eventRow[of[t]] # "pending"

Rows(t) ==
  /\ status[t] \in NotStarted => taskRow[t] = "none" /\ t \notin reportRow
  /\ ~Damaged(t) =>
       /\ status[t] = "running" => RowsOfAttempt(t)
       /\ status[t] \in {"completed", "failed"} => RowsAtEnd(t)
       /\ status[t] = "lost" => taskRow[t] # "completed"

Announced(t) ==
  notified[t] = 0 \/ /\ notified[t] = 1
                     /\ \/ pc[t] \in {"saveReport", "saveEvent", "saveTask"}
                        \/ status[t] \in {"completed", "lost"}

TaskInv ==
  \A t \in Tasks : /\ pc[t] # "idle" <=> status[t] = "running"
                   /\ Rows(t)
                   /\ Announced(t)

IInv == TypeCore /\ MainInv /\ EventInv /\ TaskInv

-----------------------------------------------------------------------------
(* Calls of the store *)

\* A call leaves the rows alone, or changes the one that it is about; it does so when the
\* store is open and nothing is damaged.
LEMMA UpdateTaskEffect ==
  ASSUME TypeCore, NEW t \in Tasks, NEW s \in {"completed", "failed"}, UpdateTask(t, s)
  PROVE  /\ eventRow' = eventRow /\ reportRow' = reportRow
         /\ damaged \subseteq damaged' /\ damaged' \subseteq damaged \cup {t}
         /\ failures' \in 0..MaxFailures
         /\ taskRow' = taskRow \/ taskRow' = [taskRow EXCEPT ![t] = s]
         /\ taskRow[t] = "none" => taskRow'[t] = "none"
         /\ ~StoreClosed /\ t \notin damaged' /\ taskRow[t] # "none" => taskRow'[t] = s
<1> USE PipelineAssumption DEF PipelineAssumption, TypeCore, faults, rows
<1>1. CASE ~StoreClosed /\ WriteFails(t)
  BY <1>1 DEF WriteFails
<1>2. CASE StoreClosed /\ UNCHANGED <<rows, faults>>
  BY <1>2
<1>3. CASE /\ taskRow' = [taskRow EXCEPT ![t] = IF @ = "none" THEN "none" ELSE s]
           /\ UNCHANGED <<eventRow, reportRow, faults>>
  BY <1>3
<1> QED
  BY <1>1, <1>2, <1>3 DEF UpdateTask, Write

LEMMA UpdateEventEffect ==
  ASSUME TypeCore, NEW t \in Tasks, of[t] \in Events,
         NEW s \in {"completed", "failed"}, UpdateEvent(t, s)
  PROVE  /\ taskRow' = taskRow /\ reportRow' = reportRow
         /\ damaged \subseteq damaged' /\ damaged' \subseteq damaged \cup {t}
         /\ failures' \in 0..MaxFailures
         /\ eventRow' = eventRow \/ eventRow' = [eventRow EXCEPT ![of[t]] = s]
         /\ eventRow[of[t]] = "none" => eventRow'[of[t]] = "none"
         /\ ~StoreClosed /\ t \notin damaged' => eventRow'[of[t]] # "pending"
<1> USE PipelineAssumption DEF PipelineAssumption, TypeCore, faults, rows
<1>1. CASE ~StoreClosed /\ WriteFails(t)
  BY <1>1 DEF WriteFails
<1>2. CASE StoreClosed /\ UNCHANGED <<rows, faults>>
  BY <1>2
<1>3. CASE /\ eventRow' = [eventRow EXCEPT ![of[t]] = IF @ = "none" THEN "none" ELSE s]
           /\ UNCHANGED <<taskRow, reportRow, faults>>
  <2>1. CASE eventRow[of[t]] = "none"
    <3>1. eventRow' = eventRow
      BY <1>3, <2>1
    <3> QED
      BY <1>3, <2>1, <3>1
  <2>2. CASE eventRow[of[t]] # "none"
    <3>1. eventRow' = [eventRow EXCEPT ![of[t]] = s]
      BY <1>3, <2>2
    <3> QED
      BY <1>3, <2>2, <3>1
  <2> QED
    BY <2>1, <2>2
<1> QED
  BY <1>1, <1>2, <1>3 DEF UpdateEvent, Write

LEMMA CreateTaskEffect ==
  ASSUME TypeCore, NEW t \in Tasks, CreateTask(t)
  PROVE  /\ eventRow' = eventRow /\ reportRow' = reportRow
         /\ damaged \subseteq damaged' /\ damaged' \subseteq damaged \cup {t}
         /\ failures' \in 0..MaxFailures
         /\ taskRow' = taskRow \/ taskRow' = [taskRow EXCEPT ![t] = "running"]
         /\ ~StoreClosed /\ t \notin damaged' /\ eventRow[of[t]] # "none" =>
              taskRow'[t] = "running"
<1> USE PipelineAssumption DEF PipelineAssumption, TypeCore, faults, rows
<1>1. CASE ~StoreClosed /\ WriteFails(t)
  BY <1>1 DEF WriteFails
<1>2. CASE StoreClosed /\ UNCHANGED <<rows, faults>>
  BY <1>2
<1>3. CASE /\ taskRow' = IF taskRow[t] = "none" /\ eventRow[of[t]] = "none"
                         THEN taskRow ELSE [taskRow EXCEPT ![t] = "running"]
           /\ UNCHANGED <<eventRow, reportRow, faults>>
  BY <1>3
<1> QED
  BY <1>1, <1>2, <1>3 DEF CreateTask, Write

LEMMA SaveReportEffect ==
  ASSUME TypeCore, NEW t \in Tasks, SaveReport(t)
  PROVE  /\ eventRow' = eventRow /\ taskRow' = taskRow
         /\ damaged \subseteq damaged' /\ damaged' \subseteq damaged \cup {t}
         /\ failures' \in 0..MaxFailures
         /\ reportRow' \in {reportRow, reportRow \cup {t}}
         /\ ~StoreClosed /\ t \notin damaged' /\ taskRow[t] # "none" => t \in reportRow'
<1> USE PipelineAssumption DEF PipelineAssumption, TypeCore, faults, rows
<1>1. CASE ~StoreClosed /\ WriteFails(t)
  BY <1>1 DEF WriteFails
<1>2. CASE StoreClosed /\ UNCHANGED <<rows, faults>>
  BY <1>2
<1>3. CASE /\ reportRow' = IF taskRow[t] = "none" THEN reportRow ELSE reportRow \cup {t}
           /\ UNCHANGED <<eventRow, taskRow, faults>>
  BY <1>3
<1> QED
  BY <1>1, <1>2, <1>3 DEF SaveReport, Write

LEMMA CreateEventEffect ==
  ASSUME TypeCore, NEW e \in Events, CreateEvent(e)
  PROVE  /\ intake[e] = "new" /\ intake' = [intake EXCEPT ![e] = "submit"] /\ IntakeRuns
         /\ UNCHANGED <<poolVars, of, request, pc, attempt, notified, process>>
         /\ taskRow' = taskRow /\ reportRow' = reportRow
         /\ damaged \subseteq damaged' /\ damaged' \subseteq damaged \cup {e}
         /\ failures' \in 0..MaxFailures
         /\ eventRow' = eventRow \/ eventRow' = [eventRow EXCEPT ![e] = "pending"]
         /\ StoreClosed \/ e \in damaged' \/ eventRow'[e] # "none"
<1> USE PipelineAssumption DEF PipelineAssumption, TypeCore, faults, rows
<1>1. CASE ~StoreClosed /\ WriteFails(e)
  BY <1>1 DEF WriteFails, CreateEvent
<1>2. CASE StoreClosed /\ UNCHANGED <<rows, faults>>
  BY <1>2 DEF CreateEvent
<1>3. CASE /\ eventRow' = [eventRow EXCEPT ![e] = "pending"]
           /\ UNCHANGED <<taskRow, reportRow, faults>>
  BY <1>3 DEF CreateEvent
<1> QED
  BY <1>1, <1>2, <1>3 DEF CreateEvent, Write

-----------------------------------------------------------------------------
(* Steps of the pool *)

LEMMA SubmitEffect ==
  ASSUME TypeCore, NEW t \in Tasks, NEW e \in Events, Submit(t, e)
  PROVE  /\ status[t] = "unsubmitted" /\ phase' = phase
         /\ \/ /\ status' = [status EXCEPT ![t] = "pending"]
               /\ of' = [of EXCEPT ![t] = e] /\ phase = "open"
            \/ status' = [status EXCEPT ![t] = "rejected"] /\ of' = of
BY DEF Submit, Pool!Accept, Pool!Refuse

LEMMA FinishEffect ==
  ASSUME TypeCore, NEW t \in Tasks, NEW end \in {"completed", "failed"}, Finish(t, end)
  PROVE  /\ status[t] = "running" /\ phase' = phase
         /\ status' = [status EXCEPT ![t] = end]
         /\ pc' = [pc EXCEPT ![t] = "idle"]
<1>1. PICK how \in {"completed", "failed"} : status' = [status EXCEPT ![t] = how]
  BY DEF Finish, Pool!Finish
<1>2. how = end
  BY <1>1 DEF Finish, TypeCore
<1> QED
  BY <1>1, <1>2 DEF Finish, Pool!Finish, Goto

-----------------------------------------------------------------------------
(* What an attempt changes *)

\* An attempt of a task changes the rows of the task and of its event, and nothing else.
LEMMA AttemptFrame ==
  ASSUME TypeCore, NEW t \in Tasks, of[t] \in Events, Attempt(t)
  PROVE  /\ UNCHANGED <<phase, of, intake, request, process>>
         /\ \A u \in Tasks \ {t} :
              /\ status'[u] = status[u] /\ pc'[u] = pc[u] /\ notified'[u] = notified[u]
              /\ taskRow'[u] = taskRow[u] /\ (u \in reportRow' <=> u \in reportRow)
         /\ damaged \subseteq damaged' /\ damaged' \subseteq damaged \cup {t}
         /\ \A e \in Events :
              \/ eventRow'[e] = eventRow[e]
              \/ eventRow[e] # "none" /\ eventRow'[e] \in {"completed", "failed"}
<1> USE DEF TypeCore, Goto, poolVars, rows, process, faults
<1>1. CASE CreatesTask(t)
  BY <1>1, CreateTaskEffect DEF CreatesTask
<1>2. CASE Diagnoses(t)
  BY <1>2 DEF Diagnoses
<1>3. CASE DiagnosePanics(t)
  BY <1>3, FinishEffect DEF DiagnosePanics
<1>4. CASE FailsTask(t)
  BY <1>4, UpdateTaskEffect DEF FailsTask
<1>5. CASE FailsEvent(t)
  BY <1>5, UpdateEventEffect DEF FailsEvent
<1>6. CASE Retries(t)
  BY <1>6 DEF Retries
<1>7. CASE GivesUp(t)
  BY <1>7, FinishEffect DEF GivesUp
<1>8. CASE Notifies(t)
  BY <1>8 DEF Notifies
<1>9. CASE SavesReport(t)
  BY <1>9, SaveReportEffect DEF SavesReport
<1>10. CASE SavesEvent(t)
  BY <1>10, UpdateEventEffect DEF SavesEvent
<1>11. CASE SavesTask(t)
  BY <1>11, UpdateTaskEffect, FinishEffect DEF SavesTask
<1> QED
  BY <1>1, <1>2, <1>3, <1>4, <1>5, <1>6, <1>7, <1>8, <1>9, <1>10, <1>11 DEF Attempt

-----------------------------------------------------------------------------
(* Types *)

LEMMA StepType ==
  ASSUME IInv, [Next]_vars
  PROVE  TypeCore'
<1> USE PipelineAssumption DEF PipelineAssumption, IInv, TypeCore, Goto, poolVars, rows,
        process, faults
<1>1. ASSUME NEW e \in Events, CreateEvent(e) PROVE TypeCore'
  BY <1>1, CreateEventEffect
<1>2. ASSUME NEW e \in Events, SubmitEvent(e) PROVE TypeCore'
  <2>1. PICK t \in Tasks : Submit(t, e)
    BY <1>2 DEF SubmitEvent
  <2> QED
    BY <1>2, <2>1, SubmitEffect DEF SubmitEvent, Statuses
<1>3. ASSUME NEW r \in Requests, RetrySubmits(r) PROVE TypeCore'
  <2>1. PICK t \in Tasks : Submit(t, request[r].event)
    BY <1>3 DEF RetrySubmits
  <2>2. request[r].event \in Events
    BY <1>3 DEF RetrySubmits, EventInv
  <2>3. request' \in [Requests -> RequestStates]
    BY <1>3 DEF RetrySubmits, RequestStates
  <2> QED
    BY <1>3, <2>1, <2>2, <2>3, SubmitEffect DEF RetrySubmits, Statuses
<1>4. ASSUME NEW r \in Requests, NEW e \in Events, RetryChecks(r, e) PROVE TypeCore'
  <2>1. request' \in [Requests -> RequestStates]
    BY <1>4 DEF RetryChecks, RequestStates
  <2> QED
    BY <1>4, <2>1 DEF RetryChecks
<1>5. ASSUME NEW t \in Tasks, StartTask(t) PROVE TypeCore'
  BY <1>5 DEF StartTask, Pool!Start, Places, Statuses
<1>6. ASSUME NEW t \in Tasks, Attempt(t) PROVE TypeCore'
  <2>0. of[t] \in Events
    <3>1. pc[t] # "idle"
      BY <1>6 DEF Attempt, CreatesTask, Diagnoses, DiagnosePanics, FailsTask, FailsEvent,
                  Retries, GivesUp, Notifies, SavesReport, SavesEvent, SavesTask
    <3> QED
      BY <3>1 DEF TaskInv, EventInv
  <2>1. CASE CreatesTask(t)
    BY <2>1, CreateTaskEffect DEF CreatesTask, Places
  <2>2. CASE Diagnoses(t)
    BY <2>2 DEF Diagnoses, Places
  <2>3. CASE DiagnosePanics(t)
    BY <2>3, FinishEffect DEF DiagnosePanics, Places, Statuses
  <2>4. CASE FailsTask(t)
    BY <2>4, UpdateTaskEffect DEF FailsTask, Places
  <2>5. CASE FailsEvent(t)
    BY <2>0, <2>5, UpdateEventEffect DEF FailsEvent, Places
  <2>6. CASE Retries(t)
    <3>1. attempt[t] + 1 \in 0..MaxRetries
      BY <2>6 DEF Retries
    <3> QED
      BY <2>6, <3>1 DEF Retries, Places
  <2>7. CASE GivesUp(t)
    BY <2>7, FinishEffect DEF GivesUp, Places, Statuses
  <2>8. CASE Notifies(t)
    BY <2>8 DEF Notifies, Places
  <2>9. CASE SavesReport(t)
    BY <2>9, SaveReportEffect DEF SavesReport, Places
  <2>10. CASE SavesEvent(t)
    BY <2>0, <2>10, UpdateEventEffect DEF SavesEvent, Places
  <2>11. CASE SavesTask(t)
    BY <2>11, UpdateTaskEffect, FinishEffect DEF SavesTask, Places, Statuses
  <2> QED
    BY <1>6, <2>1, <2>2, <2>3, <2>4, <2>5, <2>6, <2>7, <2>8, <2>9, <2>10, <2>11 DEF Attempt
<1>7. CASE SignalArrives
  BY <1>7 DEF SignalArrives, MainGoes, Mains
<1>8. CASE ShutsDown /\ ~Exits
  BY <1>8 DEF ShutsDown, DeadlinePasses, AdminDrained, IntakeDrained, PoolStops, ClosesStore,
              MainGoes, Mains, Pool!Close, Pool!Stop
<1>9. CASE Goes
  <2>1. request' \in [Requests -> RequestStates]
    <3>1. \A r \in Requests : [request[r] EXCEPT !.pc = "done"] \in RequestStates
      BY DEF RequestStates
    <3> QED
      BY <1>9, <3>1 DEF Goes
  <2>2. status' \in [Tasks -> Statuses] /\ pc' \in [Tasks -> Places] /\ main' \in Mains
    BY <1>9 DEF Goes, Statuses, Places, Mains
  <2>3. intake' \in [Events -> {"new", "submit", "done"}]
    BY <1>9 DEF Goes
  <2> QED
    BY <1>9, <2>1, <2>2, <2>3 DEF Goes
<1>10. CASE Starts
  <2>1. starts + 1 \in 0..MaxStarts
    BY <1>10 DEF Starts
  <2> QED
    BY <1>10, <2>1 DEF Starts, Mains
<1>11. CASE UNCHANGED vars
  BY <1>11 DEF vars
<1> QED
  BY <1>1, <1>2, <1>3, <1>4, <1>5, <1>6, <1>7, <1>8, <1>9, <1>10, <1>11
     DEF Next, ShutsDown, Exits, Crashes

-----------------------------------------------------------------------------
(* The shutdown *)

\* A task that is in an attempt is one of an event, and the store is open.
LEMMA AttemptRuns ==
  ASSUME IInv, NEW t \in Tasks, Attempt(t)
  PROVE  /\ status[t] = "running" /\ pc[t] # "idle" /\ of[t] \in Events /\ ~StoreClosed
         /\ main \notin {"stopped", "storeClosed", "exited"}
<1>1. pc[t] # "idle"
  BY DEF Attempt, CreatesTask, Diagnoses, DiagnosePanics, FailsTask, FailsEvent, Retries,
         GivesUp, Notifies, SavesReport, SavesEvent, SavesTask
<1>2. status[t] = "running"
  BY <1>1 DEF IInv, TaskInv
<1> QED
  BY <1>1, <1>2 DEF IInv, EventInv, MainInv, Active, StoreClosed

\* What an attempt leaves of a status that it changes.
LEMMA AttemptStatus ==
  ASSUME TypeCore, NEW t \in Tasks, Attempt(t), status[t] = "running"
  PROVE  /\ status'[t] \in {"running", "completed", "failed"}
         /\ pc'[t] # "idle" <=> status'[t] = "running"
<1> USE DEF TypeCore, Goto, poolVars
<1>1. CASE DiagnosePanics(t)
  BY <1>1, FinishEffect DEF DiagnosePanics
<1>2. CASE GivesUp(t)
  BY <1>2, FinishEffect DEF GivesUp
<1>3. CASE SavesTask(t)
  BY <1>3, FinishEffect DEF SavesTask
<1>4. CASE ~DiagnosePanics(t) /\ ~GivesUp(t) /\ ~SavesTask(t)
  BY <1>4 DEF Attempt, CreatesTask, Diagnoses, FailsTask, FailsEvent, Retries, Notifies,
              SavesReport, SavesEvent
<1> QED
  BY <1>1, <1>2, <1>3, <1>4

LEMMA StepMain ==
  ASSUME IInv, [Next]_vars
  PROVE  MainInv'
<1> USE DEF MainInv, Active, process, poolVars, IntakeRuns, AdminRuns, HandlersRun
<1>0. TypeCore /\ MainInv /\ EventInv
  BY DEF IInv
<1> USE DEF TypeCore
<1>1. ASSUME NEW e \in Events, CreateEvent(e) PROVE MainInv'
  BY <1>0, <1>1, CreateEventEffect
<1>2. ASSUME NEW e \in Events, SubmitEvent(e) PROVE MainInv'
  <2>1. PICK t \in Tasks : Submit(t, e)
    BY <1>2 DEF SubmitEvent
  <2> QED
    BY <1>0, <1>2, <2>1, SubmitEffect DEF SubmitEvent
<1>3. ASSUME NEW r \in Requests, RetrySubmits(r) PROVE MainInv'
  <2>1. PICK t \in Tasks : Submit(t, request[r].event)
    BY <1>3 DEF RetrySubmits
  <2>2. request[r].event \in Events
    BY <1>0, <1>3 DEF RetrySubmits, EventInv
  <2>3. \A q \in Requests : request'[q].pc = "submit" => request[q].pc = "submit"
    BY <1>0, <1>3 DEF RetrySubmits, RequestStates
  <2> QED
    BY <1>0, <1>3, <2>1, <2>2, <2>3, SubmitEffect DEF RetrySubmits
<1>4. ASSUME NEW r \in Requests, NEW e \in Events, RetryChecks(r, e) PROVE MainInv'
  <2>1. \A q \in Requests : q # r => request'[q] = request[q]
    BY <1>0, <1>4 DEF RetryChecks
  <2> QED
    BY <1>0, <1>4, <2>1 DEF RetryChecks
<1>5. ASSUME NEW t \in Tasks, StartTask(t) PROVE MainInv'
  BY <1>0, <1>5 DEF StartTask, Pool!Start
<1>6. ASSUME NEW t \in Tasks, Attempt(t) PROVE MainInv'
  <2>1. main \notin {"stopped", "storeClosed", "exited"} /\ of[t] \in Events
    BY <1>6, AttemptRuns
  <2>2. UNCHANGED <<phase, intake, request, main, late>>
    BY <1>0, <1>6, <2>1, AttemptFrame
  <2> QED
    BY <1>0, <2>1, <2>2
<1>7. CASE SignalArrives
  BY <1>0, <1>7 DEF SignalArrives, MainGoes
<1>8. CASE DeadlinePasses
  BY <1>0, <1>8 DEF DeadlinePasses
<1>9. CASE AdminDrained
  BY <1>0, <1>9 DEF AdminDrained, WaitOver, MainGoes
<1>10. CASE IntakeDrained
  BY <1>0, <1>10 DEF IntakeDrained, WaitOver, MainGoes, Pool!Close
<1>11. CASE PoolStops
  <2>1. \A t \in Tasks : ~Active(t)
    BY <1>11 DEF PoolStops, Pool!Stop, Pool!InStatus
  <2> QED
    BY <1>0, <1>11, <2>1 DEF PoolStops, MainGoes, Pool!Stop
<1>12. CASE ClosesStore
  BY <1>0, <1>12 DEF ClosesStore, MainGoes
<1>13. CASE Goes
  <2>1. \A r \in Requests : request'[r].pc # "submit"
    <3>1. \A r \in Requests : [request[r] EXCEPT !.pc = "done"].pc = "done"
      BY <1>0 DEF RequestStates
    <3> QED
      BY <1>13, <3>1 DEF Goes
  <2>2. \A t \in Tasks : ~Active(t)'
    BY <1>13 DEF Goes
  <2> QED
    BY <1>13, <2>1, <2>2 DEF Goes
<1>14. CASE Starts
  BY <1>0, <1>14 DEF Starts
<1>15. CASE UNCHANGED vars
  BY <1>0, <1>15 DEF vars
<1> QED
  BY <1>1, <1>2, <1>3, <1>4, <1>5, <1>6, <1>7, <1>8, <1>9, <1>10, <1>11, <1>12, <1>13,
     <1>14, <1>15 DEF Next, ShutsDown, Exits, Crashes

-----------------------------------------------------------------------------
(* Events *)

LEMMA StepEvent ==
  ASSUME IInv, [Next]_vars
  PROVE  EventInv'
<1> USE DEF EventInv, Stored
<1>0. TypeCore /\ MainInv /\ EventInv
  BY DEF IInv
<1> USE DEF TypeCore, poolVars, rows, process, faults
<1>1. ASSUME NEW e \in Events, CreateEvent(e) PROVE EventInv'
  <2>1. /\ intake[e] = "new" /\ intake' = [intake EXCEPT ![e] = "submit"]
        /\ UNCHANGED <<status, of, request, main>>
        /\ damaged \subseteq damaged'
        /\ eventRow' = eventRow \/ eventRow' = [eventRow EXCEPT ![e] = "pending"]
        /\ StoreClosed \/ e \in damaged' \/ eventRow'[e] # "none"
    BY <1>0, <1>1, CreateEventEffect
  <2> QED
    BY <1>0, <2>1 DEF StoreClosed
<1>2. ASSUME NEW e \in Events, NEW t \in Tasks, Submit(t, e),
             UNCHANGED <<eventRow, damaged, main>>,
             intake'[e] # "new", phase = "open" => Stored(e),
             \A d \in Events : intake'[d] = intake[d] \/ intake'[d] = "done",
             \A r \in Requests : request'[r].pc = "submit" => request'[r] = request[r]
      PROVE  EventInv'
  <2>1. /\ status[t] = "unsubmitted" /\ phase' = phase
        /\ \/ /\ status' = [status EXCEPT ![t] = "pending"]
              /\ of' = [of EXCEPT ![t] = e] /\ phase = "open"
           \/ status' = [status EXCEPT ![t] = "rejected"] /\ of' = of
    BY <1>0, <1>2, SubmitEffect
  <2>2. \A u \in Tasks \ {t} : status'[u] = status[u] /\ of'[u] = of[u]
    BY <1>0, <2>1
  <2>3. \/ status'[t] = "pending" /\ of'[t] = e /\ Stored(e)
        \/ status'[t] = "rejected" /\ of'[t] = NoEvent
    BY <1>0, <1>2, <2>1
  <2>4. \A u \in Tasks : IF status'[u] \in {"unsubmitted", "rejected"} THEN of'[u] = NoEvent
                         ELSE of'[u] \in Events /\ intake'[of'[u]] # "new" /\ Stored(of'[u])
    BY <1>0, <1>2, <2>2, <2>3
  <2> QED
    BY <1>0, <1>2, <2>4 DEF StoreClosed
<1>3. ASSUME NEW e \in Events, SubmitEvent(e) PROVE EventInv'
  <2>1. PICK t \in Tasks : Submit(t, e)
    BY <1>3 DEF SubmitEvent
  <2>2. phase = "open" => Stored(e)
    BY <1>0, <1>3 DEF SubmitEvent, MainInv, StoreClosed
  <2>3. /\ UNCHANGED <<eventRow, damaged, main, request>>
        /\ intake' = [intake EXCEPT ![e] = "done"]
    BY <1>3 DEF SubmitEvent
  <2> QED
    BY <1>0, <1>2, <2>1, <2>2, <2>3
<1>4. ASSUME NEW r \in Requests, RetrySubmits(r) PROVE EventInv'
  <2>1. PICK t \in Tasks : Submit(t, request[r].event)
    BY <1>4 DEF RetrySubmits
  <2>2. request[r].event \in Events /\ eventRow[request[r].event] # "none"
    BY <1>0, <1>4 DEF RetrySubmits
  <2>3. UNCHANGED <<eventRow, damaged, main, intake>>
    BY <1>4 DEF RetrySubmits
  <2>4. \A q \in Requests : request'[q].pc = "submit" => request'[q] = request[q]
    BY <1>0, <1>4 DEF RetrySubmits, RequestStates
  <2> QED
    BY <1>0, <1>2, <2>1, <2>2, <2>3, <2>4
<1>5. ASSUME NEW r \in Requests, NEW e \in Events, RetryChecks(r, e) PROVE EventInv'
  BY <1>0, <1>5 DEF RetryChecks, StoreClosed
<1>6. ASSUME NEW t \in Tasks, StartTask(t) PROVE EventInv'
  BY <1>0, <1>6 DEF StartTask, Pool!Start, StoreClosed
<1>7. ASSUME NEW t \in Tasks, Attempt(t) PROVE EventInv'
  <2>1. status[t] = "running" /\ of[t] \in Events
    BY <1>7, AttemptRuns
  <2>2. /\ UNCHANGED <<of, intake, request, main>> /\ damaged \subseteq damaged'
        /\ \A u \in Tasks \ {t} : status'[u] = status[u]
        /\ \A e \in Events :
             \/ eventRow'[e] = eventRow[e]
             \/ eventRow[e] # "none" /\ eventRow'[e] \in {"completed", "failed"}
    BY <1>0, <1>7, <2>1, AttemptFrame
  <2>3. status'[t] \in {"running", "completed", "failed"}
    BY <1>0, <1>7, <2>1, AttemptStatus
  <2>4. \A e \in Events : eventRow'[e] = "none" <=> eventRow[e] = "none"
    BY <2>2
  <2> QED
    BY <1>0, <2>1, <2>2, <2>3, <2>4 DEF StoreClosed
<1>8. ASSUME UNCHANGED <<status, of, intake, request, eventRow, damaged>>,
             StoreClosed => StoreClosed' \/ \A e \in Events : intake[e] # "submit"
      PROVE  EventInv'
  BY <1>0, <1>8
<1>9. ASSUME SignalArrives \/ (ShutsDown /\ ~Exits) \/ Starts
      PROVE  /\ UNCHANGED <<status, of, intake, request, eventRow, damaged>>
             /\ StoreClosed => StoreClosed' \/ \A e \in Events : intake[e] # "submit"
  BY <1>0, <1>9 DEF SignalArrives, ShutsDown, DeadlinePasses, AdminDrained, IntakeDrained,
       PoolStops, ClosesStore, MainGoes, Starts, StoreClosed, MainInv, Pool!Close, Pool!Stop
<1>10. CASE Goes
  <2>1. \A r \in Requests : request'[r].pc # "submit"
    <3>1. \A r \in Requests : [request[r] EXCEPT !.pc = "done"].pc = "done"
      BY <1>0 DEF RequestStates
    <3> QED
      BY <1>10, <3>1 DEF Goes
  <2>2. /\ \A e \in Events : /\ intake'[e] = "new" <=> intake[e] = "new"
                             /\ intake'[e] # "submit"
        /\ UNCHANGED <<of, eventRow, damaged>>
        /\ \A t \in Tasks : status'[t] = status[t]
                            \/ (status'[t] = "lost" /\ status[t] \in {"pending", "running"})
    BY <1>0, <1>10 DEF Goes, Active
  <2> QED
    BY <1>0, <2>1, <2>2
<1>11. CASE UNCHANGED vars
  BY <1>0, <1>11 DEF vars, StoreClosed
<1> QED
  BY <1>1, <1>3, <1>4, <1>5, <1>6, <1>7, <1>8, <1>9, <1>10, <1>11
     DEF Next, ShutsDown, Exits, Crashes

-----------------------------------------------------------------------------
(* Tasks *)

TaskOK(t) == (pc[t] # "idle" <=> status[t] = "running") /\ Rows(t) /\ Announced(t)

\* A step that is not about a task leaves what is said of it true: more may be damaged, and
\* an event that is done with does not become pending again.
LEMMA TaskKeeps ==
  ASSUME IInv, NEW t \in Tasks, TaskOK(t), of'[t] = of[t],
         status'[t] = status[t], pc'[t] = pc[t], notified'[t] = notified[t],
         taskRow'[t] = taskRow[t], t \in reportRow' <=> t \in reportRow,
         damaged \subseteq damaged',
         of[t] \in Events =>
           (eventRow'[of[t]] = "pending" => eventRow[of[t]] \in {"none", "pending"})
  PROVE  TaskOK(t)'
<1>1. ~Damaged(t)' => ~Damaged(t)
  BY DEF Damaged
<1>2. Announced(t)'
  BY DEF TaskOK, Announced
<1>3. status[t] \in NotStarted => taskRow'[t] = "none" /\ t \notin reportRow'
  BY DEF TaskOK, Rows
<1>4. ASSUME ~Damaged(t), status[t] \in {"running", "completed", "failed"}
      PROVE  of[t] \in Events /\ eventRow[of[t]] # "none"
  BY <1>4 DEF IInv, EventInv, Stored, Damaged
<1>5. ASSUME ~Damaged(t), status[t] = "running" PROVE RowsOfAttempt(t)'
  BY <1>4, <1>5 DEF TaskOK, Rows, RowsOfAttempt
<1>6. ASSUME ~Damaged(t), status[t] \in {"completed", "failed"} PROVE RowsAtEnd(t)'
  BY <1>4, <1>6 DEF TaskOK, Rows, RowsAtEnd
<1>7. ~Damaged(t) /\ status[t] = "lost" => taskRow'[t] # "completed"
  BY DEF TaskOK, Rows
<1> QED
  BY <1>1, <1>2, <1>3, <1>5, <1>6, <1>7 DEF TaskOK, Rows

\* A step of its own attempt leaves it true too.
LEMMA TaskAttempt ==
  ASSUME IInv, NEW t \in Tasks, TaskOK(t), Attempt(t)
  PROVE  TaskOK(t)'
<1>0. /\ TypeCore /\ status[t] = "running" /\ pc[t] # "idle" /\ of[t] \in Events
      /\ ~StoreClosed
  BY AttemptRuns DEF IInv
<1>1. damaged \subseteq damaged' /\ of' = of
  BY <1>0, AttemptFrame
<1>2. ~Damaged(t)' => t \notin damaged' /\ ~Damaged(t)
  BY <1>1 DEF Damaged
<1>3. ~Damaged(t) => RowsOfAttempt(t) /\ eventRow[of[t]] # "none"
  BY <1>0 DEF TaskOK, Rows, Damaged, IInv, EventInv, Stored
<1>4. ASSUME status'[t] = "running", pc'[t] # "idle", Announced(t)',
             ~Damaged(t)' => RowsOfAttempt(t)'
      PROVE  TaskOK(t)'
  BY <1>4 DEF TaskOK, Rows, NotStarted
<1>5. ASSUME status'[t] \in {"completed", "failed"}, pc'[t] = "idle", Announced(t)',
             ~Damaged(t)' => RowsAtEnd(t)'
      PROVE  TaskOK(t)'
  BY <1>5 DEF TaskOK, Rows, NotStarted
<1> USE DEF TypeCore, Goto, rows, poolVars
<1>10. CASE CreatesTask(t)
  <2>1. Announced(t)'
    BY <1>0, <1>10 DEF TaskOK, Announced, CreatesTask
  <2>2. ~Damaged(t)' => RowsOfAttempt(t)'
    BY <1>0, <1>1, <1>2, <1>3, <1>10, CreateTaskEffect DEF RowsOfAttempt, CreatesTask
  <2> QED
    BY <1>0, <1>4, <1>10, <2>1, <2>2 DEF CreatesTask
<1>11. CASE Diagnoses(t)
  <2>1. Announced(t)'
    BY <1>0, <1>11 DEF TaskOK, Announced, Diagnoses
  <2>2. ~Damaged(t)' => RowsOfAttempt(t)'
    BY <1>0, <1>1, <1>2, <1>3, <1>11 DEF RowsOfAttempt, Diagnoses
  <2> QED
    BY <1>0, <1>4, <1>11, <2>1, <2>2 DEF Diagnoses
<1>12. CASE DiagnosePanics(t)
  <2>1. Announced(t)'
    BY <1>0, <1>12, FinishEffect DEF TaskOK, Announced, DiagnosePanics
  <2>2. Damaged(t)'
    BY <1>12 DEF Damaged, DiagnosePanics
  <2> QED
    BY <1>0, <1>5, <1>12, <2>1, <2>2, FinishEffect DEF DiagnosePanics
<1>13. CASE FailsTask(t)
  <2>1. Announced(t)'
    BY <1>0, <1>13 DEF TaskOK, Announced, FailsTask
  <2>2. ~Damaged(t)' => RowsOfAttempt(t)'
    BY <1>0, <1>1, <1>2, <1>3, <1>13, UpdateTaskEffect DEF RowsOfAttempt, FailsTask
  <2> QED
    BY <1>0, <1>4, <1>13, <2>1, <2>2 DEF FailsTask
<1>14. CASE FailsEvent(t)
  <2>1. Announced(t)'
    BY <1>0, <1>14 DEF TaskOK, Announced, FailsEvent
  <2>2. ~Damaged(t)' => RowsOfAttempt(t)'
    BY <1>0, <1>1, <1>2, <1>3, <1>14, UpdateEventEffect DEF RowsOfAttempt, FailsEvent
  <2> QED
    BY <1>0, <1>4, <1>14, <2>1, <2>2 DEF FailsEvent
<1>15. CASE Retries(t)
  <2>1. Announced(t)'
    BY <1>0, <1>15 DEF TaskOK, Announced, Retries
  <2>2. ~Damaged(t)' => RowsOfAttempt(t)'
    BY <1>0, <1>1, <1>2, <1>3, <1>15 DEF RowsOfAttempt, Retries
  <2> QED
    BY <1>0, <1>4, <1>15, <2>1, <2>2 DEF Retries
<1>16. CASE GivesUp(t)
  <2>1. Announced(t)'
    BY <1>0, <1>16, FinishEffect DEF TaskOK, Announced, GivesUp
  <2>2. ~Damaged(t)' => RowsAtEnd(t)'
    BY <1>0, <1>1, <1>2, <1>3, <1>16, FinishEffect DEF RowsOfAttempt, RowsAtEnd, GivesUp
  <2> QED
    BY <1>0, <1>5, <1>16, <2>1, <2>2, FinishEffect DEF GivesUp
<1>17. CASE Notifies(t)
  <2>1. Announced(t)'
    BY <1>0, <1>17 DEF TaskOK, Announced, Notifies
  <2>2. ~Damaged(t)' => RowsOfAttempt(t)'
    BY <1>0, <1>1, <1>2, <1>3, <1>17 DEF RowsOfAttempt, Notifies
  <2> QED
    BY <1>0, <1>4, <1>17, <2>1, <2>2 DEF Notifies
<1>18. CASE SavesReport(t)
  <2>1. Announced(t)'
    BY <1>0, <1>18 DEF TaskOK, Announced, SavesReport
  <2>2. ~Damaged(t)' => RowsOfAttempt(t)'
    BY <1>0, <1>1, <1>2, <1>3, <1>18, SaveReportEffect DEF RowsOfAttempt, SavesReport
  <2> QED
    BY <1>0, <1>4, <1>18, <2>1, <2>2 DEF SavesReport
<1>19. CASE SavesEvent(t)
  <2>1. Announced(t)'
    BY <1>0, <1>19 DEF TaskOK, Announced, SavesEvent
  <2>2. ~Damaged(t)' => RowsOfAttempt(t)'
    BY <1>0, <1>1, <1>2, <1>3, <1>19, UpdateEventEffect DEF RowsOfAttempt, SavesEvent
  <2> QED
    BY <1>0, <1>4, <1>19, <2>1, <2>2 DEF SavesEvent
<1>20. CASE SavesTask(t)
  <2>1. Announced(t)'
    BY <1>0, <1>20, FinishEffect DEF TaskOK, Announced, SavesTask
  <2>2. ~Damaged(t)' => RowsAtEnd(t)'
    BY <1>0, <1>1, <1>2, <1>3, <1>20, FinishEffect, UpdateTaskEffect
       DEF RowsOfAttempt, RowsAtEnd, SavesTask
  <2> QED
    BY <1>0, <1>5, <1>20, <2>1, <2>2, FinishEffect DEF SavesTask
<1> QED
  BY <1>10, <1>11, <1>12, <1>13, <1>14, <1>15, <1>16, <1>17, <1>18, <1>19, <1>20 DEF Attempt

LEMMA StepTask ==
  ASSUME IInv, [Next]_vars
  PROVE  TaskInv'
<1> SUFFICES ASSUME NEW u \in Tasks PROVE TaskOK(u)'
  BY DEF TaskInv, TaskOK
<1>0. TypeCore /\ MainInv /\ EventInv /\ TaskOK(u)
  BY DEF IInv, TaskInv, TaskOK
<1> USE DEF TypeCore, poolVars, rows, process, faults
<1>1. ASSUME NEW e \in Events, CreateEvent(e) PROVE TaskOK(u)'
  <2>1. /\ intake[e] = "new" /\ UNCHANGED <<status, of, pc, notified, taskRow, reportRow>>
        /\ damaged \subseteq damaged'
        /\ eventRow' = eventRow \/ eventRow' = [eventRow EXCEPT ![e] = "pending"]
    BY <1>0, <1>1, CreateEventEffect
  <2>2. eventRow[e] = "none"
    BY <1>0, <2>1 DEF EventInv
  <2> QED
    BY <1>0, <2>1, <2>2, TaskKeeps
<1>2. ASSUME NEW e \in Events, NEW t \in Tasks, Submit(t, e),
             UNCHANGED <<pc, rows, notified, damaged>>
      PROVE  TaskOK(u)'
  <2>1. /\ status[t] = "unsubmitted"
        /\ \/ /\ status' = [status EXCEPT ![t] = "pending"]
              /\ of' = [of EXCEPT ![t] = e]
           \/ status' = [status EXCEPT ![t] = "rejected"] /\ of' = of
    BY <1>0, <1>2, SubmitEffect
  <2>2. CASE u # t
    BY <1>0, <1>2, <2>1, <2>2, TaskKeeps
  <2>3. CASE u = t
    BY <1>0, <1>2, <2>1, <2>3 DEF TaskOK, Rows, Announced, NotStarted
  <2> QED
    BY <2>2, <2>3
<1>3. ASSUME NEW e \in Events, SubmitEvent(e) PROVE TaskOK(u)'
  BY <1>2, <1>3 DEF SubmitEvent
<1>4. ASSUME NEW r \in Requests, RetrySubmits(r) PROVE TaskOK(u)'
  <2>1. request[r].event \in Events
    BY <1>0, <1>4 DEF RetrySubmits, EventInv
  <2> QED
    BY <1>2, <1>4, <2>1 DEF RetrySubmits
<1>5. ASSUME UNCHANGED <<status, of, pc, notified, rows, damaged>> PROVE TaskOK(u)'
  BY <1>0, <1>5, TaskKeeps
<1>6. ASSUME NEW r \in Requests, NEW e \in Events, RetryChecks(r, e) PROVE TaskOK(u)'
  BY <1>5, <1>6 DEF RetryChecks
<1>7. ASSUME NEW t \in Tasks, StartTask(t) PROVE TaskOK(u)'
  <2>1. /\ status[t] = "pending" /\ status' = [status EXCEPT ![t] = "running"]
        /\ pc' = [pc EXCEPT ![t] = "create"]
        /\ UNCHANGED <<of, notified, rows, damaged>>
    BY <1>7 DEF StartTask, Pool!Start, Goto
  <2>2. CASE u # t
    BY <1>0, <2>1, <2>2, TaskKeeps
  <2>3. CASE u = t
    <3>1. taskRow[u] = "none" /\ u \notin reportRow /\ notified[u] = 0
      BY <1>0, <2>1, <2>3 DEF TaskOK, Rows, Announced, NotStarted
    <3> QED
      BY <1>0, <2>1, <2>3, <3>1 DEF TaskOK, Rows, Announced, NotStarted, RowsOfAttempt
  <2> QED
    BY <2>2, <2>3
<1>8. ASSUME NEW t \in Tasks, Attempt(t) PROVE TaskOK(u)'
  <2>1. CASE u = t
    BY <1>0, <1>8, <2>1, TaskAttempt
  <2>2. CASE u # t
    <3>1. of[t] \in Events
      BY <1>8, AttemptRuns
    <3>2. /\ of' = of /\ status'[u] = status[u] /\ pc'[u] = pc[u]
          /\ notified'[u] = notified[u] /\ taskRow'[u] = taskRow[u]
          /\ (u \in reportRow' <=> u \in reportRow)
          /\ damaged \subseteq damaged'
          /\ \A e \in Events : \/ eventRow'[e] = eventRow[e]
                               \/ eventRow'[e] \in {"completed", "failed"}
      BY <1>0, <1>8, <2>2, <3>1, AttemptFrame
    <3> QED
      BY <1>0, <3>2, TaskKeeps
  <2> QED
    BY <2>1, <2>2
<1>9. CASE SignalArrives \/ (ShutsDown /\ ~Exits) \/ Starts
  BY <1>5, <1>9 DEF SignalArrives, ShutsDown, DeadlinePasses, AdminDrained, IntakeDrained,
       PoolStops, ClosesStore, MainGoes, Starts, Pool!Close, Pool!Stop
<1>10. CASE Goes
  <2>1. /\ pc'[u] = "idle" /\ UNCHANGED <<of, notified, rows, damaged>>
        /\ status'[u] = IF Active(u) THEN "lost" ELSE status[u]
    BY <1>0, <1>10 DEF Goes
  <2>2. CASE ~Active(u)
    BY <1>0, <2>1, <2>2, TaskKeeps DEF TaskOK, Active
  <2>3. CASE Active(u)
    <3>1. ~Damaged(u) => taskRow[u] # "completed"
      BY <1>0, <2>3 DEF TaskOK, Rows, RowsOfAttempt, Active, NotStarted, Places
    <3>2. notified[u] \in {0, 1}
      BY <1>0 DEF TaskOK, Announced
    <3> QED
      BY <2>1, <2>3, <3>1, <3>2 DEF TaskOK, Rows, Announced, NotStarted, Damaged
  <2> QED
    BY <2>2, <2>3
<1>11. CASE UNCHANGED vars
  BY <1>5, <1>11 DEF vars
<1> QED
  BY <1>1, <1>3, <1>4, <1>6, <1>7, <1>8, <1>9, <1>10, <1>11
     DEF Next, ShutsDown, Exits, Crashes

-----------------------------------------------------------------------------
(* The invariant *)

LEMMA InitInv == Init => IInv
<1> SUFFICES ASSUME Init PROVE IInv
  OBVIOUS
<1> USE PipelineAssumption DEF PipelineAssumption, Init, Pool!Init
<1>1. TypeCore
  <2>1. request \in [Requests -> RequestStates]
    <3>1. [pc |-> "new", event |-> NoEvent] \in RequestStates
      BY DEF RequestStates
    <3> QED
      BY <3>1
  <2>2. attempt \in [Tasks -> 0..MaxRetries] /\ notified \in [Tasks -> Nat]
    OBVIOUS
  <2>3. status \in [Tasks -> Statuses] /\ pc \in [Tasks -> Places] /\ main \in Mains
    BY DEF Statuses, Places, Mains
  <2>4. /\ of \in [Tasks -> Events \cup {NoEvent}]
        /\ intake \in [Events -> {"new", "submit", "done"}]
        /\ eventRow \in [Events -> {"none", "pending", "completed", "failed"}]
        /\ taskRow \in [Tasks -> {"none", "running", "completed", "failed"}]
    OBVIOUS
  <2>5. failures \in 0..MaxFailures /\ starts \in 0..MaxStarts
    OBVIOUS
  <2>6. /\ phase \in {"open", "closed", "stopped"} /\ late \in BOOLEAN
        /\ reportRow \subseteq Tasks /\ damaged \subseteq Tasks \cup Events
    OBVIOUS
  <2> QED
    BY <2>1, <2>2, <2>3, <2>4, <2>5, <2>6 DEF TypeCore
<1>2. MainInv
  BY DEF MainInv
<1>3. EventInv
  BY DEF EventInv
<1>4. TaskInv
  BY DEF TaskInv, Rows, Announced, NotStarted
<1> QED
  BY <1>1, <1>2, <1>3, <1>4 DEF IInv

LEMMA StepInv == IInv /\ [Next]_vars => IInv'
BY StepType, StepMain, StepEvent, StepTask DEF IInv

\* How far the shutdown of main.go is, what is in the store before a task of an event is in
\* the pool, and what the rows say at each place of an attempt: all of it holds always.
THEOREM Invariance == Spec => []IInv
BY InitInv, StepInv, PTL DEF Spec, Safety

-----------------------------------------------------------------------------
(* The properties *)

\* Types, also of the counts that only the stages of a task bound: diagnoseFn notifies once
\* for a task and not once for each of its attempts.
THEOREM TypeCorrect == Spec => []TypeOK
<1>1. IInv => TypeOK
  <2> SUFFICES ASSUME IInv PROVE TypeOK
    OBVIOUS
  <2>1. notified \in [Tasks -> 0..(MaxRetries + 1)]
    <3>1. \A t \in Tasks : notified[t] \in {0, 1}
      BY DEF IInv, TaskInv, Announced
    <3>2. {0, 1} \subseteq 0..(MaxRetries + 1)
      BY PipelineAssumption DEF PipelineAssumption
    <3> QED
      BY <3>1, <3>2 DEF IInv, TypeCore
  <2>2. main # "exited" => (phase = "closed" <=> main = "stopping")
    BY DEF IInv, MainInv, TypeCore, Mains
  <2>3. \A t \in Tasks : pc[t] # "idle" <=> status[t] = "running"
    BY DEF IInv, TaskInv
  <2> QED
    BY <2>1, <2>2, <2>3 DEF IInv, TypeCore, TypeOK, Statuses, Places, Mains, RequestStates
<1> QED
  BY <1>1, Invariance, PTL

\* The rows of a task that has ended say how it did, whatever ran beside it, unless a write
\* of the store failed or the attempt panicked.  diagnoseFn saves the report before it marks
\* the task completed: whoever reads the mark finds the report.
THEOREM OutcomeIsTold == Spec => []RowTellsOutcome
<1>1. IInv => RowTellsOutcome
  <2> SUFFICES ASSUME IInv, NEW t \in Tasks, ~Damaged(t)
               PROVE  /\ status[t] = "completed" => /\ taskRow[t] = "completed"
                                                    /\ eventRow[of[t]] # "pending"
                      /\ taskRow[t] = "completed" => t \in reportRow
                      /\ status[t] = "failed" => taskRow[t] = "failed" /\ t \notin reportRow
                      /\ taskRow[t] = "running" => status[t] \in {"running", "lost"}
    BY DEF RowTellsOutcome
  <2>1. Rows(t) /\ status[t] \in Statuses /\ (pc[t] # "idle" <=> status[t] = "running")
        /\ pc[t] \in Places
    BY DEF IInv, TaskInv, TypeCore
  <2> QED
    BY <2>1 DEF Rows, RowsAtEnd, RowsOfAttempt, NotStarted, Statuses, Places
<1> QED
  BY <1>1, Invariance, PTL

\* Notify is called once for a task at most, for no failure after it is an error of
\* diagnoseFn, which the scheduler would answer with another attempt.
THEOREM OneNotice == Spec => []NotifiedOnce
<1>1. IInv => NotifiedOnce
  BY DEF IInv, TaskInv, Announced, NotifiedOnce
<1> QED
  BY <1>1, Invariance, PTL

\* main closes the store when all tasks have ended and their rows say how; a handler that
\* is there still was given up at the deadline.
THEOREM StoreClosesLast == Spec => []ShutdownSettles
<1>1. IInv => ShutdownSettles
  <2> SUFFICES ASSUME IInv, main = "storeClosed"
               PROVE  /\ \A t \in Tasks :
                           /\ ~Active(t)
                           /\ status[t] \in {"completed", "failed"} /\ ~Damaged(t) =>
                                taskRow[t] = status[t] /\ eventRow[of[t]] # "pending"
                      /\ \A e \in Events : intake[e] = "submit" => late
                      /\ \A r \in Requests : request[r].pc = "submit" => late
    BY DEF ShutdownSettles
  <2>1. /\ \A t \in Tasks : ~Active(t)
        /\ \A e \in Events : intake[e] = "submit" => late
        /\ \A r \in Requests : request[r].pc = "submit" => late
    BY DEF IInv, MainInv
  <2>2. \A t \in Tasks : status[t] \in {"completed", "failed"} /\ ~Damaged(t) =>
                           taskRow[t] = status[t] /\ eventRow[of[t]] # "pending"
    BY DEF IInv, TaskInv, Rows, RowsAtEnd
  <2> QED
    BY <2>1, <2>2
<1> QED
  BY <1>1, Invariance, PTL

\* Of the scheduler the process uses what TaskPool promises, in the order it promises it, and
\* when main ends after a shutdown no task is left that would be lost.
THEOREM PoolIsUsed == Spec => UsesPool
<1>1. ASSUME IInv, [Next]_vars
      PROVE  [ \/ Pool!Next
               \/ main # "storeClosed" /\ main' = "exited"
               \/ main = "exited" ]_poolVars
  <2> USE DEF poolVars
  <2>1. ASSUME NEW t \in Tasks, NEW e, Submit(t, e) PROVE Pool!Next
    BY <2>1 DEF Submit, Pool!Next
  <2>2. ASSUME NEW t \in Tasks, NEW end, Finish(t, end) PROVE Pool!Next
    BY <2>2 DEF Finish, Pool!Next
  <2>3. ASSUME NEW e \in Events, CreateEvent(e) \/ SubmitEvent(e)
        PROVE  Pool!Next \/ UNCHANGED poolVars
    BY <2>1, <2>3 DEF CreateEvent, SubmitEvent
  <2>4. ASSUME NEW r \in Requests, RetrySubmits(r) \/ \E e \in Events : RetryChecks(r, e)
        PROVE  Pool!Next \/ UNCHANGED poolVars
    BY <2>1, <2>4 DEF RetrySubmits, RetryChecks
  <2>5. ASSUME NEW t \in Tasks, StartTask(t) PROVE Pool!Next
    BY <2>5 DEF StartTask, Pool!Next
  <2>6. ASSUME NEW t \in Tasks, Attempt(t) PROVE Pool!Next \/ UNCHANGED poolVars
    BY <2>2, <2>6 DEF Attempt, CreatesTask, Diagnoses, DiagnosePanics, FailsTask, FailsEvent,
         Retries, GivesUp, Notifies, SavesReport, SavesEvent, SavesTask
  <2>7. CASE Exits
    <3>1. \A t \in Tasks : ~Active(t)
      BY <1>1, <2>7 DEF IInv, MainInv, Exits
    <3>2. status' = [t \in Tasks |-> status[t]]
      BY <2>7, <3>1 DEF Exits, Goes
    <3>3. status' = status
      BY <1>1, <3>2 DEF IInv, TypeCore
    <3> QED
      BY <2>7, <3>3 DEF Exits, Goes
  <2>8. CASE SignalArrives \/ (ShutsDown /\ ~Exits)
    BY <2>8 DEF SignalArrives, ShutsDown, DeadlinePasses, AdminDrained, IntakeDrained,
         PoolStops, ClosesStore, MainGoes, Pool!Next
  <2>9. CASE Crashes
    <3>1. CASE main = "storeClosed"
      BY <2>7, <2>9, <3>1 DEF Crashes, Exits
    <3>2. CASE main # "storeClosed"
      BY <2>9, <3>2 DEF Crashes, Goes
    <3> QED
      BY <3>1, <3>2
  <2>10. CASE Starts
    BY <2>10 DEF Starts
  <2>11. CASE UNCHANGED vars
    BY <2>11 DEF vars
  <2> QED
    BY <1>1, <2>3, <2>4, <2>5, <2>6, <2>7, <2>8, <2>9, <2>10, <2>11 DEF Next
<1> QED
  BY <1>1, Invariance, PTL DEF Spec, Safety, UsesPool
=============================================================================
