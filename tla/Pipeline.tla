------------------------------ MODULE Pipeline ------------------------------
(***************************************************************************)
(* What main.go makes of the parts: onEvent stores a reported event and    *)
(* submits it, diagnoseFn runs each attempt of a task and keeps the rows   *)
(* of the store up to date, the admin API (api/server.go) submits an event *)
(* again, and main shuts them down one after another.  The scheduler is    *)
(* the pool of TaskPool, which Scheduler implements; its retries are here, *)
(* for each is a call of diagnoseFn.                                       *)
(*                                                                         *)
(* The rows are those of store/sqlite.go and store/mysql.go, foreign keys  *)
(* included.  A call of the store is one step, and it may fail.  The       *)
(* process may die and start again: the rows remain and nothing else does. *)
(*                                                                         *)
(* A definition named Slip... is the one below it as a plausible bug would *)
(* have it; the specification does not use it.                             *)
(***************************************************************************)
EXTENDS Integers, FiniteSets

CONSTANTS
  Events,          \* the events that pass the checks of the intake handler
  Tasks,           \* one element per call of Submit that could be made
  Requests,        \* the admin requests POST /admin/v1/incidents/{id}/retry
  MaxConcurrency,  \* the workers of the scheduler
  MaxRetries,      \* the retries of a task
  MaxFailures,     \* bound: store writes that fail
  MaxStarts,       \* bound: starts of the process after the first
  NoEvent

ASSUME PipelineAssumption ==
  /\ IsFiniteSet(Tasks)
  /\ MaxConcurrency \in Nat \ {0}
  /\ MaxRetries \in Nat /\ MaxFailures \in Nat /\ MaxStarts \in Nat
  /\ NoEvent \notin Events

VARIABLES
  status, phase,   \* those of TaskPool; a task of a dead process is "lost"
  of,              \* the event of each task
  intake,          \* where onEvent is with each event
  request,         \* where each admin request is, and its event
  pc,              \* where diagnoseFn, or the wait for a retry, is with each task
  attempt,
  eventRow, taskRow, reportRow,   \* the rows: their status; the tasks with a report
  notified,        \* how often Notify was called for a task
  main,            \* how far the shutdown is
  late,            \* the 30 s of the shutdown are over
  \* History, read by the properties only.
  damaged,         \* the tasks and events with a write that failed, or a panic
  failures, starts

poolVars == <<status, phase>>
rows == <<eventRow, taskRow, reportRow>>
process == <<main, late, starts>>
faults == <<damaged, failures>>
vars == <<poolVars, of, intake, request, pc, attempt, rows, notified, process, faults>>

Pool == INSTANCE TaskPool

-----------------------------------------------------------------------------
Active(t) == status[t] \in {"pending", "running"}
TasksOf(e) == {t \in Tasks : of[t] = e}
Damaged(t) == t \in damaged \/ of[t] \in damaged

Init ==
  /\ Pool!Init
  /\ of = [t \in Tasks |-> NoEvent]
  /\ intake = [e \in Events |-> "new"]
  /\ request = [r \in Requests |-> [pc |-> "new", event |-> NoEvent]]
  /\ pc = [t \in Tasks |-> "idle"]
  /\ attempt = [t \in Tasks |-> 0]
  /\ eventRow = [e \in Events |-> "none"]
  /\ taskRow = [t \in Tasks |-> "none"]
  /\ reportRow = {}
  /\ notified = [t \in Tasks |-> 0]
  /\ damaged = {}
  /\ main = "serving" /\ late = FALSE
  /\ failures = 0 /\ starts = 0

Goto(t, place) == pc' = [pc EXCEPT ![t] = place]

-----------------------------------------------------------------------------
(* The store *)

StoreClosed == main \in {"storeClosed", "exited"}

\* A write that fails leaves its row alone; the callers log it and go on.
WriteFails(x) ==
  /\ failures < MaxFailures
  /\ failures' = failures + 1
  /\ damaged' = damaged \cup {x}
  /\ UNCHANGED rows

\* A write of task or event x.  On a store that is closed every write fails.
Write(x, change) ==
  \/ ~StoreClosed /\ change /\ UNCHANGED faults
  \/ ~StoreClosed /\ WriteFails(x)
  \/ StoreClosed /\ UNCHANGED <<rows, faults>>

\* UPDATE changes nothing, and fails not, where there is no row.
UpdateTask(t, s) ==
  Write(t, /\ taskRow' = [taskRow EXCEPT ![t] = IF @ = "none" THEN "none" ELSE s]
           /\ UNCHANGED <<eventRow, reportRow>>)

UpdateEvent(t, s) ==
  Write(t, /\ eventRow' = [eventRow EXCEPT ![of[t]] = IF @ = "none" THEN "none" ELSE s]
           /\ UNCHANGED <<taskRow, reportRow>>)

\* CreateTask, and UpdateTask when that fails; the row of the event must exist.
CreateTask(t) ==
  Write(t, /\ taskRow' = IF taskRow[t] = "none" /\ eventRow[of[t]] = "none"
                         THEN taskRow ELSE [taskRow EXCEPT ![t] = "running"]
           /\ UNCHANGED <<eventRow, reportRow>>)

\* The row of the task must exist.
SaveReport(t) ==
  Write(t, /\ reportRow' = IF taskRow[t] = "none" THEN reportRow ELSE reportRow \cup {t}
           /\ UNCHANGED <<eventRow, taskRow>>)

-----------------------------------------------------------------------------
(* Submission *)

\* sched.Submit for event e: accepted as task t, or refused.
Submit(t, e) ==
  \/ Pool!Accept(t) /\ of' = [of EXCEPT ![t] = e]
  \/ Pool!Refuse(t) /\ UNCHANGED of

\* A server that is shut down takes no request; a handler that Shutdown did not wait
\* for goes on to the end of the process.
HandlersRun(before) == main # "exited" /\ (main \in before \/ late)
IntakeRuns == HandlersRun({"serving", "drainAdmin", "drainIntake"})
AdminRuns == HandlersRun({"serving", "drainAdmin"})

\* onEvent stores the event, ...
CreateEvent(e) ==
  /\ IntakeRuns
  /\ intake[e] = "new"
  /\ intake' = [intake EXCEPT ![e] = "submit"]
  /\ Write(e, /\ eventRow' = [eventRow EXCEPT ![e] = "pending"]
              /\ UNCHANGED <<taskRow, reportRow>>)
  /\ UNCHANGED <<poolVars, of, request, pc, attempt, notified, process>>

\* ... and submits it, whether or not that worked.
SubmitEvent(e) ==
  /\ intake[e] = "submit"
  /\ intake' = [intake EXCEPT ![e] = "done"]
  /\ \E t \in Tasks : Submit(t, e)
  /\ UNCHANGED <<request, pc, attempt, rows, notified, process, faults>>

\* handleRetry: the event is in the store and no task row of it is active.  The rows
\* are all it looks at; none is written before a worker starts the task.
ActiveRows(e) == {t \in TasksOf(e) : taskRow[t] = "running"}

RetryChecks(r, e) ==
  /\ AdminRuns /\ ~StoreClosed
  /\ request[r].pc = "new"
  /\ eventRow[e] # "none"
  /\ request' = [request EXCEPT ![r] =
       [pc |-> IF ActiveRows(e) = {} THEN "submit" ELSE "refused", event |-> e]]
  /\ UNCHANGED <<poolVars, of, intake, pc, attempt, rows, notified, process, faults>>

RetrySubmits(r) ==
  /\ request[r].pc = "submit"
  /\ request' = [request EXCEPT ![r].pc = "done"]
  /\ \E t \in Tasks : Submit(t, request[r].event)
  /\ UNCHANGED <<intake, pc, attempt, rows, notified, process, faults>>

-----------------------------------------------------------------------------
(* diagnoseFn, and the scheduler's loop around it *)

StartTask(t) ==
  /\ Pool!Start(t)
  /\ Goto(t, "create")
  /\ UNCHANGED <<of, intake, request, attempt, rows, notified, process, faults>>

CreatesTask(t) ==
  /\ pc[t] = "create"
  /\ CreateTask(t)
  /\ Goto(t, "diagnose")
  /\ UNCHANGED <<poolVars, of, intake, request, attempt, notified, process>>

\* engine.Diagnose returns a report or an error.
Diagnoses(t) ==
  /\ pc[t] = "diagnose"
  /\ \/ Goto(t, "notify")
     \/ Goto(t, "failTask")
  /\ UNCHANGED <<poolVars, of, intake, request, attempt, rows, notified, process, faults>>

Finish(t, end) ==
  /\ Pool!Finish(t)
  /\ status'[t] = end
  /\ Goto(t, "idle")

\* It panics: the scheduler recovers, and no row is written.
DiagnosePanics(t) ==
  /\ pc[t] = "diagnose"
  /\ Finish(t, "failed")
  /\ damaged' = damaged \cup {t}
  /\ UNCHANGED <<of, intake, request, attempt, rows, notified, process, failures>>

\* Slip: the row is written with the context of the diagnosis, which may be done.
SlipFailsTask(t) ==
  /\ pc[t] = "failTask"
  /\ UpdateTask(t, "failed") \/ UNCHANGED <<rows, faults>>
  /\ Goto(t, "failEvent")
  /\ UNCHANGED <<poolVars, of, intake, request, attempt, notified, process>>

\* The context of these writes is one of their own, storeCtx.
FailsTask(t) ==
  /\ pc[t] = "failTask"
  /\ UpdateTask(t, "failed")
  /\ Goto(t, "failEvent")
  /\ UNCHANGED <<poolVars, of, intake, request, attempt, notified, process>>

\* diagnoseFn returns the error.
FailsEvent(t) ==
  /\ pc[t] = "failEvent"
  /\ UpdateEvent(t, "failed")
  /\ Goto(t, "failed")
  /\ UNCHANGED <<poolVars, of, intake, request, attempt, notified, process>>

\* Slip: the loop makes one attempt too many.
SlipRetries(t) ==
  /\ pc[t] = "failed"
  /\ attempt[t] <= MaxRetries
  /\ attempt' = [attempt EXCEPT ![t] = @ + 1]
  /\ Goto(t, "create")
  /\ UNCHANGED <<poolVars, of, intake, request, rows, notified, process, faults>>

\* processTask: another attempt, if one is left, ...
Retries(t) ==
  /\ pc[t] = "failed"
  /\ attempt[t] < MaxRetries
  /\ attempt' = [attempt EXCEPT ![t] = @ + 1]
  /\ Goto(t, "create")
  /\ UNCHANGED <<poolVars, of, intake, request, rows, notified, process, faults>>

\* ... or the end of the task; also when the scheduler is shutting down.
GivesUp(t) ==
  /\ pc[t] = "failed"
  /\ attempt[t] = MaxRetries \/ phase # "open"
  /\ Finish(t, "failed")
  /\ UNCHANGED <<of, intake, request, attempt, rows, notified, process, faults>>

\* Slip: the report is saved last.
SlipNotifies(t) ==
  /\ pc[t] = "notify"
  /\ notified' = [notified EXCEPT ![t] = @ + 1]
  /\ UpdateTask(t, "completed")
  /\ Goto(t, "saveReport")
  /\ UNCHANGED <<poolVars, of, intake, request, attempt, process>>

\* Notify sends the card or gives up; its error is only logged.
Notifies(t) ==
  /\ pc[t] = "notify"
  /\ notified' = [notified EXCEPT ![t] = @ + 1]
  /\ Goto(t, "saveReport")
  /\ UNCHANGED <<poolVars, of, intake, request, attempt, rows, process, faults>>

\* Slip: a report that could not be saved is an error of the attempt.
SlipSavesReport(t) ==
  /\ pc[t] = "saveReport"
  /\ SaveReport(t)
  /\ Goto(t, IF t \in reportRow' THEN "saveEvent" ELSE "failTask")
  /\ UNCHANGED <<poolVars, of, intake, request, attempt, notified, process>>

SavesReport(t) ==
  /\ pc[t] = "saveReport"
  /\ SaveReport(t)
  /\ Goto(t, "saveEvent")
  /\ UNCHANGED <<poolVars, of, intake, request, attempt, notified, process>>

SavesEvent(t) ==
  /\ pc[t] = "saveEvent"
  /\ UpdateEvent(t, "completed")
  /\ Goto(t, "saveTask")
  /\ UNCHANGED <<poolVars, of, intake, request, attempt, notified, process>>

\* diagnoseFn returns nil.
SavesTask(t) ==
  /\ pc[t] = "saveTask"
  /\ UpdateTask(t, "completed")
  /\ Finish(t, "completed")
  /\ UNCHANGED <<of, intake, request, attempt, notified, process>>

-----------------------------------------------------------------------------
(* The end of the process: main after the signal *)

MainGoes(from, to) ==
  /\ main = from
  /\ main' = to
  /\ UNCHANGED <<of, intake, request, pc, attempt, rows, notified, late, starts, faults>>

\* The admin server takes no more requests, ...
SignalArrives ==
  /\ MainGoes("serving", "drainAdmin")
  /\ UNCHANGED poolVars

DeadlinePasses ==
  /\ main \in {"drainAdmin", "drainIntake"}
  /\ ~late
  /\ late' = TRUE
  /\ UNCHANGED <<poolVars, of, intake, request, pc, attempt, rows, notified, main, starts,
                 faults>>

\* Slip: Shutdown waits without a deadline.
SlipWaitOver(handlers) == handlers = {}

\* Shutdown waits for the handlers in flight; the two calls share one deadline.
WaitOver(handlers) == handlers = {} \/ late

\* ... and when it is done with them the intake server takes no more.
AdminDrained ==
  /\ WaitOver({r \in Requests : request[r].pc = "submit"})
  /\ MainGoes("drainAdmin", "drainIntake")
  /\ UNCHANGED poolVars

\* sched.Stop closes the queue and waits for the workers, ...
IntakeDrained ==
  /\ WaitOver({e \in Events : intake[e] = "submit"})
  /\ MainGoes("drainIntake", "stopping")
  /\ Pool!Close

PoolStops ==
  /\ Pool!Stop
  /\ MainGoes("stopping", "stopped")

\* Slip: the store is closed without waiting for the workers.
SlipClosesStore ==
  /\ MainGoes("stopping", "storeClosed")
  /\ UNCHANGED poolVars

\* ... then main returns and the store is closed, ...
ClosesStore ==
  /\ MainGoes("stopped", "storeClosed")
  /\ UNCHANGED poolVars

\* The process is gone, whatever still ran in it.
Goes ==
  /\ main' = "exited"
  /\ status' = [t \in Tasks |-> IF Active(t) THEN "lost" ELSE status[t]]
  /\ pc' = [t \in Tasks |-> "idle"]
  /\ intake' = [e \in Events |-> IF intake[e] = "submit" THEN "done" ELSE intake[e]]
  /\ request' = [r \in Requests |->
                   IF request[r].pc = "submit" THEN [request[r] EXCEPT !.pc = "done"]
                                               ELSE request[r]]
  /\ UNCHANGED <<phase, of, attempt, rows, notified, late, starts, faults>>

\* ... last of all.
Exits == main = "storeClosed" /\ Goes

\* It may also die at any time (a death that no start follows shows nothing more).
Crashes == main # "exited" /\ starts < MaxStarts /\ Goes

Starts ==
  /\ main = "exited"
  /\ starts < MaxStarts
  /\ starts' = starts + 1
  /\ main' = "serving" /\ late' = FALSE /\ phase' = "open"
  /\ UNCHANGED <<status, of, intake, request, pc, attempt, rows, notified, faults>>

ShutsDown ==
  \/ DeadlinePasses
  \/ AdminDrained
  \/ IntakeDrained
  \/ PoolStops
  \/ ClosesStore
  \/ Exits

Attempt(t) ==
  \/ CreatesTask(t)
  \/ Diagnoses(t)
  \/ DiagnosePanics(t)
  \/ FailsTask(t)
  \/ FailsEvent(t)
  \/ Retries(t)
  \/ GivesUp(t)
  \/ Notifies(t)
  \/ SavesReport(t)
  \/ SavesEvent(t)
  \/ SavesTask(t)

Next ==
  \/ \E e \in Events : CreateEvent(e) \/ SubmitEvent(e)
  \/ \E r \in Requests : RetrySubmits(r) \/ \E e \in Events : RetryChecks(r, e)
  \/ \E t \in Tasks : StartTask(t) \/ Attempt(t)
  \/ SignalArrives \/ ShutsDown
  \/ Crashes \/ Starts

\* A worker that is free takes a task, each call in an attempt returns, and main goes
\* on after the signal.  Nothing is assumed of the handlers.
Fairness ==
  /\ \A t \in Tasks : WF_vars(StartTask(t)) /\ WF_vars(Attempt(t))
  /\ WF_vars(ShutsDown)

Safety == Init /\ [][Next]_vars
Spec == Safety /\ Fairness

-----------------------------------------------------------------------------
(* Properties *)

TypeOK ==
  /\ status \in [Tasks -> {"unsubmitted", "rejected", "pending", "running",
                           "completed", "failed", "lost"}]
  /\ phase \in {"open", "closed", "stopped"}
  /\ of \in [Tasks -> Events \cup {NoEvent}]
  /\ intake \in [Events -> {"new", "submit", "done"}]
  /\ request \in [Requests -> [pc : {"new", "submit", "refused", "done"},
                               event : Events \cup {NoEvent}]]
  /\ pc \in [Tasks -> {"idle", "create", "diagnose", "failTask", "failEvent", "failed",
                       "notify", "saveReport", "saveEvent", "saveTask"}]
  /\ \A t \in Tasks : pc[t] # "idle" <=> status[t] = "running"
  /\ attempt \in [Tasks -> 0..MaxRetries]
  /\ eventRow \in [Events -> {"none", "pending", "completed", "failed"}]
  /\ taskRow \in [Tasks -> {"none", "running", "completed", "failed"}]
  /\ reportRow \subseteq Tasks /\ damaged \subseteq Tasks \cup Events
  /\ main \in {"serving", "drainAdmin", "drainIntake", "stopping", "stopped",
               "storeClosed", "exited"}
  /\ main # "exited" => (phase = "closed" <=> main = "stopping")
  /\ late \in BOOLEAN
  /\ notified \in [Tasks -> 0..(MaxRetries + 1)]
  /\ failures \in 0..MaxFailures /\ starts \in 0..MaxStarts

\* A task ends with the rows that say how, also when it was retried, ran beside
\* another task of its event, or was cut short by the shutdown; only a write that
\* failed or a panic is an excuse.  Whoever reads that a task is completed can read its
\* report, at any moment, for the report is saved first; and a row says running only of
\* a task that runs, or ran in a process that died.
RowTellsOutcome ==
  \A t \in {u \in Tasks : ~Damaged(u)} :
    /\ status[t] = "completed" => taskRow[t] = "completed" /\ eventRow[of[t]] # "pending"
    /\ taskRow[t] = "completed" => t \in reportRow
    /\ status[t] = "failed" => taskRow[t] = "failed" /\ t \notin reportRow
    /\ taskRow[t] = "running" => status[t] \in {"running", "lost"}

\* Notify is called once for a task at most, whatever fails after it: no failure of
\* a write makes the scheduler run the task again.
NotifiedOnce == \A t \in Tasks : notified[t] <= 1

\* What the comment in handleRetry says of its check: no second task is started for
\* an event that has an active one.
OneActivePerEvent ==
  \A e \in Events : Cardinality({t \in TasksOf(e) : Active(t)}) <= 1

\* What the answer of handleRetry says: the retry is refused because the event has an
\* active task (when it is given, or since it was).
RefusedForActive ==
  [][\A r \in Requests :
       request'[r].pc = "refused" /\ request[r].pc = "new" =>
         \E t \in TasksOf(request'[r].event) : Active(t)]_vars

\* The row of a task that has started gets to an end, if the process lives.
RowsSettle ==
  \A t \in Tasks :
    taskRow[t] = "running" ~> taskRow[t] # "running" \/ t \in damaged \/ status[t] = "lost"

\* When main closes the store nothing is left to write: each task the scheduler took, also
\* from a handler that was in flight, has ended, and its rows say how.  A handler that is
\* still there was given up after the 30 s, and what it submits is refused.
ShutdownSettles ==
  main = "storeClosed" =>
    /\ \A t \in Tasks :
         /\ ~Active(t)
         /\ status[t] \in {"completed", "failed"} /\ ~Damaged(t) =>
              taskRow[t] = status[t] /\ eventRow[of[t]] # "pending"
    /\ (\E e \in Events : intake[e] = "submit") \/ (\E r \in Requests : request[r].pc = "submit")
         => late

\* All that the process does with the scheduler is what TaskPool lets its callers do, and
\* its end after a shutdown leaves the pool as it is: no task is lost.  Only a death before
\* that, and the next start, are no steps of the pool.
UsesPool ==
  [][ \/ Pool!Next
      \/ main # "storeClosed" /\ main' = "exited"
      \/ main = "exited" ]_poolVars

\* A shutdown that has begun comes to its end, whatever the handlers do: one that hangs
\* holds it up for 30 s at most, and the queue is worked off.
ShutdownEnds == main = "drainAdmin" ~> main = "exited"
=============================================================================
