----------------------------- MODULE Scheduler -----------------------------
(***************************************************************************)
(* The in-memory task scheduler: scheduler/scheduler.go and the priority   *)
(* queue of scheduler/task.go.  HTTP handlers call Submit; the worker      *)
(* goroutines pop tasks and run diagnose on them, with retries; main calls *)
(* Stop once, at shutdown.                                                 *)
(*                                                                         *)
(* A step is what happens under one lock (stopMu for Submit and the first  *)
(* part of Stop, pq.mu for pop) or between two calls that other goroutines *)
(* can see.  diagnose is a parameter of the scheduler: it returns nil, an  *)
(* error, or panics, at a time of its choosing.                            *)
(*                                                                         *)
(* A definition named Slip... is the one below it as a plausible bug would *)
(* have it; the specification does not use it.  Each shows that a property *)
(* tells the two apart.                                                    *)
(***************************************************************************)
EXTENDS Integers, FiniteSets

CONSTANTS
  Tasks,        \* one element per call of Submit (a Submit makes one Task)
  Workers,      \* the goroutines Start launches; MaxConcurrency many
  Severities,   \* the severities of submitted events
  QueueSize,    \* Config.QueueSize, as given
  RetryCount,   \* Config.RetryCount, as given
  NoTask        \* what a worker holds between two tasks

ASSUME SchedulerAssumption ==
  /\ IsFiniteSet(Tasks)
  /\ IsFiniteSet(Workers)
  /\ Workers # {}
  /\ QueueSize \in Int
  /\ RetryCount \in Int
  /\ NoTask \notin Tasks

\* New replaces what the configuration leaves out.
MaxSize == IF QueueSize <= 0 THEN 100 ELSE QueueSize
MaxRetries == IF RetryCount < 0 THEN 2 ELSE RetryCount

SeverityPriority(severity) ==
  CASE severity = "critical" -> 100
    [] severity = "info"     -> 10
    [] OTHER                 -> 50

VARIABLES
  status,      \* Task.Status; "unsubmitted" before Submit, "rejected" if it failed
  priority,    \* Task.Priority
  createdAt,   \* Task.CreatedAt
  retryCount,  \* Task.RetryCount
  error,       \* Task.Error, by kind; "none" is the empty string
  queue,       \* the tasks in the heap
  closed,      \* priorityQueue.closed
  stopped,     \* Scheduler.stopped
  cancelled,   \* Scheduler.ctx is done
  stopPc,      \* where the caller of Stop is
  pc,          \* where each worker is
  cur,         \* the task each worker holds
  attempt,     \* the attempt variable of processTask
  running, completed, failed,   \* the counters Stats reports
  clock        \* time.Now, in as many ticks as there are submissions

taskVars == <<status, priority, createdAt, retryCount, error>>
stopVars == <<stopped, cancelled, stopPc>>
counters == <<running, completed, failed>>
vars == <<taskVars, queue, closed, stopVars, pc, cur, attempt, counters, clock>>

-----------------------------------------------------------------------------
Statuses == {"unsubmitted", "rejected", "pending", "running", "completed", "failed"}
Terminal == {"completed", "failed"}
Errors == {"none", "error", "panic", "shutdown"}
WorkerPcs ==
  {"pop", "waiting", "popped", "diagnose", "retryWait", "finish", "exited"}
StopPcs == {"idle", "cancel", "wait", "returned"}
\* Where a worker is between its running.Add(1) and its running.Add(-1).
BusyPcs == {"diagnose", "retryWait", "finish"}

At(p) == {w \in Workers : pc[w] = p}
Busy == {w \in Workers : pc[w] \in BusyPcs}
InStatus(s) == {t \in Tasks : status[t] \in s}
Accepted == {t \in Tasks : status[t] \notin {"unsubmitted", "rejected"}}

Init ==
  /\ status = [t \in Tasks |-> "unsubmitted"]
  /\ priority = [t \in Tasks |-> 0]
  /\ createdAt = [t \in Tasks |-> 0]
  /\ retryCount = [t \in Tasks |-> 0]
  /\ error = [t \in Tasks |-> "none"]
  /\ queue = {}
  /\ closed = FALSE
  /\ stopped = FALSE
  /\ cancelled = FALSE
  /\ stopPc = "idle"
  /\ pc = [w \in Workers |-> "pop"]
  /\ cur = [w \in Workers |-> NoTask]
  /\ attempt = [w \in Workers |-> 0]
  /\ running = 0
  /\ completed = 0
  /\ failed = 0
  /\ clock = 0

-----------------------------------------------------------------------------
(* The priority queue *)

\* Slip: Less forgets to break ties by CreatedAt.
SlipLessTies(t, u) == priority[t] > priority[u]

\* taskHeap.Less: t leaves the heap before u.
Less(t, u) ==
  IF priority[t] # priority[u] THEN priority[t] > priority[u]
                               ELSE createdAt[t] < createdAt[u]

\* heap.Pop returns a minimum of Less; ties are in no order.
HeapMinima == {t \in queue : \A u \in queue : ~Less(u, t)}

\* Slips: push does not signal; it signals only a queue that was empty.
SlipNoSignal == pc' = pc
SlipSignalIfEmpty ==
  IF At("waiting") = {} \/ queue # {}
  THEN pc' = pc
  ELSE \E w \in At("waiting") : pc' = [pc EXCEPT ![w] = "pop"]

\* cond.Signal wakes one waiting worker, if there is one, ...
Signal ==
  IF At("waiting") = {}
  THEN pc' = pc
  ELSE \E w \in At("waiting") : pc' = [pc EXCEPT ![w] = "pop"]

\* Slip: close signals instead of broadcasting.
SlipCloseSignals == Signal

\* ... cond.Broadcast all of them: each goes on to take pq.mu again.
Broadcast ==
  pc' = [w \in Workers |-> IF pc[w] = "waiting" THEN "pop" ELSE pc[w]]

PushFails == closed \/ Cardinality(queue) >= MaxSize

-----------------------------------------------------------------------------
(* Submit, under stopMu; push runs inside it *)

SubmitRefused(t) ==
  /\ status[t] = "unsubmitted"
  /\ stopped \/ PushFails
  /\ status' = [status EXCEPT ![t] = "rejected"]
  /\ UNCHANGED <<priority, createdAt, retryCount, error, queue, closed,
                 stopVars, pc, cur, attempt, counters, clock>>

\* time.Now may or may not have ticked since the last submission.
SubmitAccepted(t, severity) ==
  /\ status[t] = "unsubmitted"
  /\ ~stopped
  /\ ~PushFails
  /\ clock' \in {clock, clock + 1}
  /\ createdAt' = [createdAt EXCEPT ![t] = clock']
  /\ priority' = [priority EXCEPT ![t] = SeverityPriority(severity)]
  /\ status' = [status EXCEPT ![t] = "pending"]
  /\ queue' = queue \cup {t}
  /\ Signal
  /\ UNCHANGED <<retryCount, error, closed, stopVars, cur, attempt, counters>>

-----------------------------------------------------------------------------
(* A worker: pop, safeProcessTask, processTask *)

PopWaits(w) ==
  /\ pc[w] = "pop"
  /\ queue = {}
  /\ ~closed
  /\ pc' = [pc EXCEPT ![w] = "waiting"]
  /\ UNCHANGED <<taskVars, queue, closed, stopVars, cur, attempt, counters, clock>>

\* Slip: a worker leaves as soon as the queue is closed.
SlipExitUndrained(w) ==
  /\ pc[w] = "pop"
  /\ closed
  /\ pc' = [pc EXCEPT ![w] = "exited"]
  /\ UNCHANGED <<taskVars, queue, closed, stopVars, cur, attempt, counters, clock>>

\* pop returns nil: the queue is closed and drained, and the worker is gone.
PopReturnsNil(w) ==
  /\ pc[w] = "pop"
  /\ queue = {}
  /\ closed
  /\ pc' = [pc EXCEPT ![w] = "exited"]
  /\ UNCHANGED <<taskVars, queue, closed, stopVars, cur, attempt, counters, clock>>

PopReturns(w, t) ==
  /\ pc[w] = "pop"
  /\ t \in HeapMinima
  /\ queue' = queue \ {t}
  /\ cur' = [cur EXCEPT ![w] = t]
  /\ pc' = [pc EXCEPT ![w] = "popped"]
  /\ UNCHANGED <<taskVars, closed, stopVars, attempt, counters, clock>>

\* running.Add(1) and the start of the first attempt.
StartTask(w) ==
  /\ pc[w] = "popped"
  /\ running' = running + 1
  /\ attempt' = [attempt EXCEPT ![w] = 0]
  /\ status' = [status EXCEPT ![cur[w]] = "running"]
  /\ pc' = [pc EXCEPT ![w] = "diagnose"]
  /\ UNCHANGED <<priority, createdAt, retryCount, error, queue, closed,
                 stopVars, cur, completed, failed, clock>>

\* diagnose returned nil.
DiagnoseSucceeds(w) ==
  /\ pc[w] = "diagnose"
  /\ status' = [status EXCEPT ![cur[w]] = "completed"]
  /\ completed' = completed + 1
  /\ pc' = [pc EXCEPT ![w] = "finish"]
  /\ UNCHANGED <<priority, createdAt, retryCount, error, queue, closed,
                 stopVars, cur, attempt, running, failed, clock>>

\* Slips: one attempt too many; one attempt too few.
SlipGiveUpLate(w) == cancelled \/ attempt[w] > MaxRetries
SlipGiveUpEarly(w) == cancelled \/ attempt[w] + 1 >= MaxRetries

\* What becomes of a task whose attempt failed: given up when the scheduler is
\* shutting down or no attempt is left, else it waits for its next attempt.
GiveUp(w) == cancelled \/ attempt[w] >= MaxRetries

DiagnoseFails(w) ==
  /\ pc[w] = "diagnose"
  /\ error' = [error EXCEPT ![cur[w]] = "error"]
  /\ retryCount' = [retryCount EXCEPT ![cur[w]] = attempt[w] + 1]
  /\ IF GiveUp(w)
     THEN /\ status' = [status EXCEPT ![cur[w]] = "failed"]
          /\ failed' = failed + 1
          /\ pc' = [pc EXCEPT ![w] = "finish"]
     ELSE /\ pc' = [pc EXCEPT ![w] = "retryWait"]
          /\ UNCHANGED <<status, failed>>
  /\ UNCHANGED <<priority, createdAt, queue, closed, stopVars, cur, attempt,
                 running, completed, clock>>

\* Slip: the recover counts the failure and leaves Task.Status.
SlipPanicKeepsStatus(w) ==
  /\ pc[w] = "diagnose"
  /\ error' = [error EXCEPT ![cur[w]] = "panic"]
  /\ failed' = failed + 1
  /\ pc' = [pc EXCEPT ![w] = "finish"]
  /\ UNCHANGED <<status, priority, createdAt, retryCount, queue, closed, stopVars,
                 cur, attempt, running, completed, clock>>

\* The deferred recover of safeProcessTask.
DiagnosePanics(w) ==
  /\ pc[w] = "diagnose"
  /\ status' = [status EXCEPT ![cur[w]] = "failed"]
  /\ error' = [error EXCEPT ![cur[w]] = "panic"]
  /\ failed' = failed + 1
  /\ pc' = [pc EXCEPT ![w] = "finish"]
  /\ UNCHANGED <<priority, createdAt, retryCount, queue, closed, stopVars, cur,
                 attempt, running, completed, clock>>

\* The select before a retry: the timer fires.  It can win against ctx.Done
\* even after Stop has cancelled, for select takes either ready case.
RetryTimerFires(w) ==
  /\ pc[w] = "retryWait"
  /\ attempt' = [attempt EXCEPT ![w] = @ + 1]
  /\ status' = [status EXCEPT ![cur[w]] = "running"]
  /\ pc' = [pc EXCEPT ![w] = "diagnose"]
  /\ UNCHANGED <<priority, createdAt, retryCount, error, queue, closed,
                 stopVars, cur, counters, clock>>

\* The same select: the scheduler's context is done.
RetryCancelled(w) ==
  /\ pc[w] = "retryWait"
  /\ cancelled
  /\ status' = [status EXCEPT ![cur[w]] = "failed"]
  /\ error' = [error EXCEPT ![cur[w]] = "shutdown"]
  /\ failed' = failed + 1
  /\ pc' = [pc EXCEPT ![w] = "finish"]
  /\ UNCHANGED <<priority, createdAt, retryCount, queue, closed, stopVars, cur,
                 attempt, running, completed, clock>>

\* running.Add(-1), and around the worker's loop.
FinishTask(w) ==
  /\ pc[w] = "finish"
  /\ running' = running - 1
  /\ cur' = [cur EXCEPT ![w] = NoTask]
  /\ pc' = [pc EXCEPT ![w] = "pop"]
  /\ UNCHANGED <<taskVars, queue, closed, stopVars, attempt, completed, failed,
                 clock>>

-----------------------------------------------------------------------------
(* Stop *)

\* stopped = true and pq.close(), both under stopMu.
StopCloses ==
  /\ stopPc = "idle"
  /\ stopped' = TRUE
  /\ closed' = TRUE
  /\ Broadcast
  /\ stopPc' = "cancel"
  /\ UNCHANGED <<taskVars, queue, cancelled, cur, attempt, counters, clock>>

StopCancels ==
  /\ stopPc = "cancel"
  /\ cancelled' = TRUE
  /\ stopPc' = "wait"
  /\ UNCHANGED <<taskVars, queue, closed, stopped, pc, cur, attempt, counters,
                 clock>>

\* wg.Wait returns when every worker has.
StopReturns ==
  /\ stopPc = "wait"
  /\ At("exited") = Workers
  /\ stopPc' = "returned"
  /\ UNCHANGED <<taskVars, queue, closed, stopped, cancelled, pc, cur, attempt,
                 counters, clock>>

-----------------------------------------------------------------------------
Worker(w) ==
  \/ PopWaits(w)
  \/ PopReturnsNil(w)
  \/ \E t \in Tasks : PopReturns(w, t)
  \/ StartTask(w)
  \/ DiagnoseSucceeds(w)
  \/ DiagnoseFails(w)
  \/ DiagnosePanics(w)
  \/ RetryTimerFires(w)
  \/ RetryCancelled(w)
  \/ FinishTask(w)

\* The process ends: no Submit is left to make and Stop has returned.
Terminated ==
  /\ stopPc = "returned"
  /\ InStatus({"unsubmitted"}) = {}
  /\ UNCHANGED vars

Next ==
  \/ \E t \in Tasks : SubmitRefused(t)
  \/ \E t \in Tasks, severity \in Severities : SubmitAccepted(t, severity)
  \/ \E w \in Workers : Worker(w)
  \/ StopCloses
  \/ StopCancels
  \/ StopReturns
  \/ Terminated

\* Goroutines are scheduled, mutexes are handed over, a retry timer fires, and
\* every attempt ends: its context carries DefaultTimeout.  Nothing makes a
\* client submit or an operator stop the process.
Fairness ==
  /\ \A w \in Workers : WF_vars(Worker(w))
  /\ WF_vars(StopCancels)
  /\ WF_vars(StopReturns)

Safety == Init /\ [][Next]_vars
Spec == Safety /\ Fairness

-----------------------------------------------------------------------------
(* Invariants *)

\* Types, with the range of every counter.
TypeOK ==
  /\ status \in [Tasks -> Statuses]
  /\ priority \in [Tasks -> Int]
  /\ createdAt \in [Tasks -> Nat]
  /\ retryCount \in [Tasks -> 0..(MaxRetries + 1)]
  /\ error \in [Tasks -> Errors]
  /\ queue \in SUBSET Tasks
  /\ closed \in BOOLEAN
  /\ stopped \in BOOLEAN
  /\ cancelled \in BOOLEAN
  /\ stopPc \in StopPcs
  /\ pc \in [Workers -> WorkerPcs]
  /\ cur \in [Workers -> Tasks \cup {NoTask}]
  /\ attempt \in [Workers -> 0..MaxRetries]
  /\ running \in 0..Cardinality(Workers)
  /\ completed \in 0..Cardinality(Tasks)
  /\ failed \in 0..Cardinality(Tasks)
  /\ clock \in Nat

\* A worker sleeps in cond.Wait only while every queued task has an awake worker
\* of its own that is about to pop; after close nobody sleeps.  push signals
\* once per task (not per worker), which is only enough because of this.
NoLostWakeup ==
  /\ At("waiting") # {} => Cardinality(queue) <= Cardinality(At("pop"))
  /\ closed => At("waiting") = {}

\* A task that is accepted and not ended is in exactly one place: in the heap, or
\* with the one worker that popped it.  No step drops a task or runs it twice.
OnePlacePerTask ==
  \A t \in Tasks :
    /\ status[t] \in {"pending", "running"} <=>
         t \in queue \/ \E w \in Workers : cur[w] = t /\ pc[w] # "finish"
    /\ t \in queue => \A w \in Workers : cur[w] # t
    /\ \A v, w \in Workers : cur[v] = t /\ cur[w] = t => v = w

\* First come first served within a severity: as long as a task is queued, no
\* task of its priority with a later CreatedAt has left the heap.  It rests on
\* CreatedAt being read under stopMu, in the order of the pushes.  The order is that
\* of the Submits; DESIGN.md has that of the incidents (occurred_at), which no Task knows.
NoOvertaking ==
  \A t \in queue, u \in Accepted \ queue :
    priority[t] = priority[u] => createdAt[u] <= createdAt[t]

\* A task fails for a reason: its attempts are used up, diagnose panicked, or
\* the scheduler is shutting down.
FailsForCause ==
  \A t \in InStatus({"failed"}) :
    \/ error[t] = "panic"
    \/ error[t] = "error" /\ (retryCount[t] = MaxRetries + 1 \/ cancelled)
    \/ error[t] = "shutdown" /\ cancelled

\* When Stop returns nothing is lost: the heap is empty, every accepted task has
\* ended, each is counted once, and no task counts as running.
StopDrains ==
  stopPc = "returned" =>
    /\ queue = {}
    /\ InStatus({"pending", "running"}) = {}
    /\ completed + failed = Cardinality(Accepted)
    /\ running = 0

-----------------------------------------------------------------------------
(* The inductive invariant: what the invariants above rest on *)

HoldingPcs == {"popped", "diagnose", "retryWait", "finish"}

\* A worker holds a task from pop to the end of its loop, in the status that the
\* worker's place in the code says; it waits only for an attempt that is left.
WorkerInv ==
  \A w \in Workers :
    /\ cur[w] # NoTask <=> pc[w] \in HoldingPcs
    /\ pc[w] = "popped" => status[cur[w]] = "pending"
    /\ pc[w] \in {"diagnose", "retryWait"} => status[cur[w]] = "running"
    /\ pc[w] = "retryWait" => attempt[w] < MaxRetries
    /\ pc[w] = "finish" => status[cur[w]] \in Terminal

\* What is queued is pending; no task was created after now.
QueueInv ==
  /\ \A t \in queue : status[t] = "pending"
  /\ \A t \in Tasks : createdAt[t] <= clock

\* How far Stop has come, told by its flags; a worker leaves a drained queue.
StopInv ==
  /\ closed = stopped
  /\ stopped <=> stopPc # "idle"
  /\ cancelled <=> stopPc \in {"wait", "returned"}
  /\ \A w \in Workers : pc[w] = "exited" => closed /\ queue = {}
  /\ stopPc = "returned" => \A w \in Workers : pc[w] = "exited"

\* The counters count what their names say.
CountersInv ==
  /\ running = Cardinality(Busy)
  /\ completed = Cardinality(InStatus({"completed"}))
  /\ failed = Cardinality(InStatus({"failed"}))

IInv ==
  /\ TypeOK
  /\ WorkerInv
  /\ QueueInv
  /\ StopInv
  /\ CountersInv
  /\ NoLostWakeup
  /\ OnePlacePerTask
  /\ NoOvertaking
  /\ FailsForCause

-----------------------------------------------------------------------------
(* Temporal properties *)

\* Every accepted task ends, whether or not Stop is called meanwhile.
EveryTaskEnds ==
  \A t \in Tasks : status[t] = "pending" ~> status[t] \in Terminal

\* The scheduler implements TaskPool, which promises that Stop returns.
Phase ==
  IF stopPc = "returned" THEN "stopped" ELSE IF stopped THEN "closed" ELSE "open"

Pool == INSTANCE TaskPool WITH phase <- Phase,
                               MaxConcurrency <- Cardinality(Workers)

\* Submit, the workers and Stop do for each task, in order, what TaskPool says,
\* at most MaxConcurrency tasks run at once, and its fairness is met.
ImplementsTaskPool == Pool!Spec
=============================================================================
