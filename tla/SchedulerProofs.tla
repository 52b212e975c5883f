-------------------------- MODULE SchedulerProofs --------------------------
(***************************************************************************)
(* Proofs about Scheduler: IInv is inductive, for every finite set of      *)
(* submissions and workers, every queue size and every retry count.        *)
(***************************************************************************)
EXTENDS Scheduler, FiniteSetTheorems, TLAPS

\* The configuration New leaves is usable, whatever was given.
LEMMA EffectiveConfig ==
  /\ MaxSize \in Nat \ {0}
  /\ MaxRetries \in Nat
BY SchedulerAssumption DEF SchedulerAssumption, MaxSize, MaxRetries

\* What is selected from the tasks or from the workers is finite.
LEMMA FiniteSelections ==
  /\ \A S \in SUBSET Tasks : /\ IsFiniteSet(S)
                             /\ Cardinality(S) \in 0..Cardinality(Tasks)
  /\ \A S \in SUBSET Workers : /\ IsFiniteSet(S)
                               /\ Cardinality(S) \in 0..Cardinality(Workers)
<1>1. ASSUME NEW T, IsFiniteSet(T), NEW S \in SUBSET T
      PROVE  IsFiniteSet(S) /\ Cardinality(S) \in 0..Cardinality(T)
  <2>1. IsFiniteSet(S) /\ Cardinality(S) <= Cardinality(T)
    BY <1>1, FS_Subset
  <2>2. Cardinality(S) \in Nat /\ Cardinality(T) \in Nat
    BY <1>1, <2>1, FS_CardinalityType
  <2> QED
    BY <2>1, <2>2
<1> QED
  BY <1>1, SchedulerAssumption DEF SchedulerAssumption

\* What cond.Signal does to the workers: nothing when none waits, else one waiting
\* worker goes back to take the lock.
LEMMA SignalEffect ==
  ASSUME pc \in [Workers -> WorkerPcs], Signal
  PROVE  \/ pc' = pc /\ At("waiting") = {}
         \/ \E w \in Workers : pc[w] = "waiting" /\ pc' = [pc EXCEPT ![w] = "pop"]
<1>1. CASE At("waiting") = {}
  BY <1>1 DEF Signal
<1>2. CASE At("waiting") # {}
  <2>1. PICK w \in At("waiting") : pc' = [pc EXCEPT ![w] = "pop"]
    BY <1>2 DEF Signal
  <2>2. w \in Workers /\ pc[w] = "waiting"
    BY <2>1 DEF At
  <2> QED
    BY <2>1, <2>2
<1> QED
  BY <1>1, <1>2

-----------------------------------------------------------------------------
\* Every step keeps the types that are not ranges of counters.
TypeCore ==
  /\ status \in [Tasks -> Statuses]
  /\ priority \in [Tasks -> Int]
  /\ createdAt \in [Tasks -> Nat]
  /\ retryCount \in [Tasks -> 0..(MaxRetries + 1)]
  /\ error \in [Tasks -> Errors]
  /\ queue \in SUBSET Tasks
  /\ closed \in BOOLEAN
  /\ stopped \in BOOLEAN
  /\ cancelled \in BOOLEAN
  /\ stopPc \in StopPcs
  /\ pc \in [Workers -> WorkerPcs]
  /\ cur \in [Workers -> Tasks \cup {NoTask}]
  /\ attempt \in [Workers -> 0..MaxRetries]
  /\ clock \in Nat

\* Types hold after a step if they and the workers' places held before it.
LEMMA TypeCoreStep == IInv /\ [Next]_vars => TypeCore'
<1> SUFFICES ASSUME IInv, [Next]_vars PROVE TypeCore'
  OBVIOUS
<1> USE EffectiveConfig DEF TypeCore
<1>0. /\ TypeCore
      /\ \A w \in Workers : pc[w] \in HoldingPcs => cur[w] \in Tasks
  BY DEF IInv, TypeOK, WorkerInv
<1>1. ASSUME NEW t \in Tasks, SubmitRefused(t) PROVE TypeCore'
  BY <1>0, <1>1 DEF SubmitRefused, Statuses, stopVars, counters
<1>2. ASSUME NEW t \in Tasks, NEW severity \in Severities,
             SubmitAccepted(t, severity)
      PROVE  TypeCore'
  <2>1. SeverityPriority(severity) \in Int
    BY DEF SeverityPriority
  <2>2. pc' \in [Workers -> WorkerPcs]
    BY <1>0, <1>2 DEF SubmitAccepted, Signal, At, WorkerPcs
  <2> QED
    BY <1>0, <1>2, <2>1, <2>2 DEF SubmitAccepted, Statuses, stopVars, counters
<1>3. ASSUME NEW w \in Workers, PopWaits(w) PROVE TypeCore'
  BY <1>0, <1>3 DEF PopWaits, WorkerPcs, taskVars, stopVars, counters
<1>4. ASSUME NEW w \in Workers, PopReturnsNil(w) PROVE TypeCore'
  BY <1>0, <1>4 DEF PopReturnsNil, WorkerPcs, taskVars, stopVars, counters
<1>5. ASSUME NEW w \in Workers, NEW t \in Tasks, PopReturns(w, t)
      PROVE  TypeCore'
  BY <1>0, <1>5 DEF PopReturns, WorkerPcs, taskVars, stopVars, counters
<1>6. ASSUME NEW w \in Workers, StartTask(w) PROVE TypeCore'
  <2>1. attempt' \in [Workers -> 0..MaxRetries]
    BY <1>0, <1>6 DEF StartTask
  <2> QED
    BY <1>0, <1>6, <2>1 DEF StartTask, WorkerPcs, Statuses, stopVars
<1>7. ASSUME NEW w \in Workers, DiagnoseSucceeds(w) PROVE TypeCore'
  BY <1>0, <1>7 DEF DiagnoseSucceeds, WorkerPcs, Statuses, stopVars
<1>8. ASSUME NEW w \in Workers, DiagnoseFails(w) PROVE TypeCore'
  <2>1. status' \in [Tasks -> Statuses] /\ pc' \in [Workers -> WorkerPcs]
    BY <1>0, <1>8 DEF DiagnoseFails, WorkerPcs, Statuses
  <2>2. retryCount' \in [Tasks -> 0..(MaxRetries + 1)]
    <3>1. attempt[w] + 1 \in 0..(MaxRetries + 1)
      BY <1>0
    <3> QED
      BY <1>0, <1>8, <3>1 DEF DiagnoseFails
  <2> QED
    BY <1>0, <1>8, <2>1, <2>2 DEF DiagnoseFails, Errors, stopVars
<1>9. ASSUME NEW w \in Workers, DiagnosePanics(w) PROVE TypeCore'
  BY <1>0, <1>9 DEF DiagnosePanics, WorkerPcs, Statuses, Errors, stopVars
<1>10. ASSUME NEW w \in Workers, RetryTimerFires(w) PROVE TypeCore'
  <2>1. attempt[w] < MaxRetries
    BY <1>10 DEF RetryTimerFires, IInv, WorkerInv
  <2>2. attempt[w] + 1 \in 0..MaxRetries
    BY <1>0, <2>1
  <2>3. attempt' \in [Workers -> 0..MaxRetries]
    BY <1>0, <1>10, <2>2 DEF RetryTimerFires
  <2> QED
    BY <1>0, <1>10, <2>3 DEF RetryTimerFires, WorkerPcs, Statuses, stopVars,
                             counters
<1>11. ASSUME NEW w \in Workers, RetryCancelled(w) PROVE TypeCore'
  BY <1>0, <1>11 DEF RetryCancelled, WorkerPcs, Statuses, Errors, stopVars
<1>12. ASSUME NEW w \in Workers, FinishTask(w) PROVE TypeCore'
  BY <1>0, <1>12 DEF FinishTask, WorkerPcs, taskVars, stopVars
<1>13. CASE StopCloses
  BY <1>0, <1>13 DEF StopCloses, Broadcast, WorkerPcs, StopPcs, taskVars, counters
<1>14. CASE StopCancels
  BY <1>0, <1>14 DEF StopCancels, StopPcs, taskVars, counters
<1>15. CASE StopReturns
  BY <1>0, <1>15 DEF StopReturns, StopPcs, taskVars, counters
<1>16. CASE UNCHANGED vars
  BY <1>0, <1>16 DEF vars, taskVars, stopVars, counters
<1> QED
  BY <1>1, <1>2, <1>3, <1>4, <1>5, <1>6, <1>7, <1>8, <1>9, <1>10, <1>11, <1>12,
     <1>13, <1>14, <1>15, <1>16 DEF Next, Worker, Terminated
-----------------------------------------------------------------------------
\* The pairing of worker places and task statuses.  Only the worker that holds a
\* task changes its status, for no two hold the same one.
LEMMA WorkerInvStep == IInv /\ [Next]_vars => WorkerInv'
<1> SUFFICES ASSUME IInv, [Next]_vars PROVE WorkerInv'
  OBVIOUS
<1> USE SchedulerAssumption DEF SchedulerAssumption, WorkerInv, HoldingPcs, Terminal
<1>0. /\ TypeOK
      /\ WorkerInv
      /\ \A t \in Tasks, v, w \in Workers : cur[v] = t /\ cur[w] = t => v = w
      /\ \A t \in Tasks : status[t] = "unsubmitted" => \A w \in Workers : cur[w] # t
      /\ \A t \in queue : status[t] = "pending" /\ \A w \in Workers : cur[w] # t
  BY DEF IInv, TypeOK, OnePlacePerTask, QueueInv
<1> USE DEF TypeOK
<1>1. ASSUME NEW t \in Tasks, SubmitRefused(t) PROVE WorkerInv'
  BY <1>0, <1>1 DEF SubmitRefused
<1>2. ASSUME NEW t \in Tasks, NEW severity \in Severities,
             SubmitAccepted(t, severity)
      PROVE  WorkerInv'
  <2>1. \A w \in Workers :
          \/ pc'[w] = pc[w]
          \/ pc[w] = "waiting" /\ pc'[w] = "pop"
    <3>1. pc \in [Workers -> WorkerPcs] /\ Signal
      BY <1>0, <1>2 DEF SubmitAccepted
    <3>2. \/ pc' = pc
          \/ \E w \in Workers : pc[w] = "waiting" /\ pc' = [pc EXCEPT ![w] = "pop"]
      BY <3>1, SignalEffect
    <3> QED
      BY <3>1, <3>2
  <2>2. \A w \in Workers : cur[w] # t
    BY <1>0, <1>2 DEF SubmitAccepted
  <2>3. /\ UNCHANGED <<cur, attempt>>
        /\ \A u \in Tasks : u # t => status'[u] = status[u]
    BY <1>0, <1>2 DEF SubmitAccepted
  <2>4. \A w \in Workers : cur[w] # NoTask => status'[cur[w]] = status[cur[w]]
    BY <1>0, <2>2, <2>3
  <2> QED
    BY <1>0, <2>1, <2>3, <2>4
<1>3. ASSUME NEW w \in Workers, PopWaits(w) PROVE WorkerInv'
  BY <1>0, <1>3 DEF PopWaits, taskVars
<1>4. ASSUME NEW w \in Workers, PopReturnsNil(w) PROVE WorkerInv'
  BY <1>0, <1>4 DEF PopReturnsNil, taskVars
<1>5. ASSUME NEW w \in Workers, NEW t \in Tasks, PopReturns(w, t)
      PROVE  WorkerInv'
  BY <1>0, <1>5 DEF PopReturns, HeapMinima, taskVars
<1>6. ASSUME NEW w \in Workers, StartTask(w) PROVE WorkerInv'
  BY <1>0, <1>6 DEF StartTask
<1>7. ASSUME NEW w \in Workers, DiagnoseSucceeds(w) PROVE WorkerInv'
  BY <1>0, <1>7 DEF DiagnoseSucceeds
<1>8. ASSUME NEW w \in Workers, DiagnoseFails(w) PROVE WorkerInv'
  <2>1. CASE GiveUp(w)
    BY <1>0, <1>8, <2>1 DEF DiagnoseFails
  <2>2. CASE ~GiveUp(w)
    <3>1. attempt[w] < MaxRetries
      BY <1>0, <2>2, EffectiveConfig DEF GiveUp
    <3> QED
      BY <1>0, <1>8, <2>2, <3>1 DEF DiagnoseFails
  <2> QED
    BY <2>1, <2>2
<1>9. ASSUME NEW w \in Workers, DiagnosePanics(w) PROVE WorkerInv'
  BY <1>0, <1>9 DEF DiagnosePanics
<1>10. ASSUME NEW w \in Workers, RetryTimerFires(w) PROVE WorkerInv'
  BY <1>0, <1>10 DEF RetryTimerFires
<1>11. ASSUME NEW w \in Workers, RetryCancelled(w) PROVE WorkerInv'
  BY <1>0, <1>11 DEF RetryCancelled
<1>12. ASSUME NEW w \in Workers, FinishTask(w) PROVE WorkerInv'
  BY <1>0, <1>12 DEF FinishTask, taskVars
<1>13. CASE StopCloses
  BY <1>0, <1>13 DEF StopCloses, Broadcast, taskVars
<1>14. CASE StopCancels
  BY <1>0, <1>14 DEF StopCancels, taskVars
<1>15. CASE StopReturns
  BY <1>0, <1>15 DEF StopReturns, taskVars
<1>16. CASE UNCHANGED vars
  BY <1>0, <1>16 DEF vars, taskVars
<1> QED
  BY <1>1, <1>2, <1>3, <1>4, <1>5, <1>6, <1>7, <1>8, <1>9, <1>10, <1>11, <1>12,
     <1>13, <1>14, <1>15, <1>16 DEF Next, Worker, Terminated

-----------------------------------------------------------------------------
\* The queue holds pending tasks, created in the past.
LEMMA QueueInvStep == IInv /\ [Next]_vars => QueueInv'
<1> SUFFICES ASSUME IInv, [Next]_vars PROVE QueueInv'
  OBVIOUS
<1> USE DEF QueueInv
<1>0. /\ TypeOK
      /\ QueueInv
      /\ \A t \in queue, w \in Workers : cur[w] # t
  BY DEF IInv, TypeOK, OnePlacePerTask
<1> USE DEF TypeOK
<1>1. ASSUME NEW t \in Tasks, SubmitRefused(t) PROVE QueueInv'
  BY <1>0, <1>1 DEF SubmitRefused
<1>2. ASSUME NEW t \in Tasks, NEW severity \in Severities,
             SubmitAccepted(t, severity)
      PROVE  QueueInv'
  BY <1>0, <1>2 DEF SubmitAccepted
<1>3. ASSUME NEW w \in Workers, NEW t \in Tasks, PopReturns(w, t)
      PROVE  QueueInv'
  BY <1>0, <1>3 DEF PopReturns, taskVars
<1>4. ASSUME NEW w \in Workers,
             \/ StartTask(w) \/ DiagnoseSucceeds(w) \/ DiagnoseFails(w)
             \/ DiagnosePanics(w) \/ RetryTimerFires(w) \/ RetryCancelled(w)
      PROVE  QueueInv'
  <2>1. UNCHANGED <<queue, createdAt, clock>>
    BY <1>4 DEF StartTask, DiagnoseSucceeds, DiagnoseFails, DiagnosePanics,
                RetryTimerFires, RetryCancelled
  <2>2. \A t \in Tasks : t # cur[w] => status'[t] = status[t]
    BY <1>0, <1>4 DEF StartTask, DiagnoseSucceeds, DiagnoseFails, DiagnosePanics,
                      RetryTimerFires, RetryCancelled
  <2> QED
    BY <1>0, <2>1, <2>2
<1>5. ASSUME UNCHANGED <<taskVars, queue, clock>> PROVE QueueInv'
  BY <1>0, <1>5 DEF taskVars
<1>6. ASSUME NEW w \in Workers, PopWaits(w) \/ PopReturnsNil(w) \/ FinishTask(w)
      PROVE  UNCHANGED <<taskVars, queue, clock>>
  BY <1>6 DEF PopWaits, PopReturnsNil, FinishTask
<1>7. ASSUME StopCloses \/ StopCancels \/ StopReturns \/ UNCHANGED vars
      PROVE  UNCHANGED <<taskVars, queue, clock>>
  BY <1>7 DEF StopCloses, StopCancels, StopReturns, vars
<1> QED
  BY <1>1, <1>2, <1>3, <1>4, <1>5, <1>6, <1>7 DEF Next, Worker, Terminated

-----------------------------------------------------------------------------
\* The flags of Stop, and the workers that left.
LEMMA StopInvStep == IInv /\ [Next]_vars => StopInv'
<1> SUFFICES ASSUME IInv, [Next]_vars PROVE StopInv'
  OBVIOUS
<1> USE DEF StopInv
<1>0. TypeOK /\ StopInv
  BY DEF IInv
<1> USE DEF TypeOK, WorkerPcs, StopPcs, stopVars
<1>1. ASSUME NEW t \in Tasks, SubmitRefused(t) PROVE StopInv'
  BY <1>0, <1>1 DEF SubmitRefused
<1>2. ASSUME NEW t \in Tasks, NEW severity \in Severities,
             SubmitAccepted(t, severity)
      PROVE  StopInv'
  <2>1. ~closed /\ stopPc = "idle" /\ \A w \in Workers : pc[w] # "exited"
    BY <1>0, <1>2 DEF SubmitAccepted, PushFails
  <2>2. \A w \in Workers : pc'[w] # "exited"
    BY <1>0, <1>2, <2>1 DEF SubmitAccepted, Signal, At
  <2> QED
    BY <1>0, <1>2, <2>1, <2>2 DEF SubmitAccepted
<1>3. ASSUME NEW w \in Workers, PopReturnsNil(w) PROVE StopInv'
  BY <1>0, <1>3 DEF PopReturnsNil
<1>4. ASSUME NEW w \in Workers, Worker(w), ~PopReturnsNil(w) PROVE StopInv'
  <2>1. /\ UNCHANGED <<closed, stopVars>>
        /\ queue' \in SUBSET queue
    BY <1>4 DEF Worker, PopWaits, PopReturns, StartTask, DiagnoseSucceeds,
                DiagnoseFails, DiagnosePanics, RetryTimerFires, RetryCancelled,
                FinishTask
  <2>2. /\ pc[w] # "exited"
        /\ \A v \in Workers : pc'[v] = "exited" => pc[v] = "exited"
    BY <1>0, <1>4 DEF Worker, PopWaits, PopReturns, StartTask, DiagnoseSucceeds,
                DiagnoseFails, DiagnosePanics, RetryTimerFires, RetryCancelled,
                FinishTask
  <2> QED
    BY <1>0, <2>1, <2>2
<1>5. CASE StopCloses
  BY <1>0, <1>5 DEF StopCloses, Broadcast
<1>6. CASE StopCancels
  BY <1>0, <1>6 DEF StopCancels
<1>7. CASE StopReturns
  BY <1>0, <1>7 DEF StopReturns, At
<1>8. CASE UNCHANGED vars
  BY <1>0, <1>8 DEF vars
<1> QED
  BY <1>1, <1>2, <1>3, <1>4, <1>5, <1>6, <1>7, <1>8 DEF Next, Terminated
-----------------------------------------------------------------------------
\* The counters count.  The three sets they count change by one element at a time.
LEMMA CountersInvStep == IInv /\ [Next]_vars => CountersInv'
<1> SUFFICES ASSUME IInv, [Next]_vars PROVE CountersInv'
  OBVIOUS
<1> USE FiniteSelections DEF CountersInv
<1> DEFINE Completed == InStatus({"completed"})
           Failed == InStatus({"failed"})
<1>0. /\ TypeOK
      /\ CountersInv
      /\ \A w \in Workers : pc[w] \in HoldingPcs => cur[w] \in Tasks
  BY DEF IInv, TypeOK, WorkerInv
<1>a. Busy \in SUBSET Workers /\ Completed \in SUBSET Tasks /\ Failed \in SUBSET Tasks
  BY DEF Busy, InStatus
<1>b. ASSUME Busy' = Busy, Completed' = Completed, Failed' = Failed,
             UNCHANGED counters
      PROVE  CountersInv'
  BY <1>0, <1>b DEF counters
\* A worker ends a task: one more completed, or one more failed.
<1>c. ASSUME NEW w \in Workers, NEW end \in {"completed", "failed"},
             pc[w] \in {"diagnose", "retryWait"},
             status[cur[w]] = "running",
             status' = [status EXCEPT ![cur[w]] = end],
             pc' = [pc EXCEPT ![w] = "finish"],
             running' = running,
             completed' = IF end = "completed" THEN completed + 1 ELSE completed,
             failed' = IF end = "failed" THEN failed + 1 ELSE failed
      PROVE  CountersInv'
  <2>1. Busy' = Busy
    BY <1>0, <1>c DEF TypeOK, Busy, BusyPcs
  <2>2. cur[w] \in Tasks
    BY <1>0, <1>c DEF HoldingPcs
  <2>3. cur[w] \notin Completed /\ cur[w] \notin Failed
    BY <1>c DEF InStatus
  <2>4. CASE end = "completed"
    <3>1. Completed' = Completed \cup {cur[w]} /\ Failed' = Failed
      BY <1>0, <1>c, <2>2, <2>3, <2>4 DEF TypeOK, InStatus
    <3>2. Cardinality(Completed') = Cardinality(Completed) + 1
      BY <1>a, <2>3, <3>1, FS_AddElement
    <3> QED
      BY <1>0, <1>c, <2>1, <2>4, <3>1, <3>2
  <2>5. CASE end = "failed"
    <3>1. Failed' = Failed \cup {cur[w]} /\ Completed' = Completed
      BY <1>0, <1>c, <2>2, <2>3, <2>5 DEF TypeOK, InStatus
    <3>2. Cardinality(Failed') = Cardinality(Failed) + 1
      BY <1>a, <2>3, <3>1, FS_AddElement
    <3> QED
      BY <1>0, <1>c, <2>1, <2>5, <3>1, <3>2
  <2> QED
    BY <2>4, <2>5
\* The status of one task changes between two that no counter counts.
<1>d. ASSUME NEW t \in Tasks, NEW to \in {"rejected", "pending", "running"},
             status[t] \notin {"completed", "failed"},
             status' = [status EXCEPT ![t] = to]
      PROVE  Completed' = Completed /\ Failed' = Failed
  BY <1>0, <1>d DEF TypeOK, InStatus
<1>1. ASSUME NEW t \in Tasks, SubmitRefused(t) PROVE CountersInv'
  <2>1. Completed' = Completed /\ Failed' = Failed
    BY <1>1, <1>d DEF SubmitRefused
  <2> QED
    BY <1>1, <1>b, <2>1 DEF SubmitRefused, Busy
<1>2. ASSUME NEW t \in Tasks, NEW severity \in Severities,
             SubmitAccepted(t, severity)
      PROVE  CountersInv'
  <2>1. Completed' = Completed /\ Failed' = Failed
    BY <1>2, <1>d DEF SubmitAccepted
  <2>2. Busy' = Busy
    <3>1. pc \in [Workers -> WorkerPcs] /\ Signal
      BY <1>0, <1>2 DEF TypeOK, SubmitAccepted
    <3>2. \/ pc' = pc
          \/ \E w \in Workers : pc[w] = "waiting" /\ pc' = [pc EXCEPT ![w] = "pop"]
      BY <3>1, SignalEffect
    <3> QED
      BY <3>1, <3>2 DEF Busy, BusyPcs
  <2> QED
    BY <1>2, <1>b, <2>1, <2>2 DEF SubmitAccepted
<1>3. ASSUME NEW w \in Workers,
             \/ PopWaits(w) \/ PopReturnsNil(w) \/ \E t \in Tasks : PopReturns(w, t)
      PROVE  CountersInv'
  <2>1. UNCHANGED <<status, counters>>
    BY <1>3 DEF PopWaits, PopReturnsNil, PopReturns, taskVars
  <2>2. Busy' = Busy
    BY <1>0, <1>3 DEF PopWaits, PopReturnsNil, PopReturns, TypeOK, Busy, BusyPcs
  <2> QED
    BY <1>b, <2>1, <2>2 DEF InStatus
<1>4. ASSUME NEW w \in Workers, StartTask(w) PROVE CountersInv'
  <2>1. cur[w] \in Tasks /\ status[cur[w]] = "pending"
    BY <1>0, <1>4 DEF StartTask, IInv, WorkerInv, HoldingPcs
  <2>2. Completed' = Completed /\ Failed' = Failed
    BY <1>4, <1>d, <2>1 DEF StartTask
  <2>3. Busy' = Busy \cup {w} /\ w \notin Busy
    BY <1>0, <1>4 DEF StartTask, TypeOK, Busy, BusyPcs
  <2>4. Cardinality(Busy') = Cardinality(Busy) + 1
    BY <1>a, <2>3, FS_AddElement
  <2> QED
    BY <1>0, <1>4, <2>2, <2>4 DEF StartTask
<1>5. ASSUME NEW w \in Workers, DiagnoseSucceeds(w) PROVE CountersInv'
  BY <1>c, <1>5 DEF DiagnoseSucceeds, IInv, WorkerInv
<1>6. ASSUME NEW w \in Workers, DiagnoseFails(w) PROVE CountersInv'
  <2>1. CASE GiveUp(w)
    BY <1>c, <1>6, <2>1 DEF DiagnoseFails, IInv, WorkerInv
  <2>2. CASE ~GiveUp(w)
    <3>1. Busy' = Busy
      BY <1>0, <1>6, <2>2 DEF DiagnoseFails, TypeOK, Busy, BusyPcs
    <3>2. UNCHANGED <<status, counters>>
      BY <1>6, <2>2 DEF DiagnoseFails, counters
    <3> QED
      BY <1>b, <3>1, <3>2 DEF InStatus
  <2> QED
    BY <2>1, <2>2
<1>7. ASSUME NEW w \in Workers, DiagnosePanics(w) PROVE CountersInv'
  BY <1>c, <1>7 DEF DiagnosePanics, IInv, WorkerInv
<1>8. ASSUME NEW w \in Workers, RetryTimerFires(w) PROVE CountersInv'
  <2>1. cur[w] \in Tasks /\ status[cur[w]] = "running"
    BY <1>0, <1>8 DEF RetryTimerFires, IInv, WorkerInv, HoldingPcs
  <2>2. Completed' = Completed /\ Failed' = Failed
    BY <1>8, <1>d, <2>1 DEF RetryTimerFires
  <2>3. Busy' = Busy
    BY <1>0, <1>8 DEF RetryTimerFires, TypeOK, Busy, BusyPcs
  <2> QED
    BY <1>8, <1>b, <2>2, <2>3 DEF RetryTimerFires
<1>9. ASSUME NEW w \in Workers, RetryCancelled(w) PROVE CountersInv'
  BY <1>c, <1>9 DEF RetryCancelled, IInv, WorkerInv
<1>10. ASSUME NEW w \in Workers, FinishTask(w) PROVE CountersInv'
  <2>1. Busy' = Busy \ {w} /\ w \in Busy
    BY <1>0, <1>10 DEF FinishTask, TypeOK, Busy, BusyPcs
  <2>2. Cardinality(Busy') = Cardinality(Busy) - 1
    BY <1>a, <2>1, FS_RemoveElement
  <2> QED
    BY <1>0, <1>10, <2>2 DEF FinishTask, taskVars, InStatus
<1>11. CASE StopCloses
  <2>1. Busy' = Busy
    BY <1>0, <1>11 DEF StopCloses, Broadcast, TypeOK, Busy, BusyPcs
  <2> QED
    BY <1>11, <1>b, <2>1 DEF StopCloses, taskVars, InStatus
<1>12. CASE StopCancels \/ StopReturns \/ UNCHANGED vars
  BY <1>12, <1>b DEF StopCancels, StopReturns, vars, taskVars, InStatus, Busy
<1> QED
  BY <1>1, <1>2, <1>3, <1>4, <1>5, <1>6, <1>7, <1>8, <1>9, <1>10, <1>11, <1>12
     DEF Next, Worker, Terminated

\* With the counters right, their ranges follow, and with them every type.
LEMMA TypeStep == IInv /\ [Next]_vars => TypeOK'
<1> SUFFICES ASSUME IInv, [Next]_vars PROVE TypeOK'
  OBVIOUS
<1>1. TypeCore' /\ CountersInv'
  BY TypeCoreStep, CountersInvStep
<1>2. /\ Busy' \in SUBSET Workers
      /\ InStatus({"completed"})' \in SUBSET Tasks
      /\ InStatus({"failed"})' \in SUBSET Tasks
  BY DEF Busy, InStatus
<1>3. /\ running' \in 0..Cardinality(Workers)
      /\ completed' \in 0..Cardinality(Tasks)
      /\ failed' \in 0..Cardinality(Tasks)
  BY <1>1, <1>2, FiniteSelections DEF CountersInv
<1> QED
  BY <1>1, <1>3 DEF TypeCore, TypeOK
-----------------------------------------------------------------------------
\* No wakeup is lost.  The steps that matter: push adds a task and, if a worker
\* waits, moves one to the lock; pop takes a task and a worker from the two sides;
\* a worker goes to sleep only when the queue is empty.
LEMMA NoLostWakeupStep == IInv /\ [Next]_vars => NoLostWakeup'
<1> SUFFICES ASSUME IInv, [Next]_vars PROVE NoLostWakeup'
  OBVIOUS
<1> USE FiniteSelections
<1> DEFINE Popping == At("pop")
           Waiting == At("waiting")
<1>0. TypeOK /\ NoLostWakeup
  BY DEF IInv
<1>a. /\ queue \in SUBSET Tasks /\ queue' \in SUBSET Tasks
      /\ Popping \in SUBSET Workers /\ Popping' \in SUBSET Workers
  BY TypeCoreStep DEF IInv, TypeOK, TypeCore, At
<1>b. /\ Cardinality(queue) \in Nat /\ Cardinality(queue') \in Nat
      /\ Cardinality(Popping) \in Nat /\ Cardinality(Popping') \in Nat
  BY <1>a
<1>c. ASSUME queue' = queue, closed' = closed, Waiting' = Waiting,
             Popping \subseteq Popping'
      PROVE  NoLostWakeup'
  <2>1. IsFiniteSet(Popping')
    BY <1>a
  <2>2. Cardinality(Popping) <= Cardinality(Popping')
    BY <1>c, <2>1, FS_Subset
  <2> QED
    BY <1>0, <1>b, <1>c, <2>2 DEF NoLostWakeup
<1>1. ASSUME NEW t \in Tasks, NEW severity \in Severities,
             SubmitAccepted(t, severity)
      PROVE  NoLostWakeup'
  <2>1. /\ pc \in [Workers -> WorkerPcs] /\ Signal
        /\ ~closed /\ closed' = closed
        /\ queue' = queue \cup {t}
    BY <1>0, <1>1 DEF TypeOK, SubmitAccepted, PushFails
  <2>2. CASE pc' = pc /\ Waiting = {}
    BY <2>1, <2>2 DEF NoLostWakeup, At
  <2>3. CASE \E w \in Workers : pc[w] = "waiting" /\ pc' = [pc EXCEPT ![w] = "pop"]
    <3>1. PICK w \in Workers : pc[w] = "waiting" /\ pc' = [pc EXCEPT ![w] = "pop"]
      BY <2>3
    <3>2. /\ Popping' = Popping \cup {w} /\ w \notin Popping
          /\ Waiting # {}
      BY <2>1, <3>1 DEF At
    <3>3. Cardinality(Popping') = Cardinality(Popping) + 1
      BY <1>a, <3>2, FS_AddElement
    <3>4. Cardinality(queue') <= Cardinality(queue) + 1
      <4>1. IsFiniteSet(queue)
        BY <1>a
      <4>2. Cardinality(queue \cup {t})
              = IF t \in queue THEN Cardinality(queue) ELSE Cardinality(queue) + 1
        BY <4>1, FS_AddElement
      <4> QED
        BY <1>b, <2>1, <4>2
    <3>5. Cardinality(queue) <= Cardinality(Popping)
      BY <1>0, <3>2 DEF NoLostWakeup
    <3>6. Cardinality(queue') <= Cardinality(Popping')
      BY <1>b, <3>3, <3>4, <3>5
    <3> QED
      BY <2>1, <3>6 DEF NoLostWakeup
  <2> QED
    BY <2>1, <2>2, <2>3, SignalEffect
<1>2. ASSUME NEW w \in Workers, PopWaits(w) PROVE NoLostWakeup'
  <2>1. queue' = {} /\ ~closed'
    BY <1>2 DEF PopWaits
  <2>2. Cardinality(queue') = 0
    BY <2>1, FS_EmptySet
  <2> QED
    BY <1>b, <2>1, <2>2 DEF NoLostWakeup
<1>3. ASSUME NEW w \in Workers, NEW t \in Tasks, PopReturns(w, t)
      PROVE  NoLostWakeup'
  <2>1. /\ queue' = queue \ {t} /\ t \in queue
        /\ Popping' = Popping \ {w} /\ w \in Popping
        /\ Waiting' = Waiting
        /\ closed' = closed
    BY <1>0, <1>3 DEF PopReturns, HeapMinima, TypeOK, At
  <2>2. /\ Cardinality(queue') = Cardinality(queue) - 1
        /\ Cardinality(Popping') = Cardinality(Popping) - 1
    BY <1>a, <2>1, FS_RemoveElement
  <2> QED
    BY <1>0, <1>b, <2>1, <2>2 DEF NoLostWakeup
<1>4. ASSUME NEW w \in Workers, PopReturnsNil(w) PROVE NoLostWakeup'
  <2>1. queue' = {} /\ closed' = closed /\ Waiting' = Waiting
    BY <1>0, <1>4 DEF PopReturnsNil, TypeOK, At
  <2>2. Cardinality(queue') = 0
    BY <2>1, FS_EmptySet
  <2> QED
    BY <1>0, <1>b, <2>1, <2>2 DEF NoLostWakeup
<1>5. ASSUME NEW w \in Workers,
             \/ StartTask(w) \/ DiagnoseSucceeds(w) \/ DiagnoseFails(w)
             \/ DiagnosePanics(w) \/ RetryTimerFires(w) \/ RetryCancelled(w)
             \/ FinishTask(w)
      PROVE  NoLostWakeup'
  <2>1. UNCHANGED <<queue, closed>>
    BY <1>5 DEF StartTask, DiagnoseSucceeds, DiagnoseFails, DiagnosePanics,
                RetryTimerFires, RetryCancelled, FinishTask
  <2>2. Waiting' = Waiting /\ Popping \subseteq Popping'
    BY <1>0, <1>5 DEF TypeOK, At, StartTask, DiagnoseSucceeds, DiagnoseFails,
                DiagnosePanics, RetryTimerFires, RetryCancelled, FinishTask
  <2> QED
    BY <1>c, <2>1, <2>2
<1>6. CASE StopCloses
  <2>1. Waiting' = {}
    BY <1>0, <1>6 DEF StopCloses, Broadcast, TypeOK, At
  <2> QED
    BY <2>1 DEF NoLostWakeup
<1>7. ASSUME \/ \E t \in Tasks : SubmitRefused(t)
             \/ StopCancels \/ StopReturns \/ UNCHANGED vars
      PROVE  NoLostWakeup'
  BY <1>c, <1>7 DEF SubmitRefused, StopCancels, StopReturns, vars, At
<1> QED
  BY <1>1, <1>2, <1>3, <1>4, <1>5, <1>6, <1>7 DEF Next, Worker, Terminated

-----------------------------------------------------------------------------
\* First come, first served: the popped task is minimal for Less, and a new one
\* carries the latest time.
LEMMA NoOvertakingStep == IInv /\ [Next]_vars => NoOvertaking'
<1> SUFFICES ASSUME IInv, [Next]_vars PROVE NoOvertaking'
  OBVIOUS
<1> USE DEF NoOvertaking, Accepted
<1>0. TypeOK /\ QueueInv /\ NoOvertaking /\ WorkerInv
  BY DEF IInv
<1>a. ASSUME UNCHANGED <<queue, priority, createdAt>>,
             NEW x, x \in Accepted \/ status' = status,
             \A u \in Tasks : u # x => status'[u] = status[u]
      PROVE  NoOvertaking'
  BY <1>0, <1>a
<1>1. ASSUME NEW t \in Tasks, SubmitRefused(t) PROVE NoOvertaking'
  BY <1>0, <1>1 DEF SubmitRefused, TypeOK
<1>2. ASSUME NEW t \in Tasks, NEW severity \in Severities,
             SubmitAccepted(t, severity)
      PROVE  NoOvertaking'
  <2>1. /\ queue' = queue \cup {t}
        /\ Accepted' = Accepted \cup {t}
        /\ \A u \in Tasks : u # t => /\ priority'[u] = priority[u]
                                    /\ createdAt'[u] = createdAt[u]
        /\ createdAt'[t] >= clock
    BY <1>0, <1>2 DEF SubmitAccepted, TypeOK
  <2>2. SUFFICES ASSUME NEW v \in queue', NEW u \in Accepted' \ queue',
                        priority'[v] = priority'[u]
                 PROVE  createdAt'[u] <= createdAt'[v]
    OBVIOUS
  <2>3. u \in Accepted \ queue /\ u # t /\ u \in Tasks
    BY <2>1, <2>2
  <2>4. CASE v = t
    <3>1. createdAt[u] <= clock /\ createdAt[u] \in Nat /\ clock \in Nat
          /\ createdAt'[t] \in Nat
      BY <1>0, <2>3, TypeCoreStep DEF QueueInv, TypeOK, TypeCore
    <3> QED
      BY <2>1, <2>3, <2>4, <3>1
  <2>5. CASE v # t
    BY <1>0, <2>1, <2>2, <2>3, <2>5 DEF TypeOK
  <2> QED
    BY <2>4, <2>5
<1>3. ASSUME NEW w \in Workers, NEW t \in Tasks, PopReturns(w, t)
      PROVE  NoOvertaking'
  <2>1. /\ queue' = queue \ {t} /\ t \in queue
        /\ \A u \in queue : ~Less(u, t)
        /\ UNCHANGED <<status, priority, createdAt>>
    BY <1>3 DEF PopReturns, HeapMinima, taskVars
  <2>2. ASSUME NEW v \in queue, priority[v] = priority[t]
        PROVE  createdAt[t] <= createdAt[v]
    <3>1. createdAt[t] \in Nat /\ createdAt[v] \in Nat
      BY <1>0, <2>1 DEF TypeOK
    <3> QED
      BY <2>1, <2>2, <3>1 DEF Less
  <2> QED
    BY <1>0, <2>1, <2>2
<1>4. ASSUME NEW w \in Workers,
             \/ StartTask(w) \/ DiagnoseSucceeds(w) \/ DiagnoseFails(w)
             \/ DiagnosePanics(w) \/ RetryTimerFires(w) \/ RetryCancelled(w)
      PROVE  NoOvertaking'
  <2>1. UNCHANGED <<queue, priority, createdAt>>
    BY <1>4 DEF StartTask, DiagnoseSucceeds, DiagnoseFails, DiagnosePanics,
                RetryTimerFires, RetryCancelled
  <2>2. /\ pc[w] \in {"popped", "diagnose", "retryWait"}
        /\ \A u \in Tasks : u # cur[w] => status'[u] = status[u]
    BY <1>0, <1>4 DEF TypeOK, StartTask, DiagnoseSucceeds, DiagnoseFails,
                DiagnosePanics, RetryTimerFires, RetryCancelled
  <2>3. cur[w] \in Accepted
    BY <1>0, <2>2 DEF TypeOK, WorkerInv, HoldingPcs
  <2> QED
    BY <1>a, <2>1, <2>2, <2>3
<1>5. ASSUME NEW w \in Workers, PopWaits(w) \/ PopReturnsNil(w) \/ FinishTask(w)
      PROVE  UNCHANGED <<taskVars, queue>>
  BY <1>5 DEF PopWaits, PopReturnsNil, FinishTask
<1>6. ASSUME StopCloses \/ StopCancels \/ StopReturns \/ UNCHANGED vars
      PROVE  UNCHANGED <<taskVars, queue>>
  BY <1>6 DEF StopCloses, StopCancels, StopReturns, vars
<1>7. ASSUME UNCHANGED <<taskVars, queue>> PROVE NoOvertaking'
  BY <1>0, <1>7 DEF taskVars
<1> QED
  BY <1>1, <1>2, <1>3, <1>4, <1>5, <1>6, <1>7 DEF Next, Worker, Terminated
-----------------------------------------------------------------------------
\* One place per task.  It changes in pairs: into the heap with "pending", from the
\* heap to a worker, and out of the worker's hands with a final status.
LEMMA OnePlaceStep == IInv /\ [Next]_vars => OnePlacePerTask'
<1> SUFFICES ASSUME IInv, [Next]_vars PROVE OnePlacePerTask'
  OBVIOUS
<1> USE SchedulerAssumption DEF SchedulerAssumption, OnePlacePerTask
<1>0. TypeOK /\ WorkerInv /\ QueueInv /\ OnePlacePerTask
  BY DEF IInv
<1>a. ASSUME UNCHANGED <<status, queue, cur>>,
             \A w \in Workers : pc[w] = "finish" <=> pc'[w] = "finish"
      PROVE  OnePlacePerTask'
  BY <1>0, <1>a
\* The worker w goes on with its task, or ends it.
<1>b. ASSUME NEW w \in Workers,
             pc[w] \in {"popped", "diagnose", "retryWait"},
             UNCHANGED <<queue, cur>>,
             \A v \in Workers : v # w => pc'[v] = pc[v],
             \A u \in Tasks : u # cur[w] => status'[u] = status[u],
             status'[cur[w]] \in {"pending", "running"} <=> pc'[w] # "finish"
      PROVE  OnePlacePerTask'
  <2>1. cur[w] \in Tasks
    BY <1>0, <1>b DEF TypeOK, WorkerInv, HoldingPcs
  <2>2. ASSUME NEW t \in Tasks
        PROVE  /\ t \in queue' => \A v \in Workers : cur'[v] # t
               /\ \A u, v \in Workers : cur'[u] = t /\ cur'[v] = t => u = v
    BY <1>0, <1>b
  <2>3. ASSUME NEW t \in Tasks, t # cur[w]
        PROVE  status'[t] \in {"pending", "running"} <=>
                 (t \in queue' \/ \E v \in Workers : cur'[v] = t /\ pc'[v] # "finish")
    BY <1>0, <1>b, <2>3
  <2>4. cur[w] \notin queue /\ \A v \in Workers : cur[v] = cur[w] => v = w
    BY <1>0, <2>1
  <2>5. ASSUME NEW t \in Tasks, t = cur[w]
        PROVE  status'[t] \in {"pending", "running"} <=>
                 (t \in queue' \/ \E v \in Workers : cur'[v] = t /\ pc'[v] # "finish")
    BY <1>b, <2>4, <2>5
  <2> QED
    BY <2>2, <2>3, <2>5
<1>1. ASSUME NEW t \in Tasks, SubmitRefused(t) PROVE OnePlacePerTask'
  <2>1. /\ status[t] = "unsubmitted" /\ status'[t] = "rejected"
        /\ \A u \in Tasks : u # t => status'[u] = status[u]
        /\ UNCHANGED <<queue, cur, pc>>
    BY <1>0, <1>1 DEF SubmitRefused, TypeOK
  <2> QED
    BY <1>0, <2>1
<1>2. ASSUME NEW t \in Tasks, NEW severity \in Severities,
             SubmitAccepted(t, severity)
      PROVE  OnePlacePerTask'
  <2>1. /\ status[t] = "unsubmitted" /\ status'[t] = "pending"
        /\ \A u \in Tasks : u # t => status'[u] = status[u]
        /\ queue' = queue \cup {t}
        /\ cur' = cur
    BY <1>0, <1>2 DEF SubmitAccepted, TypeOK
  <2>2. \A w \in Workers : pc[w] = "finish" <=> pc'[w] = "finish"
    <3>1. pc \in [Workers -> WorkerPcs] /\ Signal
      BY <1>0, <1>2 DEF TypeOK, SubmitAccepted
    <3>2. \/ pc' = pc
          \/ \E w \in Workers : pc[w] = "waiting" /\ pc' = [pc EXCEPT ![w] = "pop"]
      BY <3>1, SignalEffect
    <3> QED
      BY <3>1, <3>2
  <2>3. \A w \in Workers : cur[w] # t
    <3>1. ASSUME NEW w \in Workers, cur[w] = t PROVE FALSE
      <4>1. pc[w] \in HoldingPcs
        BY <1>0, <3>1 DEF WorkerInv
      <4>2. pc[w] # "finish"
        BY <1>0, <2>1, <3>1 DEF WorkerInv, Terminal
      <4> QED
        BY <1>0, <2>1, <3>1, <4>2
    <3> QED
      BY <3>1
  <2> QED
    BY <1>0, <2>1, <2>2, <2>3
<1>3. ASSUME NEW w \in Workers, NEW t \in Tasks, PopReturns(w, t)
      PROVE  OnePlacePerTask'
  <2>1. /\ t \in queue /\ queue' = queue \ {t}
        /\ pc[w] = "pop" /\ pc'[w] = "popped"
        /\ cur'[w] = t
        /\ \A v \in Workers : v # w => pc'[v] = pc[v] /\ cur'[v] = cur[v]
        /\ status' = status
    BY <1>0, <1>3 DEF PopReturns, HeapMinima, taskVars, TypeOK
  <2>2. cur[w] = NoTask /\ status[t] = "pending"
    BY <1>0, <2>1 DEF WorkerInv, HoldingPcs, QueueInv
  <2> QED
    BY <1>0, <2>1, <2>2
<1>4. ASSUME NEW w \in Workers, StartTask(w) \/ RetryTimerFires(w)
      PROVE  OnePlacePerTask'
  <2>1. cur[w] \in Tasks
    BY <1>0, <1>4 DEF StartTask, RetryTimerFires, TypeOK, WorkerInv, HoldingPcs
  <2> QED
    BY <1>0, <1>4, <1>b, <2>1 DEF StartTask, RetryTimerFires, TypeOK
<1>5. ASSUME NEW w \in Workers,
             DiagnoseSucceeds(w) \/ DiagnosePanics(w) \/ RetryCancelled(w)
      PROVE  OnePlacePerTask'
  <2>1. cur[w] \in Tasks
    BY <1>0, <1>5 DEF DiagnoseSucceeds, DiagnosePanics, RetryCancelled, TypeOK,
                      WorkerInv, HoldingPcs
  <2> QED
    BY <1>0, <1>5, <1>b, <2>1 DEF DiagnoseSucceeds, DiagnosePanics, RetryCancelled,
                                  TypeOK
<1>6. ASSUME NEW w \in Workers, DiagnoseFails(w) PROVE OnePlacePerTask'
  <2>1. cur[w] \in Tasks /\ status[cur[w]] = "running"
    BY <1>0, <1>6 DEF DiagnoseFails, TypeOK, WorkerInv, HoldingPcs
  <2>2. CASE GiveUp(w)
    BY <1>0, <1>6, <1>b, <2>1, <2>2 DEF DiagnoseFails, TypeOK
  <2>3. CASE ~GiveUp(w)
    BY <1>0, <1>6, <1>b, <2>1, <2>3 DEF DiagnoseFails, TypeOK
  <2> QED
    BY <2>2, <2>3
<1>7. ASSUME NEW w \in Workers, FinishTask(w) PROVE OnePlacePerTask'
  <2>1. /\ pc[w] = "finish" /\ cur'[w] = NoTask
        /\ \A v \in Workers : v # w => pc'[v] = pc[v] /\ cur'[v] = cur[v]
        /\ UNCHANGED <<status, queue>>
    BY <1>0, <1>7 DEF FinishTask, taskVars, TypeOK
  <2>2. \A t \in Tasks : cur'[w] # t
    BY <2>1
  <2> QED
    BY <1>0, <2>1, <2>2
<1>8. ASSUME NEW w \in Workers, PopWaits(w) \/ PopReturnsNil(w)
      PROVE  OnePlacePerTask'
  BY <1>0, <1>8, <1>a DEF PopWaits, PopReturnsNil, taskVars, TypeOK
<1>9. CASE StopCloses
  BY <1>0, <1>9, <1>a DEF StopCloses, Broadcast, taskVars, TypeOK
<1>10. CASE StopCancels \/ StopReturns \/ UNCHANGED vars
  BY <1>10, <1>a DEF StopCancels, StopReturns, vars, taskVars
<1> QED
  BY <1>1, <1>2, <1>3, <1>4, <1>5, <1>6, <1>7, <1>8, <1>9, <1>10
     DEF Next, Worker, Terminated

-----------------------------------------------------------------------------
\* A failed task keeps the reason it failed for, and gets one when it fails.
LEMMA FailsForCauseStep == IInv /\ [Next]_vars => FailsForCause'
<1> SUFFICES ASSUME IInv, [Next]_vars PROVE FailsForCause'
  OBVIOUS
<1> USE EffectiveConfig DEF FailsForCause, InStatus
<1>0. TypeOK /\ WorkerInv /\ FailsForCause
  BY DEF IInv
<1>a. ASSUME UNCHANGED <<retryCount, error>>, cancelled => cancelled',
             \A t \in Tasks : status'[t] = "failed" => status[t] = "failed"
      PROVE  FailsForCause'
  BY <1>0, <1>a
<1>1. ASSUME NEW t \in Tasks, SubmitRefused(t) PROVE FailsForCause'
  BY <1>0, <1>1, <1>a DEF SubmitRefused, TypeOK, stopVars
<1>2. ASSUME NEW t \in Tasks, NEW severity \in Severities,
             SubmitAccepted(t, severity)
      PROVE  FailsForCause'
  BY <1>0, <1>2, <1>a DEF SubmitAccepted, TypeOK, stopVars
<1>3. ASSUME NEW w \in Workers,
             StartTask(w) \/ DiagnoseSucceeds(w) \/ RetryTimerFires(w)
      PROVE  FailsForCause'
  BY <1>0, <1>3, <1>a DEF StartTask, DiagnoseSucceeds, RetryTimerFires, TypeOK,
                          stopVars
<1>4. ASSUME NEW w \in Workers, DiagnoseFails(w) PROVE FailsForCause'
  <2>1. cur[w] \in Tasks /\ status[cur[w]] = "running"
    BY <1>0, <1>4 DEF DiagnoseFails, TypeOK, WorkerInv, HoldingPcs
  <2>2. /\ error'[cur[w]] = "error" /\ retryCount'[cur[w]] = attempt[w] + 1
        /\ \A u \in Tasks : u # cur[w] => /\ error'[u] = error[u]
                                         /\ retryCount'[u] = retryCount[u]
                                         /\ status'[u] = status[u]
        /\ cancelled' = cancelled
    BY <1>0, <1>4, <2>1 DEF DiagnoseFails, TypeOK, stopVars
  <2>3. CASE GiveUp(w)
    <3>1. cancelled \/ attempt[w] + 1 = MaxRetries + 1
      BY <1>0, <2>3 DEF GiveUp, TypeOK
    <3> QED
      BY <1>0, <2>1, <2>2, <3>1
  <2>4. CASE ~GiveUp(w)
    <3>1. status'[cur[w]] = "running"
      BY <1>4, <2>1, <2>4 DEF DiagnoseFails
    <3> QED
      BY <1>0, <2>1, <2>2, <3>1
  <2> QED
    BY <2>3, <2>4
<1>5. ASSUME NEW w \in Workers, DiagnosePanics(w) \/ RetryCancelled(w)
      PROVE  FailsForCause'
  BY <1>0, <1>5 DEF DiagnosePanics, RetryCancelled, TypeOK, stopVars, WorkerInv,
                    HoldingPcs
<1>6. ASSUME NEW w \in Workers,
             \/ PopWaits(w) \/ PopReturnsNil(w) \/ FinishTask(w)
             \/ \E t \in Tasks : PopReturns(w, t)
      PROVE  FailsForCause'
  BY <1>6, <1>a DEF PopWaits, PopReturnsNil, FinishTask, PopReturns, taskVars,
                    stopVars
<1>7. CASE StopCloses \/ StopCancels \/ StopReturns \/ UNCHANGED vars
  BY <1>7, <1>a DEF StopCloses, StopCancels, StopReturns, vars, taskVars, stopVars
<1> QED
  BY <1>1, <1>2, <1>3, <1>4, <1>5, <1>6, <1>7 DEF Next, Worker, Terminated
-----------------------------------------------------------------------------
LEMMA InitIInv == Init => IInv
<1> SUFFICES ASSUME Init PROVE IInv
  OBVIOUS
\* The flags apart from the rest: Zenon reads Booleans, SMT the functions.
<1>a. /\ closed \in BOOLEAN /\ stopped \in BOOLEAN /\ cancelled \in BOOLEAN
      /\ ~closed /\ ~stopped /\ ~cancelled
  BY Zenon DEF Init
<1>b. /\ status = [t \in Tasks |-> "unsubmitted"]
      /\ priority = [t \in Tasks |-> 0]
      /\ createdAt = [t \in Tasks |-> 0]
      /\ retryCount = [t \in Tasks |-> 0]
      /\ error = [t \in Tasks |-> "none"]
      /\ queue = {}
      /\ stopPc = "idle"
      /\ pc = [w \in Workers |-> "pop"]
      /\ cur = [w \in Workers |-> NoTask]
      /\ attempt = [w \in Workers |-> 0]
      /\ running = 0 /\ completed = 0 /\ failed = 0 /\ clock = 0
  BY Zenon DEF Init
<1>1. Busy = {} /\ InStatus({"completed"}) = {} /\ InStatus({"failed"}) = {}
  BY <1>b DEF Busy, BusyPcs, InStatus
<1>2. CountersInv
  BY <1>b, <1>1, FS_EmptySet DEF CountersInv
<1>3. /\ Cardinality(Workers) \in Nat /\ Cardinality(Tasks) \in Nat
      /\ MaxRetries \in Nat
  BY EffectiveConfig, FS_CardinalityType, SchedulerAssumption
     DEF SchedulerAssumption
<1>4. TypeOK
  <2>1. /\ retryCount \in [Tasks -> 0..(MaxRetries + 1)]
        /\ attempt \in [Workers -> 0..MaxRetries]
        /\ running \in 0..Cardinality(Workers)
        /\ completed \in 0..Cardinality(Tasks)
        /\ failed \in 0..Cardinality(Tasks)
    BY <1>b, <1>3
  <2>2. /\ status \in [Tasks -> Statuses]
        /\ error \in [Tasks -> Errors]
        /\ stopPc \in StopPcs
        /\ pc \in [Workers -> WorkerPcs]
    BY <1>b DEF Statuses, Errors, StopPcs, WorkerPcs
  <2> QED
    BY <1>a, <1>b, <2>1, <2>2 DEF TypeOK
<1>5. WorkerInv /\ QueueInv /\ StopInv
  <2>1. WorkerInv
    BY <1>b DEF WorkerInv, HoldingPcs
  <2>2. QueueInv
    BY <1>b DEF QueueInv
  <2>3. \A w \in Workers : pc[w] # "exited"
    BY <1>b
  <2>4. stopPc = "idle" /\ stopPc \notin {"wait", "returned"} /\ stopPc # "returned"
    BY <1>b
  <2>5. StopInv
    BY <1>a, <2>3, <2>4, Zenon DEF StopInv
  <2> QED
    BY <2>1, <2>2, <2>5
<1>6. NoLostWakeup
  BY <1>a, <1>b DEF NoLostWakeup, At
<1>7. OnePlacePerTask
  BY <1>b, SchedulerAssumption DEF OnePlacePerTask, SchedulerAssumption
<1>8. NoOvertaking /\ FailsForCause
  BY <1>b DEF NoOvertaking, FailsForCause, InStatus
<1> QED
  BY <1>2, <1>4, <1>5, <1>6, <1>7, <1>8 DEF IInv

LEMMA StepIInv == IInv /\ [Next]_vars => IInv'
BY TypeStep, WorkerInvStep, QueueInvStep, StopInvStep, CountersInvStep,
   NoLostWakeupStep, OnePlaceStep, NoOvertakingStep, FailsForCauseStep DEF IInv

\* The inductive invariant holds in every reachable state.
THEOREM IInvHolds == Safety => []IInv
<1>1. Init => IInv
  BY InitIInv
<1>2. IInv /\ [Next]_vars => IInv'
  BY StepIInv
<1> QED
  BY <1>1, <1>2, PTL DEF Safety

-----------------------------------------------------------------------------
\* Every variable keeps its type and every counter its range.
THEOREM TypeCorrect == Safety => []TypeOK
<1>1. IInv => TypeOK
  BY DEF IInv
<1> QED
  BY <1>1, IInvHolds, PTL

\* One Signal per push is enough: no task waits while a worker sleeps on it, and
\* close leaves no worker asleep.
THEOREM WakeupsAreNotLost == Safety => []NoLostWakeup
<1>1. IInv => NoLostWakeup
  BY DEF IInv
<1> QED
  BY <1>1, IInvHolds, PTL

\* No accepted task is dropped, run twice at once, or queued while it runs.
THEOREM EachTaskInOnePlace == Safety => []OnePlacePerTask
<1>1. IInv => OnePlacePerTask
  BY DEF IInv
<1> QED
  BY <1>1, IInvHolds, PTL

\* Within a severity the tasks leave the queue in the order of their creation.
THEOREM FirstComeFirstServed == Safety => []NoOvertaking
<1>1. IInv => NoOvertaking
  BY DEF IInv
<1> QED
  BY <1>1, IInvHolds, PTL

\* Every failure has a cause: attempts used up, a panic, or the shutdown.
THEOREM FailureHasCause == Safety => []FailsForCause
<1>1. IInv => FailsForCause
  BY DEF IInv
<1> QED
  BY <1>1, IInvHolds, PTL

\* When Stop returns, the heap is empty, all that was accepted has ended, and the
\* two counters add up to it.
THEOREM StopLeavesNothing == Safety => []StopDrains
<1>1. ASSUME IInv, stopPc = "returned" PROVE StopDrains
  <2>0. /\ TypeOK /\ WorkerInv /\ StopInv /\ CountersInv /\ OnePlacePerTask
        /\ \A w \in Workers : pc[w] = "exited"
    BY <1>1 DEF IInv, StopInv
  <2>1. queue = {}
    BY <2>0, SchedulerAssumption DEF StopInv, SchedulerAssumption
  <2>2. \A w \in Workers : cur[w] = NoTask
    BY <2>0 DEF WorkerInv, HoldingPcs
  <2>3. InStatus({"pending", "running"}) = {}
    BY <2>0, <2>1, <2>2, SchedulerAssumption
       DEF OnePlacePerTask, InStatus, SchedulerAssumption
  <2>4. Busy = {}
    BY <2>0 DEF Busy, BusyPcs
  <2>5. running = 0
    BY <2>0, <2>4, FS_EmptySet DEF CountersInv
  <2>6. completed + failed = Cardinality(Accepted)
    <3> DEFINE C == InStatus({"completed"})
               F == InStatus({"failed"})
    <3>1. Accepted = C \cup F /\ C \cap F = {}
      BY <2>0, <2>3 DEF Accepted, InStatus, TypeOK, Statuses
    <3>2. C \in SUBSET Tasks /\ F \in SUBSET Tasks
      BY DEF InStatus
    <3>3. IsFiniteSet(C) /\ IsFiniteSet(F)
      BY <3>2, FiniteSelections
    <3>4. Cardinality(C \cup F)
            = Cardinality(C) + Cardinality(F) - Cardinality(C \cap F)
      BY <3>3, FS_Union
    <3>5. Cardinality(C \cap F) = 0
      BY <3>1, FS_EmptySet
    <3>6. Cardinality(C) \in Nat /\ Cardinality(F) \in Nat
      BY <3>3, FS_CardinalityType
    <3> QED
      BY <2>0, <3>1, <3>4, <3>5, <3>6 DEF CountersInv
  <2> QED
    BY <2>1, <2>3, <2>5, <2>6 DEF StopDrains
<1>2. IInv => StopDrains
  BY <1>1 DEF StopDrains
<1> QED
  BY <1>2, IInvHolds, PTL
-----------------------------------------------------------------------------
\* A worker about to start its task finds fewer tasks running than there are
\* workers: each running task is held by a worker of its own, and not by this one.
LEMMA RoomToStart ==
  ASSUME IInv, NEW w \in Workers, pc[w] = "popped"
  PROVE  Cardinality(InStatus({"running"})) < Cardinality(Workers)
<1> DEFINE R == InStatus({"running"})
           Others == Workers \ {w}
           holder == [t \in R |-> CHOOSE v \in Workers : cur[v] = t]
<1>0. WorkerInv /\ QueueInv /\ OnePlacePerTask /\ IsFiniteSet(Workers)
  BY SchedulerAssumption DEF IInv, SchedulerAssumption
<1>1. ASSUME NEW t \in R
      PROVE  holder[t] \in Others /\ cur[holder[t]] = t
  <2>1. t \in Tasks /\ status[t] = "running"
    BY DEF InStatus
  <2>2. t \notin queue
    BY <1>0, <2>1 DEF QueueInv
  <2>3. \E v \in Workers : cur[v] = t
    BY <1>0, <2>1, <2>2 DEF OnePlacePerTask
  <2>4. holder[t] \in Workers /\ cur[holder[t]] = t
    BY <2>3
  <2>5. status[cur[w]] = "pending"
    BY <1>0 DEF WorkerInv
  <2> QED
    BY <2>1, <2>4, <2>5
<1>2. holder \in Injection(R, Others)
  <2>1. holder \in [R -> Others]
    BY <1>1
  <2>2. \A t, u \in R : holder[t] = holder[u] => t = u
    BY <1>1
  <2> QED
    BY <2>1, <2>2 DEF Injection, IsInjective
<1>3. IsFiniteSet(Others) /\ Cardinality(Others) = Cardinality(Workers) - 1
  BY <1>0, FS_RemoveElement
<1>4. Cardinality(R) <= Cardinality(Others)
  BY <1>2, <1>3, FS_Injection
<1>5. Cardinality(R) \in Nat /\ Cardinality(Workers) \in Nat
  BY <1>0, <1>2, <1>3, FS_Injection, FS_CardinalityType
<1> QED
  BY <1>3, <1>4, <1>5

\* Each step of the scheduler is a step of TaskPool, or leaves it unchanged.
LEMMA StepImplementsPool == IInv /\ [Next]_vars => [Pool!Next]_(Pool!vars)
<1> SUFFICES ASSUME IInv, [Next]_vars PROVE [Pool!Next]_(Pool!vars)
  OBVIOUS
<1> USE DEF Phase
<1>0. TypeOK /\ WorkerInv /\ StopInv
  BY DEF IInv
<1>a. ASSUME UNCHANGED <<status, stopVars>> PROVE UNCHANGED Pool!vars
  BY <1>a DEF Pool!vars, stopVars
<1>b. ASSUME NEW w \in Workers, pc[w] \in {"diagnose", "retryWait"},
             NEW end \in {"completed", "failed"},
             status' = [status EXCEPT ![cur[w]] = end],
             UNCHANGED stopVars
      PROVE  Pool!Next
  <2>1. cur[w] \in Tasks /\ status[cur[w]] = "running"
    BY <1>0, <1>b DEF TypeOK, WorkerInv, HoldingPcs
  <2>2. Pool!Finish(cur[w])
    BY <1>b, <2>1 DEF Pool!Finish, stopVars
  <2> QED
    BY <2>1, <2>2 DEF Pool!Next
<1>1. ASSUME NEW t \in Tasks, SubmitRefused(t) PROVE Pool!Next
  <2>1. Pool!Refuse(t)
    BY <1>1 DEF SubmitRefused, Pool!Refuse, stopVars
  <2> QED
    BY <2>1 DEF Pool!Next
<1>2. ASSUME NEW t \in Tasks, NEW severity \in Severities,
             SubmitAccepted(t, severity)
      PROVE  Pool!Next
  <2>1. Phase = "open" /\ Phase' = Phase
    BY <1>0, <1>2 DEF SubmitAccepted, StopInv, stopVars
  <2>2. Pool!Accept(t)
    BY <1>2, <2>1 DEF SubmitAccepted, Pool!Accept
  <2> QED
    BY <2>2 DEF Pool!Next
<1>3. ASSUME NEW w \in Workers, StartTask(w) PROVE Pool!Next
  <2>1. cur[w] \in Tasks /\ status[cur[w]] = "pending"
    BY <1>0, <1>3 DEF StartTask, TypeOK, WorkerInv, HoldingPcs
  <2>2. Cardinality(InStatus({"running"})) < Cardinality(Workers)
    BY <1>3, RoomToStart DEF StartTask
  <2>3. Pool!Start(cur[w])
    <3>1. Pool!InStatus({"running"}) = InStatus({"running"})
      BY DEF Pool!InStatus, InStatus
    <3>2. status' = [status EXCEPT ![cur[w]] = "running"] /\ Phase' = Phase
      BY <1>3 DEF StartTask, stopVars
    <3>3. Pool!Cardinality(InStatus({"running"})) = Cardinality(InStatus({"running"}))
      BY DEF Pool!Cardinality, Cardinality, Pool!IsFiniteSet, IsFiniteSet
    <3>4. Pool!Cardinality(Pool!InStatus({"running"})) < Cardinality(Workers)
      BY <2>2, <3>1, <3>3
    <3> QED
      BY <2>1, <3>2, <3>4, Zenon DEF Pool!Start
  <2> QED
    BY <2>1, <2>3 DEF Pool!Next
<1>4. ASSUME NEW w \in Workers, DiagnoseSucceeds(w) PROVE Pool!Next
  BY <1>4, <1>b DEF DiagnoseSucceeds
<1>5. ASSUME NEW w \in Workers, DiagnosePanics(w) PROVE Pool!Next
  BY <1>5, <1>b DEF DiagnosePanics
<1>6. ASSUME NEW w \in Workers, RetryCancelled(w) PROVE Pool!Next
  BY <1>6, <1>b DEF RetryCancelled
<1>7. ASSUME NEW w \in Workers, DiagnoseFails(w)
      PROVE  Pool!Next \/ UNCHANGED Pool!vars
  <2>1. CASE GiveUp(w)
    BY <1>7, <1>b, <2>1 DEF DiagnoseFails
  <2>2. CASE ~GiveUp(w)
    BY <1>7, <1>a, <2>2 DEF DiagnoseFails
  <2> QED
    BY <2>1, <2>2
<1>8. ASSUME NEW w \in Workers, RetryTimerFires(w) PROVE UNCHANGED Pool!vars
  <2>1. status[cur[w]] = "running"
    BY <1>0, <1>8 DEF RetryTimerFires, WorkerInv
  <2>2. status' = status
    BY <1>0, <1>8, <2>1 DEF RetryTimerFires, TypeOK
  <2> QED
    BY <1>8, <1>a, <2>2 DEF RetryTimerFires
<1>9. ASSUME NEW w \in Workers,
             \/ PopWaits(w) \/ PopReturnsNil(w) \/ FinishTask(w)
             \/ \E t \in Tasks : PopReturns(w, t)
      PROVE  UNCHANGED Pool!vars
  BY <1>9, <1>a DEF PopWaits, PopReturnsNil, FinishTask, PopReturns, taskVars
<1>10. CASE StopCloses
  <2>1. Phase = "open" /\ Phase' = "closed" /\ status' = status
    BY <1>0, <1>10 DEF StopCloses, StopInv, taskVars
  <2> QED
    BY <2>1 DEF Pool!Next, Pool!Close
<1>11. CASE StopCancels
  <2>1. Phase' = Phase /\ status' = status
    BY <1>11 DEF StopCancels, taskVars
  <2> QED
    BY <2>1 DEF Pool!vars
<1>12. CASE StopReturns
  <2>1. Phase = "closed" /\ Phase' = "stopped" /\ status' = status
    BY <1>0, <1>12 DEF StopReturns, StopInv, taskVars
  <2>2. \A w \in Workers : pc[w] = "exited"
    BY <1>12 DEF StopReturns, At
  <2>3. queue = {} /\ \A w \in Workers : cur[w] = NoTask
    BY <1>0, <2>2, SchedulerAssumption
       DEF StopInv, WorkerInv, HoldingPcs, SchedulerAssumption
  <2>4. \A t \in Tasks : status[t] \notin {"pending", "running"}
    <3>1. OnePlacePerTask /\ NoTask \notin Tasks
      BY SchedulerAssumption DEF IInv, SchedulerAssumption
    <3> QED
      BY <2>3, <3>1 DEF OnePlacePerTask
  <2>5. Pool!InStatus({"pending", "running"}) = {}
    BY <2>4 DEF Pool!InStatus
  <2> QED
    BY <2>1, <2>5 DEF Pool!Next, Pool!Stop
<1>13. CASE UNCHANGED vars
  BY <1>13, <1>a DEF vars, taskVars
<1> QED
  BY <1>1, <1>2, <1>3, <1>4, <1>5, <1>6, <1>7, <1>8, <1>9, <1>10, <1>11, <1>12,
     <1>13 DEF Next, Worker, Terminated

\* The scheduler implements the safety part of TaskPool: what callers see is tasks
\* accepted while open, at most one running per worker, and a Stop that returns
\* with nothing pending or running.
THEOREM SchedulerImplementsPool == Safety => Pool!Safety
<1>1. Init => Pool!Init
  BY DEF Init, Pool!Init, Phase
<1>2. IInv /\ [Next]_vars => [Pool!Next]_(Pool!vars)
  BY StepImplementsPool
<1> QED
  BY <1>1, <1>2, IInvHolds, PTL DEF Safety, Pool!Safety
=============================================================================
