# amp-sentinel in TLA+

amp-sentinel takes error events over HTTP, queues them, lets the Amp CLI diagnose
each one on a clone of the project's repository, scores the answer, stores it and
sends a card to Feishu. It is one Go process. What is hard in it is concurrency
(HTTP goroutines, a worker pool, a sweeper, a lock per project), failure (Amp, git,
the store and Feishu may each fail at any time, and diagnose may panic) and retries
(by the scheduler and by an administrator). The modules here model that; TLC checks
them on small instances, and TLAPS proves every safety property but one (`NothingInvented`) for
every instance.

All module and line references are to the sources under `src/`.

## Inventory

| Component | State | Operations | Module |
|---|---|---|---|
| Intake handler, `intake/handler.go` | dedup table (`sync.Map`), rate table (sharded, under mutexes), sweeper | `ServeHTTP`, `ServeIncidentCompat`, `ServeBatch`, all to `submitEvent`; `cleanupLoop`, `StopCleanup` | `Intake` |
| Scheduler, `scheduler/*.go` | heap, condition variable, flags, counters, tasks | `Submit`, `worker`/`processTask`, `Stop`, `Stats` | `Scheduler`, abstractly `TaskPool` |
| Diagnosis engine, `diagnosis/engine.go`, `fingerprint.go` | none of its own; the locals of each `Diagnose` | `Diagnose` | `Diagnosis` |
| Source manager, `project/source.go` | one mutex and one working copy per project | `Lock`, `Prepare`, `CommitHash`, `HasChanges`, `ResetChanges` | `Diagnosis` |
| Pipeline, `main.go` | none; the order of the calls | `onEvent`, `diagnoseFn`, the shutdown in its steps | `Pipeline` |
| Admin API, `api/server.go` | none | `handleRetry` changes state, the others read | `Pipeline` |
| SQL stores, `store/sqlite.go`, `mysql.go` | rows of events, tasks, reports, with foreign keys | create, update, save, find by fingerprint | `Pipeline`, `Diagnosis` |
| JSON store, `store/json.go` | maps in memory and a file | the same, `flushLoop`, `Close`, loading | `JsonStore` (its search is in `Diagnosis`) |
| Structured output, `diagnosis/structured.go`, `fixer.go` | none | find, repair and parse JSON | `Repair` |
| Scoring, `diagnosis/scoring.go` | none | six dimensions, a normalised total, flags | `Scoring` |
| Fingerprints, `intake/handler.go`, `diagnosis/fingerprint.go` | none | hash of chosen fields | `Fingerprint` |
| Feishu notifier, `notify/feishu.go` | none | `Notify` with retries | `Notifier` (its outcome is in `Pipeline`) |
| Skill manager, `skill/manager.go` | loaded once; shared `Env` maps | `LoadAll`, `Resolve`, `MCPConfig` | `SkillEnv`, in `AmpClient` |
| Amp client, `amp/*.go` | a settings file, a child process and its output, for each call | `Execute` | `AmpClient` (its outcomes are in `Diagnosis`) |
| Registry, configuration, prompt, logger, dashboard | read-only or output | | not modelled |

How they meet: an HTTP goroutine runs `Intake` and ends in `onEvent`, which writes an
event row and calls `Submit`; a worker runs `diagnoseFn`, which writes rows, calls
`Diagnose`, sends the card and writes rows again; the scheduler calls it again when it
returned an error; the admin API reads rows and calls `Submit`. Diagnoses of one project
share its lock and directory; diagnoses of one fingerprint share stored reports; diagnoses
of different projects share the maps of their skills.

What makes each part correct:

- Intake: an event is let through once per fingerprint and window, at most N times an
  hour, and nobody is turned away without a cause.
- Scheduler: an accepted task is run, by one worker, to one end, in order within its
  severity; no wakeup is lost; `Stop` leaves nothing behind.
- Diagnosis: the working copy is used under the lock, at one commit; a change that Amp
  made is never taken for an untainted answer; reuse is of a fit original.
- Pipeline: the rows tell what became of every task, whatever fails on the way; the
  shutdown ends, and closes the store when nothing is left to write.
- Amp client: a call returns, with all that Amp said, and leaves nothing behind. Skill
  manager: the maps of the diagnoses do not race.
- JSON store: what was flushed is loaded again; nothing is unwritten after `Close`.
- Structured output: what the repair yields is what Amp meant, or an error; the score means
  something where reports are reused.
- Fingerprints: one error, one fingerprint, whatever the order of its fields and the times and
  ids in its strings; with configured fields, one fingerprint for what has one text in them.

`PROJECT.json` lists the places where each of these could go wrong ("hazards").

## Modules

- `TaskPool`: what the scheduler promises its callers, abstractly.
- `Scheduler`: the code of `scheduler/`. A step is what happens under one lock, or
  between two calls that another goroutine can see. `SchedulerProofs` has the proofs.
- `Intake`: the code of the three endpoints from the body to the answer, and the sweep. A
  request is the handling of one event; `Batch` is the sequence of those that are the lines
  of one batch, which one goroutine handles one after another. A call on the
  `sync.Map` is one step (`LoadOrStore`, `CheckAge`, `CompareAndSwap`), a section under
  a shard's mutex is one step (`CheckRateLimit`, `SweepRate`). `IntakeProofs` has the proofs.
- `Diagnosis`: concurrent calls of `Diagnose` on one project and one fingerprint.
  `pc` is the place in `Diagnose`; `repo` the working copy (is there a clone, at which
  commit, with which kinds of changes); `lock` the project's mutex; `reports` the rows
  the search by fingerprint sees. `worthy` in a report stands for everything `canReuse`
  asks of its content. `DiagnosisProofs` has the proofs.
- `Pipeline`: `onEvent`, `diagnoseFn` and `handleRetry` around a pool, which is the
  abstract `TaskPool` by INSTANCE; each call of the store is one step. `main` is how far
  the shutdown of main.go:489-512 has come: the two calls of `Shutdown`, which share
  30 s (`late`), `Stop`, the deferred `Close` of the store, the exit. `PipelineProofs` has the
  proofs.
- `SkillEnv`: the Go map that `MCPConfig` completes and Execute encodes; an access beside a
  write is a race, which ends the process or goes unnoticed. `AmpClient` uses it by INSTANCE.
- `AmpClient`: a call of `MCPConfig` and then `Execute` for each diagnosis. `child` is the
  amp process, `pipe` its output, `heir` a descendant that keeps its stdout; the deadline
  kills the child alone. `AmpClientProofs` has the proofs.
- `JsonStore`: the store and its process. `pc` is the place of the two goroutines that
  flush; `marshalled` the bytes between the lock of `flush` and `os.WriteFile`, which is two
  steps, truncate and write. A crash loses all but the file; `Start` loads it.
  `JsonStoreProofs` has the proofs.
- `Repair`, `Scoring`, `Fingerprint`, `Notifier`: pure functions, an operator for each function of the
  code. `Algorithms` makes their inputs, step by step, and states what they should compute:
  an answer starts as a JSON object and is loosened, wrapped and cut; an event starts as
  another one and is repeated later, with its fields in another order or with another error;
  a card is posted until `Notify` returns, with every answer a post can get. Every scan of
  the code is a recursive function of the place in the text (`Scan`, `Kept`, `Open`,
  `Depth`), as its loop is. `RepairProofs` has the lemmas about `Repair`, `AlgorithmsProofs`
  the theorems.
- `MC*`: the instances. A definition named `Slip...` is a definition of the model as a
  plausible bug would have it; the specifications never use one. They show that each
  property notices the bug.

`Scheduler` implements `TaskPool` and `Pipeline` is built on `TaskPool`, so what
`Pipeline` needs of the scheduler is what the scheduler is shown to give. The refinement
maps the phase of the pool to the flags of `Stop`; `status` is the same variable.
`Pipeline` adds the retries by itself: to the pool an attempt that is repeated is still
one running task.

### Abstractions

- Tasks, requests, jobs, events and payloads are model values; a fingerprint is the pair
  of project and payload where no property is about it. `Fingerprint` has what is hashed.
- `Scheduler`: `diagnose` is a parameter that returns nil, an error or panics. Time is
  only the order of `CreatedAt`; the timer of a retry may fire at any time.
- `Intake`: the window and the hour are a few ticks. A request may stall at most
  `MaxStall` ticks inside the dedup check. The answer is what it says of the event, not
  its status code and form. The checks of method and token, which come first, are left out.
- `Diagnosis`: git, Amp and the store may fail at any call; that covers a context that is
  done. The git commands before Amp are one step and those after it another, for the
  lock is held (which `OneCommitPerDiagnosis` checks). An Amp process that commits, or
  that writes files git ignores, is left out: `git status` sees neither. An Amp process may
  make any set of the kinds of changes in `Writes`. `HasChanges` takes what git prints to
  stderr for a change (`CombinedOutput`, source.go:140): a warning about a clean copy marks the
  report tainted, as a failing `git status` does, so that `CheckFails` stands for both. A
  warning in the output of `CommitHash`, which would be taken for part of the hash, is left out.
- `Pipeline`: the rows are those of the SQL stores, foreign keys included. A panic is
  modelled in `Diagnose` only. A crash loses everything but the rows, and the process
  starts again.
- `AmpClient`: a message is one of five kinds that `Execute` tells apart. A descendant keeps
  stdout open but writes nothing. Two skills are two maps, each as the one here; a server
  without `env` in mcp.json has no shared map. The handler of the messages never fails.
- `JsonStore`: the tables are one map from ids to versions. JSON text is either whole, or
  empty, or cut. A shorter text written over a longer one leaves a cut file.
- `Repair`: a text is a sequence of tokens (`Characters`), a scalar is one token, keys are
  empty strings; `encoding/json` is the grammar of JSON, derived up to `Longest` tokens. Which
  fields `validateDiagnosisJSON` requires is reduced to "at least one". A number that is cut in
  its middle, which the repair cannot notice, is therefore out of the model.
- `Algorithms`: what stands around an answer (`Wrappings`) is prose that has no fence, and no
  brace before the answer, or a fence that opens a block and maybe one that closes it. Prose
  with a brace of its own misleads `extractJSONObject`, which takes the first one: what
  `WholeIsFound` says is not promised for it.
- `Scoring`: of a text only "none, short or long" is kept, of a location what the file
  system says.
- `Fingerprint`: no two texts collide in the hash, but different fields may have one text: a
  hash is the sequence of the pieces between the bars of the text (`Written`), without the
  kinds of the values, with the bars in a string as they are (`Barred`), and without the digits
  of a number that a float64 does not keep (`LongValue`). A boolean is as a number, for both
  are written without a trace of their kind. The dynamic part of a value is a time or an id;
  a string loses it in `Normalize`, a number keeps it. Fields are at the top level; an object
  or a list has one content, so that the placeholders inside it are out of the model.
- `Notifier`: an answer is one of six kinds, and apart from it stands whether the group
  has got the card. The signature of a post and the length of the waits are left out.

## Runs

| Run | Question | Result |
|---|---|---|
| `scheduler_safety` | three submissions, two workers, a queue of two, one retry: is any task lost, run twice, overtaken, failed without a cause; does a worker oversleep; what does `Stop` leave | holds |
| `scheduler_live` | two submissions, a queue of one: does every accepted task end, is the scheduler a `TaskPool`, whose `Stop` returns | holds |
| `intake` | one report beside a batch of two lines, every event that is screened out, the sweep, five ticks: what do the tables guarantee | holds |
| `intake_sweep` | `OncePerWindow`, the promise of DESIGN.md:385 | violated: the sweep deletes a renewed entry |
| `diagnosis` | one diagnosis that has ended and two that run, writes of two kinds, one push: lock, commit, taint, reuse, termination | holds |
| `diagnosis_check` | `ChangesAreNoticed`, the comment at engine.go:260 | violated: an error of Amp skips the check |
| `pipeline` | one event, two admin retries, one failing write, the shutdown, one restart: rows, reports, cards, is the store closed last, is the scheduler used as `TaskPool` lets it be, does the shutdown end | holds |
| `pipeline_retry` | `OneActivePerEvent`, the comment at server.go:228 | violated: a queued task has no row |
| `pipeline_stuck` | `RefusedForActive`, the answer at server.go:237 | violated: a panic leaves a running row |
| `amp` | two diagnoses that share a skill, a pipe of one message: races on the map, is the answer whole, does `Execute` return, what does it leave | holds |
| `json_store` | two records, two crashes, one failing write: is what was flushed loaded, what does `Close` leave | holds, but for flushes that overlap or are cut off |
| `algorithms` | every answer of up to 11 tokens, loosened, wrapped or cut, every scored diagnosis, every event of four fields, every fate of three posts: are the pure functions right | holds |

What the passing properties say that is not obvious from the code:

- `NoLostWakeup`: `push` signals once per task; that is enough because a worker sleeps
  only while every queued task has an awake worker that is about to pop.
- `NoOvertaking` rests on `CreatedAt` being read under `stopMu`. Its order is that of the
  `Submit`s; DESIGN.md:1113 has `occurred_at`, see the disagreements.
- `OncePerWindowUnlessSwept`, `DuplicateHasOriginal`: deduplication is right but for the
  races with the sweep, which are named in the property.
- `UnderTwiceTheHourlyLimit`: the fixed window lets at most 2N-1 events through in an hour
  (DESIGN.md:386 says N).
- `TaintHasCause`: a tainted report is explained by its own Amp process, by a check that
  failed, or by new files of a diagnosis that let go of the lock without cleaning up.
- `ReuseFits`: the commit that a reused report was made from is the current one, unless
  the report says so and the event is not critical, or one of the hashes is unknown.
- `NotifiedOnce`: nothing after `Notify` is an error, so no task is diagnosed and announced
  twice.
- `ShutdownSettles`: a handler that `Shutdown` gave up may go on beside `Stop` and after the
  store is closed; what it submits is refused, or is worked off before that, because `Submit`
  and `Stop` share a lock (`TaskPool`).
- `UsesPool`: between a start and an end of the process, all that `Pipeline` does with its
  tasks is a step of `TaskPool`, and the end by a shutdown is none at all, so that it loses
  nothing; `Scheduler` implements `TaskPool`, so what `Pipeline` relies on is what it does.
- `RaceOnlyAtFirstUse`: the map is safe once one call has completed it, for `MCPConfig`
  puts only what is missing; before, two calls may race, and end the process.
- `AnswerIsNotLost` rests on `Wait` coming after the end of the output (os/exec closes the
  pipe in `Wait`); `ReturnedLeavesNothing` covers every return of `Execute`.
- `ExecuteReturns` names its one exception: a descendant of amp that keeps stdout open.
- `FlushedIsKept`, `CloseKeepsAll`: `hurt` is the one excuse. It is set when two flushes are
  in the file at once, when a file operation fails, and when a crash cuts one off; it is
  taken back by the next flush that begins alone with everything still in memory.
- `CutIsClosed`: the repair is compared with a reference that is not an algorithm: among the
  JSON objects that begin with the cut text, the one that only closes a string and brackets.
  `TrimSpace` comes before the string is closed, so that white space at the cut is lost also
  where it was part of a string; the property says so by trimming what it compares with.
- `NothingInvented` covers also a code fence inside a string, which ends the block too early:
  the parser then takes the beginning of the object for the whole, but nothing else.
- `CopiesAreLostAnswers`: a card is seen twice only when the answer to a post that was
  delivered was lost, on the way or in a proxy; a body that cannot be read counts as success
  and causes no second post.
- `RepeatsMatch`: the order of the fields and what is dynamic in strings never matter, for any
  configured fields; a time or an id that is a number matters wherever it is hashed, except
  for digits that a float64 does not keep.
- `ProjectFieldsDecide` says both ways what decides on a duplicate. What reads alike in all
  configured fields is one event, and what is one event reads alike in them, unless a string
  has a bar in it. Reading alike is weaker than being equal: the string "1" and the number 1 are
  alike, and so are two long ids whose difference is beyond a float64. With a bar in a string, one
  field can read as two, and the second half is then false; the run has such events (`Join`).
- `ReuseIsSupported`: leaving a dimension out must not lift an unfounded diagnosis over the
  limit of reuse; this is why `Diagnose` turns a missing location into 0 (engine.go:309).

### Bounds, and why they are enough

- Two workers and three tasks give a worker that sleeps while another is signalled, two
  tasks of one severity, a full queue and a task queued when `Stop` comes. One retry has
  both branches of the loop. For the safety invariants of the processes, here and in the
  modules below, the proofs remove the bounds.
- Three requests let two meet in `CompareAndSwap` while a third renews an entry that the
  sweep has seen, also when two of them are lines of one batch; the clock
  (`MaxTime`) passes one window of two ticks and one hour of three. The hourly limit is 1 there,
  for which 2N-1 = N: an hour that meets two windows with events in both needs a limit of 2 and
  four requests, with which the run takes longer than five minutes; that case is covered by the theorem
  `HourIsBounded` alone, which holds for every limit.
- Two diagnoses contend for the lock on each path, with the report of an earlier one
  (`Earlier`) to reuse, so that the reused report of the first may be offered to the second.
  `MaxCommits` is one push.
- Two tasks of one event: the report and two admin retries compete for them. `MaxFailures`
  is one failing write and `MaxStarts` one start after a death or a shutdown, so that two
  excuses never hide each other.
- Two diagnoses suffice for a race on the map, and a second name that mcp.json has for a
  lookup that finds its key; a pipe of one message is full at once; `MaxLines` counts the
  two lines of all processes, which give an answer after another, or after a long line.
- `JsonStore`: two records tell an older table from a newer one and from a mixed one; two
  crashes let the second one find what the first one left.
- `algorithms`: eleven tokens hold two members, a list of two, an object in a member, escapes,
  and brackets, commas, white space and fences in strings; two pieces of evidence and two locations reach
  every branch of the score; four fields are more than the two that are hashed.
- Symmetry is used in the runs without liveness, on sets whose elements are alike.
- Deadlock is checked where the model should never stop (`Scheduler` and `Diagnosis`
  stutter explicitly when all is done; so does a `JsonStore` that was refused its file).
  `Intake` and `Pipeline` stop when the clock, the events or the starts run out, and
  `Algorithms` when an input is finished, which are bounds; `AmpClient` stops when all calls
  have returned or the process died of a race.

### Fairness

- `Scheduler`: weak fairness for each worker and for the two parts of `Stop` that follow
  its start. A worker that can step does: attempts end because `diagnose` runs under
  `DefaultTimeout`. Nothing makes anybody submit or stop. With finitely many submissions
  a low severity is not starved; with an endless stream of critical ones it could be, as
  in the code.
- `Diagnosis`: weak fairness for each step outside the lock calls, because git and Amp run
  under the diagnosis timeout, the safety check under its own, the fixer under 30 s.
  Strong fairness for taking the lock, on either path: Go's `sync.Mutex` hands over to a
  starving waiter.
- `Pipeline`: weak fairness of starting a task, of each attempt and of main after the
  signal, its 30 s included; none of the handlers, so that one may hang.
- `AmpClient`: weak fairness of each call, of its deadline and of the kill; none of the amp
  process and its descendants.
- `Intake` and `JsonStore` have safety properties only.

## Proofs

`SchedulerProofs` proves, for any finite set of submissions and workers (at least one),
any queue size and any retry count, that `IInv` is inductive, and from it every safety
invariant of the run `scheduler_safety`, and that each step of `Scheduler` is a step of
`TaskPool` or a stutter.

The invariants are not inductive one by one. `IInv` adds:

- `WorkerInv`: a worker holds a task from `pop` to the end of its loop, in the status that
  its place says. `OnePlacePerTask` needs it to know that a popped task is not ended.
- `QueueInv`: what is queued is pending, and nothing was created after now; `NoOvertaking`
  needs the second for a new task.
- `StopInv`: how far `Stop` has come. `StopDrains` and the bound on wakeups after `close`
  need that a worker leaves only a drained, closed queue.
- `CountersInv`: each counter is the size of a set of workers or tasks. `StopDrains` and the
  ranges in `TypeOK` follow from it by the theorems on finite sets.

There is a lemma for each conjunct, with a case for each action; `SignalEffect` and
`RoomToStart` are the two facts that are about more than one action: what `Signal` does to
the workers, and that a worker that starts a task finds fewer than `MaxConcurrency`
running. The only assumptions are those of `SchedulerAssumption`.

`JsonStoreProofs` proves, for any finite set of records and any bounds, the three invariants
of the run `json_store`. What a restart finds depends on what the last writer had
marshalled, so `IInv` adds:

- `FlushInv`: without an excuse (`hurt`) at most one goroutine is in the file, and before it
  writes, the file is empty, so that nothing of an older text stays behind
  (`OverwriteAlone`); what it marshalled is not newer than the memory; and when none is in
  the file, the file can be read and has all that was flushed. A flush that begins alone
  makes this true again (`MarshalSound`).
- `CloseInv`: what was there when `Close` was called goes from the memory to the bytes that
  `Close` marshals and from there to the file, or to the bytes that the loop is about to
  write over it.

The only assumptions are those of `JsonStoreAssumption`.

`DiagnosisProofs` proves, for any finite set of diagnoses, any number of pushes and any set
of kinds of changes that Amp may make, the five invariants of the run `diagnosis`. They are
about what a report says of a working copy that was used and released before it, so `IInv`
adds:

- `CountInv`: `built` is the number of diagnoses that have built a report, which bounds it.
- `StageInv`: what a diagnosis knows at each place: the report it was offered, the hash it
  read, that Amp has written nothing before it ran and nothing is tainted before the check.
- `ReportsInv`: a saved report is the one that its diagnosis returned, and a fresh one has
  the hash of the commit that was prepared. `ReuseFits` needs it of an original that was
  saved long ago.
- `TaintInv`: when the safety check runs, the changes in the working copy are what this Amp
  wrote and, at most, new files that were there before, because `Prepare` discards changes
  of tracked files but not new ones. `UntaintedWroteNothing` is its first half,
  `TaintHasCause` its second; whoever left new files is in `leaks`, or about to clean up.

The assumptions are `DiagnosisAssumption` and `WritesAssumption`.

`PipelineProofs` proves, for any events, any finite set of tasks, any admin requests and
retries, and any number of failing writes and of restarts, the four invariants of the run
`pipeline`. `IInv` is of four parts:

- `TypeCore`: types.
- `MainInv`: how far the shutdown has come says what the pool takes, that nothing is active
  once it has stopped, and that a handler in flight was given up (`late`) or is still waited
  for. `ShutdownSettles` needs all three.
- `EventInv`: an event is in the store before a task of it is in the pool, by which the
  writes of its status have a row to change.
- `TaskInv`: for each place of an attempt, what the rows of its task say (`Rows`), and
  whether its card was sent (`Announced`). A retry begins with the row of the attempt before.

Its lemmas say what a call of the store can do, and which task a step is about; every step
of another task, of a handler or of main is then one case. `UsesPool`, the action property,
follows from the same invariant: an exit with the store closed finds no task active. The assumption is
`PipelineAssumption`.

`AmpClientProofs` proves, for any calls, any names, any size of the pipe and any number of
lines, the four invariants of the run `amp`. `IInv` adds to the types:

- `Stage`: which of the settings file, the child and the pipe a call has at each place.
- `MapInv`: a call is done with names that are in the map, and once a call has completed the
  map, only those that began before it still put some. `RaceOnlyAtFirstUse` needs that two
  of those are there whenever two calls are in the map and one of them writes.
- `Answer`: the lines that are in the pipe lead from the result so far to the one that amp
  has said. The results in between are a function (`Reads`), so that no induction over the
  pipe is needed: reading drops its first value and writing adds one.

The assumption is `AmpClientAssumption`.

`IntakeProofs` proves, for any requests, any batch, any events, windows and limits, the four
invariants of the run `intake`. `IInv` adds to the types:

- `RequestInv`: at each place of the dedup check, what the request has seen and how long ago
  it has read the clock.
- `KeyInv`: an entry is at most `MaxStall` older than the last event that passed with its
  key; where there is none, and the sweep has deleted nothing live, the last one is a window
  ago. `OncePerWindowUnlessSwept` follows for whoever passes next (`PassesLate`).
- `OriginInv`: every entry, in the table or seen by a request, is of an event that passed at
  its time or later; and if the entry in the table is no longer the one seen, somebody has
  passed since the request came. `DuplicateHasOriginal` needs the second for a lost
  `CompareAndSwap`.
- `RateInv`: every event that was counted can be given a window, so that each window has its
  opener and at most `Limit` events, two windows do not overlap, and the entry of the table
  is the last window or, when there is none, all are over. An hour meets at most two of them
  and not the opener of the first, which is `UnderTwiceTheHourlyLimit` (`HourFits`).

The assumption is `IntakeAssumption`: a request stalls for less than a window, an hour is
not 0, no project has the empty name, and no request is two lines of the batch.

`AlgorithmsProofs` proves, for any bounds on the objects and any characters in their strings,
any wrappings, any number of pieces of evidence and locations, any fields and any number of
posts, six of the seven invariants of the run `algorithms`. Its `IInv` says what an input can
have become, one shape for each kind:

- `AnswerShape`: an answer is the object, whole or with one comma and a space before a closer,
  or a beginning of the whole object, between the two texts of a wrapping (`Sent`).
- `EventShape`: a payload has the fields of its origin, each once, with the values of the
  origin up to their dynamic parts (`Resembles`); their order is left open, which is what
  `RepeatsMatch` is about.
- `CardShape`: an accepted post is the last one, and then `Notify` has returned (`Posted`).
- `DiagnosisShape`: one of `Diagnoses`.

For an event the rest is what `Picked` computes, and how the texts of the fields follow one
another: fields that read alike have one text (`AlikeIsSame`), and where no string has a bar
each field is one piece, from which its name and text can be read back (`SameIsAlike`). That
normalisation makes repetitions equal needs that all they differ in is in strings, in long
numbers, or in numbers that are not hashed (`NormalizedAlike`); `OneErrorOneFingerprint` has the
last as its hypothesis. For a card the rest is what `Posting` computes. For a score it is
arithmetic: a report that reaches the limit of reuse is supported if the limit is not below
the default (engine.go:73-75); below it the property is not promised, and `ReuseIsFounded`
has that as its hypothesis.

For an answer the question is what four scans, written to read anything at all, do to the
text of an object. `RepairProofs` compares them with a machine that reads JSON only. Its
`States` have the closers to come, the depth and whether the place is in a string or after a
backslash; `Reads` is what a token does to a state, and nothing for a closer after a comma or
of the wrong kind. The argument:

1. Every object of the grammar is read by the machine from nothing to nothing, and its depth
   is 0 at its end only (`ObjectsFollowed`, from the same for each kind of text).
2. Where the machine reads, `Scan`, `Open`, `Depth` and `Commas` agree with its state, so that
   the repairs change nothing in a beginning of an object but close it.
3. What closes a beginning is determined by the state that the machine is in, so that it has
   at most one completion, and `BalanceBrackets` finds it (`OneCompletion`).
4. A comma and white space before a closer stretch the course of the machine by as many
   states (`Stretches`), and `FixTrailingComma` takes the comma away.
5. The search for a block or for the first object finds what is between the texts of a
   wrapping, cut or not (`Parts`).

These are inductions over the text. The library's induction theorems have a parameter that
is an operator; `RepairProofs` does without, by the least element of a set of numbers
(`Smallest`, `Induction`), and shows with it once that a recursive definition over `0 .. n`
has a function that satisfies it (`Recursion`).

The assumptions are `RepairAssumption` (a string contains any tokens but a bare quote or
backslash and the fence with a language), `AlgorithmsAssumption` (what the wrappings are),
`FingerprintAssumption` (no field is configured twice as a default field) and
`NotifierAssumption`.

Only model-checked:

- liveness (`EveryTaskEnds`, the fairness part of `ImplementsTaskPool`, `EveryDiagnosisEnds`,
  `RowsSettle`, `ShutdownEnds`, `ExecuteReturns`), which is beyond the prover;
- `NothingInvented`: an answer with a fence in a string is taken to end there, or was loosened
  and then cut, so that what the repairs yield need not be a beginning of the object. That
  whatever of it the grammar accepts is one, closed, needs the other direction of step 1, that
  what is no beginning of an object is refused, which is not proved;
- the disagreements below, which are counterexamples.

## Disagreements found

`PROJECT.json` has them with the quoted lines; each has a run:

- `intake_sweep`: the sweep looks at an entry and then deletes by key; an entry renewed in
  between is lost, and a second event passes in the same window.
- `diagnosis_check`: the safety check that must run after a timeout does not run then.
- `pipeline_retry`, `pipeline_stuck`: the check for active tasks reads rows that lag behind
  the scheduler, and rows that a panic or a crash left behind.

Two more, without a run, are the premise of a property that passes:

- `NoOvertaking`: DESIGN.md:1113 orders equal priorities by `occurred_at`, what happened first
  being handled first. `taskHeap.Less` orders by `CreatedAt`, the time of the `Submit`
  (task.go:49, scheduler.go:102), and a `Task` has no `occurred_at`; only the card shows it
  (intake/types.go:149). An incident that is reported late, or is retried by an administrator, or
  whose HTTP goroutine comes to `Submit` after another, is diagnosed after younger ones.
- `RepeatsMatch`: DIAGNOSIS_PIPELINE.md:83-87 has time stamps and long numbers in the payload
  replaced by placeholders. `normalizeMap` and `normalizeSlice` replace in JSON strings only
  (fingerprint.go:157-181): an error with a numeric time or id that is hashed, as a configured
  field or with the whole payload, has a new fingerprint each time. The property excepts it.

Seen on the way, without a run: the hashed text of a fingerprint has neither kinds nor escapes
and its numbers are float64 (handler.go:677, 819-822, 856-872), so that different events can
count as one; DIAGNOSIS_PIPELINE.md:235 has the Amp process killed at the
timeout, but a process that amp started and that keeps its stdout holds `Execute`, with its
worker and the lock of its project, as long as it likes (client.go:115); an amp process that ends well without a
result gives an empty answer and no error (client.go:185); an event refused for rate or for a full queue keeps its
dedup entry (handler.go:550), so the retries of its sender are duplicates of an event that
was never accepted; the default fields of a fingerprint are hashed in the order in which the
event has them (handler.go:731), so the same error with its fields in another order is not a
duplicate; a `MaxPossible` of 70 (DIAGNOSIS_PIPELINE.md:380) does not occur; a flush of the
loop that meets `Close` can leave the older tables in the file, and a crash right after the
truncation leaves an empty file that the next start takes for a new store (json.go:65);
DIAGNOSIS_PIPELINE.md:263 speaks of `git reset --hard`,
`ResetChanges` uses `checkout -- .` and `clean -fd`, which leaves staged changes to the
next `Prepare`; an unknown commit hash matches every commit also for critical events
(fingerprint.go:82); the cap of dedup entries has no effect (handler.go:624).

## Plan

Done: `TaskPool`, `Scheduler` and `SchedulerProofs` first, because everything else rests on
them; then `Intake` with its three endpoints, `Diagnosis`, `Pipeline` with the shutdown,
`JsonStore` with its proofs, the pure functions, `SkillEnv` and `AmpClient`. Then the
proofs of `Diagnosis`, `Pipeline`, `AmpClient` and `Intake`, each from an inductive
invariant, and those about the score; then `Pipeline` as a client of `TaskPool` (`UsesPool`),
and the proofs about fingerprints, the posts of a card and the repair of an answer. Left:

1. `NothingInvented` for every answer: that the machine of `RepairProofs` reads what the
   grammar accepts and nothing else.
2. Nested field paths in `Fingerprint`, and the patterns of the placeholders.

## Not modelled

The logger (its files are output that nothing reads back), the dashboard and the reading
half of the admin API, the configuration and the registry (read once), the prompt and the
layout of a card (text), the migration of the SQL schema, and the hash functions. The fixer
is there by its outcome only.
