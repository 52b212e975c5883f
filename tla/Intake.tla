------------------------------- MODULE Intake -------------------------------
(***************************************************************************)
(* The intake handler, intake/handler.go: validation, deduplication and    *)
(* rate limiting of reported events, and the cleanup goroutine that        *)
(* sweeps both tables.  Every HTTP request has a goroutine, concurrent     *)
(* with the others and with the sweep.  A request of /events or /incidents *)
(* reports one event; one of /events/batch reports one on every line, and  *)
(* its goroutine handles them one after another.                           *)
(*                                                                         *)
(* The dedup table is a sync.Map: one call on it is one step, and another  *)
(* goroutine can run between two calls.  The rate table is behind the      *)
(* mutex of its shard: one locked section is one step.  What onEvent does  *)
(* (main.go: store the event, submit it) is a parameter: it accepts or it  *)
(* fails.                                                                  *)
(*                                                                         *)
(* A definition named Slip... is the one below it as a plausible bug would *)
(* have it; the specification does not use it.                             *)
(***************************************************************************)
EXTENDS Integers, FiniteSets, Sequences

CONSTANTS
  Requests,       \* the handlings of one event, by a request or for a line
  Batch,          \* those that are the lines of one batch, in their order
  Projects,       \* the registered project keys
  Events,         \* what may be reported: [project, severity, size, json, payload]
  DedupWindow,    \* HandlerConfig.DedupWindow, as given
  ProjectWindow,  \* the window of a project with its own dedup fields, else 0
  RateLimit,      \* HandlerConfig.RateLimit, as given
  MinSeverity,    \* HandlerConfig.MinSeverity, as given
  MaxPayloadSize, \* HandlerConfig.MaxPayloadSize, as given
  ReadLimit,      \* what is read of a body, or of one line
  Hour,           \* the rate window, in ticks of the clock
  MaxStall,       \* bound: ticks a request may spend in the dedup check
  MaxTime         \* bound: the horizon of the clock

\* NewHandler replaces what the configuration leaves out (in ticks and sizes of
\* the model for 10 minutes and 65536 bytes).
DefaultWindow == IF DedupWindow = 0 THEN 10 ELSE DedupWindow
Limit == IF RateLimit = 0 THEN 10 ELSE RateLimit
LeastSeverity == IF MinSeverity = "" THEN "warning" ELSE MinSeverity
MaxSize == IF MaxPayloadSize = 0 THEN 65536 ELSE MaxPayloadSize

\* submitEvent: the window of the project if it has one.
Window(project) ==
  IF ProjectWindow[project] > 0 THEN ProjectWindow[project] ELSE DefaultWindow

ASSUME IntakeAssumption ==
  /\ DedupWindow \in Nat /\ RateLimit \in Nat /\ Hour \in Nat \ {0}
  /\ ProjectWindow \in [Projects -> Nat]
  /\ MaxStall \in Nat /\ MaxTime \in Nat
  /\ \A p \in Projects : MaxStall < Window(p)
  /\ "" \notin Projects
  /\ Events \subseteq [project : STRING, severity : STRING, size : Nat, json : BOOLEAN,
                       payload : STRING]
  /\ Batch \in Seq(Requests)
  /\ \A i, j \in DOMAIN Batch : Batch[i] = Batch[j] => i = j

VARIABLES
  pc,         \* where the handling of each request is
  event,      \* the reported event
  at,         \* the now of checkDedupWithWindow
  seen,       \* what LoadOrStore found there
  reply,      \* what the answer says of the event
  query,      \* the parameters of the batch's URL
  dedup,      \* the dedup table: an entry for each key, or NoEntry
  rate,       \* the rate table: an entry for each project, or NoRate
  sweep,      \* the cleanup goroutine: where it is, its now, what it has left
  clock,
  \* History, read by the properties only.
  passedAt,   \* when the request passed the dedup check
  ratedAt,    \* when it passed the rate limit
  refusedAt,  \* when it was turned away as a duplicate or for its rate
  sweptLive,  \* the keys whose entry the sweep deleted inside its window
  casLost     \* the requests whose CompareAndSwap met a deleted entry

requestVars == <<pc, event, at, seen, reply, query>>
history == <<passedAt, ratedAt, refusedAt, sweptLive, casLost>>
vars == <<requestVars, dedup, rate, sweep, clock, history>>

-----------------------------------------------------------------------------
Never == -1
NoEvent == [project |-> "", severity |-> "", size |-> 0, json |-> TRUE, payload |-> ""]
NoQuery == [project |-> "", severity |-> ""]
NoEntry == [at |-> Never, window |-> 0]
NoRate == [count |-> 0, windowAt |-> Never]

\* ComputeFingerprint: the project key and a hash of the payload's dedup fields.
Keys == {<<p, e.payload>> : p \in Projects, e \in Events}
Key(r) == <<event[r].project, event[r].payload>>
RequestWindow(r) == Window(event[r].project)

ValidSeverities == {"critical", "warning", "info"}
SeverityPriority(severity) ==
  CASE severity = "critical" -> 100
    [] severity = "info"     -> 10
    [] OTHER                 -> 50

\* fillDefaults, as far as anything depends on it.
WithDefaults(e) ==
  IF e.severity = "" THEN [e EXCEPT !.severity = "warning"] ELSE e

Init ==
  /\ pc = [r \in Requests |-> "new"]
  /\ event = [r \in Requests |-> NoEvent]
  /\ at = [r \in Requests |-> Never]
  /\ seen = [r \in Requests |-> NoEntry]
  /\ reply = [r \in Requests |-> ""]
  /\ query = NoQuery
  /\ dedup = [k \in Keys |-> NoEntry]
  /\ rate = [p \in Projects |-> NoRate]
  /\ sweep = [pc |-> "idle", now |-> 0, keys |-> {}, projects |-> {}, key |-> <<>>]
  /\ clock = 0
  /\ passedAt = [r \in Requests |-> Never]
  /\ ratedAt = [r \in Requests |-> Never]
  /\ refusedAt = [r \in Requests |-> Never]
  /\ sweptLive = {}
  /\ casLost = {}

-----------------------------------------------------------------------------
(* Handling an event: the endpoints *)

Goto(r, place) == pc' = [pc EXCEPT ![r] = place]

Answer(r, status) ==
  /\ Goto(r, "done")
  /\ reply' = [reply EXCEPT ![r] = status]

\* The locals of checkDedupWithWindow go out of scope.
EndDedupCheck(r) ==
  /\ at' = [at EXCEPT ![r] = Never]
  /\ seen' = [seen EXCEPT ![r] = NoEntry]

Refuse(r, status) ==
  /\ Answer(r, status)
  /\ refusedAt' = [refusedAt EXCEPT ![r] = clock]

\* The checks of processEvent and processLegacyEvent that come before submitEvent,
\* in their order; "" when none of them answers.
Screen(e) ==
  CASE e.project = ""                     -> "bad_request"
    [] e.severity \notin ValidSeverities  -> "bad_request"
    [] MaxSize > 0 /\ e.size > MaxSize    -> "too_large"
    [] e.project \notin Projects          -> "bad_request"
    [] SeverityPriority(e.severity) < SeverityPriority(LeastSeverity) -> "filtered"
    [] OTHER                              -> ""

\* Those of ServeBatch for a line: the project is looked up last.
LineScreen(e) ==
  CASE ~e.json                            -> "bad_request"
    [] MaxSize > 0 /\ e.size > MaxSize    -> "too_large"
    [] e.severity \notin ValidSeverities  -> "bad_request"
    [] SeverityPriority(e.severity) < SeverityPriority(LeastSeverity) -> "filtered"
    [] e.project \notin Projects          -> "bad_request"
    [] OTHER                              -> ""

\* ServeHTTP, which takes an event with its project in the URL or in the body, and
\* ServeIncidentCompat, whose payload is the body with the project in it.
BodyScreen(via, e) ==
  CASE e.size > ReadLimit                               -> "too_large"
    [] via \in {"standard", "incident"} /\ ~e.json      -> "bad_request"
    [] via = "standard" /\ e.size = 0                   -> "bad_request"
    [] OTHER                                            -> Screen(e)

BatchLines == {Batch[i] : i \in DOMAIN Batch}
LinesFrom(i) == {Batch[j] : j \in i .. Len(Batch)}
IsNext(i) ==
  /\ query # NoQuery /\ pc[Batch[i]] = "new"
  /\ \A j \in 1 .. i - 1 : pc[Batch[j]] = "done"

\* What r may report, and how.
Reports(r, via, e) ==
  IF r \notin BatchLines
  THEN via # "line" /\ (via = "simple" => e.project # "")
  ELSE /\ via = "line" /\ e.size <= ReadLimit
       /\ e.project = query.project /\ e.severity = query.severity
       /\ \E i \in DOMAIN Batch : Batch[i] = r /\ IsNext(i)

\* An endpoint up to the first call on the dedup table: now is read, the entry to
\* store is made.
Receive(r, via, reported) ==
  LET e == WithDefaults(reported)
      screened == IF via = "line" THEN LineScreen(e) ELSE BodyScreen(via, e)
  IN
  /\ pc[r] = "new" /\ Reports(r, via, reported)
  /\ IF screened = ""
     THEN /\ event' = [event EXCEPT ![r] = e]
          /\ at' = [at EXCEPT ![r] = clock]
          /\ Goto(r, "load")
          /\ UNCHANGED reply
     ELSE /\ Answer(r, screened)
          /\ UNCHANGED <<event, at>>
  /\ UNCHANGED <<seen, query, dedup, rate, sweep, clock, history>>

EndLines(lines, status) ==
  /\ pc' = [r \in Requests |-> IF r \in lines THEN "done" ELSE pc[r]]
  /\ reply' = [r \in Requests |-> IF r \in lines THEN status ELSE reply[r]]

\* ServeBatch takes the project and the severity of every line from its URL.
BatchBegins(e) ==
  /\ query = NoQuery /\ Batch # <<>> /\ pc[Batch[1]] = "new"
  /\ IF e.project = ""
     THEN EndLines(BatchLines, "bad_request") /\ UNCHANGED query
     ELSE /\ query' = [project |-> e.project, severity |-> e.severity]
          /\ UNCHANGED <<pc, reply>>
  /\ UNCHANGED <<event, at, seen, dedup, rate, sweep, clock, history>>

\* The scanner fails: the line is longer than ReadLimit, the body longer than what
\* a batch may have, or the connection is gone (what came of a line is handled
\* first, as one that is no JSON).  What is queued stays queued.
BatchBreaksOff ==
  /\ \E i \in DOMAIN Batch : IsNext(i) /\ EndLines(LinesFrom(i), "unread")
  /\ UNCHANGED <<event, at, seen, query, dedup, rate, sweep, clock, history>>

-----------------------------------------------------------------------------
(* submitEvent *)

NewEntry(r) == [at |-> at[r], window |-> RequestWindow(r)]

PassDedup(r) ==
  /\ dedup' = [dedup EXCEPT ![Key(r)] = NewEntry(r)]
  /\ passedAt' = [passedAt EXCEPT ![r] = clock]
  /\ Goto(r, "rate")
  /\ EndDedupCheck(r)

\* LoadOrStore: the first of its key passes, any other looks at what is there.
LoadOrStore(r) ==
  /\ pc[r] = "load"
  /\ IF dedup[Key(r)] = NoEntry
     THEN PassDedup(r)
     ELSE /\ seen' = [seen EXCEPT ![r] = dedup[Key(r)]]
          /\ Goto(r, "age")
          /\ UNCHANGED <<at, dedup, passedAt>>
  /\ UNCHANGED <<event, reply, query, rate, sweep, clock, ratedAt, refusedAt, sweptLive, casLost>>

\* Slip: an entry of exactly the window's age still counts.
SlipExpired(r) == clock - seen[r].at > RequestWindow(r)

\* time.Since(prev.at) >= window, by the window of this request.
Expired(r) == clock - seen[r].at >= RequestWindow(r)

CheckAge(r) ==
  /\ pc[r] = "age"
  /\ IF Expired(r)
     THEN Goto(r, "cas") /\ UNCHANGED <<at, seen, reply, refusedAt>>
     ELSE Refuse(r, "deduplicated") /\ EndDedupCheck(r)
  /\ UNCHANGED <<event, query, dedup, rate, sweep, clock, passedAt, ratedAt, sweptLive,
                 casLost>>

\* Slip: Store instead of CompareAndSwap, so every request that saw the entry
\* expire wins.
SlipStore(r) ==
  /\ pc[r] = "cas"
  /\ PassDedup(r)
  /\ UNCHANGED <<event, reply, query, rate, sweep, clock, ratedAt, refusedAt, sweptLive, casLost>>

\* The entry is replaced if it is still the one seen: one request wins.
CompareAndSwap(r) ==
  /\ pc[r] = "cas"
  /\ IF dedup[Key(r)] = seen[r]
     THEN PassDedup(r) /\ UNCHANGED <<reply, refusedAt, casLost>>
     ELSE /\ Refuse(r, "deduplicated")
          /\ EndDedupCheck(r)
          /\ casLost' = IF dedup[Key(r)] = NoEntry THEN casLost \cup {r} ELSE casLost
          /\ UNCHANGED <<dedup, passedAt>>
  /\ UNCHANGED <<event, query, rate, sweep, clock, ratedAt, sweptLive>>

RateOf(r) == rate[event[r].project]

\* No entry, or one whose hour is over: a new window starts now.
WindowOver(r) == RateOf(r) = NoRate \/ clock - RateOf(r).windowAt >= Hour

\* Slip: one more than the limit.
SlipRefused(r) == RateOf(r).count > Limit

Refused(r) == RateOf(r).count >= Limit

\* checkRateLimit, under the lock of the project's shard.
CheckRateLimit(r) ==
  LET p == event[r].project IN
  /\ pc[r] = "rate"
  /\ \/ /\ WindowOver(r)
        /\ rate' = [rate EXCEPT ![p] = [count |-> 1, windowAt |-> clock]]
        /\ ratedAt' = [ratedAt EXCEPT ![r] = clock]
        /\ Goto(r, "submit")
        /\ UNCHANGED <<reply, refusedAt>>
     \/ /\ ~WindowOver(r)
        /\ ~Refused(r)
        /\ rate' = [rate EXCEPT ![p].count = @ + 1]
        /\ ratedAt' = [ratedAt EXCEPT ![r] = clock]
        /\ Goto(r, "submit")
        /\ UNCHANGED <<reply, refusedAt>>
     \/ /\ ~WindowOver(r)
        /\ Refused(r)
        /\ Refuse(r, "rate_limited")
        /\ UNCHANGED <<rate, ratedAt>>
  /\ UNCHANGED <<event, at, seen, query, dedup, sweep, clock, passedAt, sweptLive, casLost>>

\* onEvent: the event is queued, or the scheduler is full or stopped.  In neither
\* case are the dedup entry and the rate slot touched again.
OnEvent(r) ==
  /\ pc[r] = "submit"
  /\ \E status \in {"queued", "unavailable"} : Answer(r, status)
  /\ UNCHANGED <<event, at, seen, query, dedup, rate, sweep, clock, history>>

-----------------------------------------------------------------------------
(* cleanupLoop *)

SweepBegins ==
  /\ sweep.pc = "idle"
  /\ sweep' = [sweep EXCEPT !.pc = "range", !.now = clock,
                            !.keys = Keys, !.projects = Projects]
  /\ UNCHANGED <<requestVars, dedup, rate, clock, history>>

EntryExpired(entry, now) == entry # NoEntry /\ now - entry.at >= entry.window

\* Range hands over the next key and the entry it has now.
SweepVisits(k) ==
  /\ sweep.pc = "range"
  /\ k \in sweep.keys
  /\ sweep' = IF EntryExpired(dedup[k], sweep.now)
              THEN [sweep EXCEPT !.keys = @ \ {k}, !.pc = "delete", !.key = k]
              ELSE [sweep EXCEPT !.keys = @ \ {k}]
  /\ UNCHANGED <<requestVars, dedup, rate, clock, history>>

\* Delete removes whatever the key has by now.
SweepDeletes ==
  /\ sweep.pc = "delete"
  /\ dedup' = [dedup EXCEPT ![sweep.key] = NoEntry]
  /\ sweptLive' = IF EntryExpired(dedup[sweep.key], clock)
                  THEN sweptLive ELSE sweptLive \cup {sweep.key}
  /\ sweep' = [sweep EXCEPT !.pc = "range", !.key = <<>>]
  /\ UNCHANGED <<requestVars, rate, clock, passedAt, ratedAt, refusedAt, casLost>>

\* Slip: the rate table loses its entries half way through their hour.
SlipRateEntryOld(entry, now) == entry # NoRate /\ 2 * (now - entry.windowAt) >= Hour

\* The hour of the entry is over.
RateEntryOld(entry, now) == entry # NoRate /\ now - entry.windowAt >= Hour

\* The entry of one project, under the lock of its shard.
SweepRate(p) ==
  /\ sweep.pc = "range"
  /\ sweep.keys = {}
  /\ p \in sweep.projects
  /\ rate' = IF RateEntryOld(rate[p], sweep.now) THEN [rate EXCEPT ![p] = NoRate] ELSE rate
  /\ sweep' = [sweep EXCEPT !.projects = @ \ {p}]
  /\ UNCHANGED <<requestVars, dedup, clock, history>>

SweepEnds ==
  /\ sweep.pc = "range"
  /\ sweep.keys = {} /\ sweep.projects = {}
  /\ sweep' = [sweep EXCEPT !.pc = "idle", !.now = 0]
  /\ UNCHANGED <<requestVars, dedup, rate, clock, history>>

\* StopCleanup, at the shutdown: the loop returns.
SweepStops ==
  /\ sweep.pc = "idle"
  /\ sweep' = [sweep EXCEPT !.pc = "stopped"]
  /\ UNCHANGED <<requestVars, dedup, rate, clock, history>>

-----------------------------------------------------------------------------
\* Time passes.  A request does not spend more than MaxStall ticks between
\* reading now and the end of the dedup check; the sweep may take any time.
Tick ==
  /\ clock < MaxTime
  /\ \A r \in Requests : pc[r] \in {"load", "age", "cas"} => clock - at[r] < MaxStall
  /\ clock' = clock + 1
  /\ UNCHANGED <<requestVars, dedup, rate, sweep, history>>

Handle(r) ==
  \/ \E via \in {"standard", "simple", "incident", "line"}, e \in Events :
       Receive(r, via, e)
  \/ LoadOrStore(r)
  \/ CheckAge(r)
  \/ CompareAndSwap(r)
  \/ CheckRateLimit(r)
  \/ OnEvent(r)

Sweep ==
  \/ SweepBegins
  \/ \E k \in Keys : SweepVisits(k)
  \/ SweepDeletes
  \/ \E p \in Projects : SweepRate(p)
  \/ SweepEnds
  \/ SweepStops

Next ==
  \/ \E r \in Requests : Handle(r)
  \/ \E e \in Events : BatchBegins(e)
  \/ BatchBreaksOff
  \/ Sweep
  \/ Tick

Spec == Init /\ [][Next]_vars

-----------------------------------------------------------------------------
(* Properties *)

Times == {Never} \cup 0..MaxTime
EntryOK(entry) ==
  \/ entry = NoEntry
  \/ entry.at \in 0..clock /\ entry.window \in Nat \ {0}

TypeOK ==
  /\ pc \in [Requests -> {"new", "load", "age", "cas", "rate", "submit", "done"}]
  /\ \A r \in Requests : event[r] \in {NoEvent} \cup {WithDefaults(e) : e \in Events}
  /\ \A r \in Requests : pc[r] \in {"age", "cas"} => seen[r] # NoEntry /\ EntryOK(seen[r])
  /\ reply \in [Requests -> {"", "bad_request", "too_large", "filtered", "deduplicated",
                             "rate_limited", "unavailable", "queued", "unread"}]
  /\ query # NoQuery => query.project # ""
  /\ DOMAIN dedup = Keys /\ \A k \in Keys : EntryOK(dedup[k])
  /\ \A p \in Projects :
       \/ rate[p] = NoRate
       \/ rate[p].count \in 1..Limit /\ rate[p].windowAt \in 0..clock
  /\ sweep.pc \in {"idle", "range", "delete", "stopped"} /\ sweep.now \in 0..clock
  /\ sweep.keys \subseteq Keys /\ sweep.projects \subseteq Projects
  /\ at \in [Requests -> Times] /\ passedAt \in [Requests -> Times]
  /\ ratedAt \in [Requests -> Times] /\ refusedAt \in [Requests -> Times]
  /\ clock \in 0..MaxTime

Passed(r) == passedAt[r] # Never
Apart(s, t) == IF s < t THEN t - s ELSE s - t

\* What DESIGN.md promises of deduplication: of the events with one fingerprint,
\* one is let through per window (less the ticks a request may stall).
OncePerWindow ==
  \A r, s \in Requests :
    r # s /\ Passed(r) /\ Passed(s) /\ Key(r) = Key(s) =>
      Apart(passedAt[r], passedAt[s]) >= RequestWindow(r) - MaxStall

\* What the code keeps of it.  However many requests meet on a key, two pass
\* inside a window only if the sweep deleted an entry it had seen expired and
\* that a request had renewed before the Delete.
OncePerWindowUnlessSwept ==
  \A r, s \in Requests :
    r # s /\ Passed(r) /\ Passed(s) /\ Key(r) = Key(s) /\ Key(r) \notin sweptLive =>
      Apart(passedAt[r], passedAt[s]) >= RequestWindow(r) - MaxStall

\* Nobody is turned away as a duplicate of nothing: another event of the same
\* fingerprint passed the check less than a window before the answer, except
\* when the expired entry was swept away under the request's CompareAndSwap.
DuplicateHasOriginal ==
  \A r \in Requests :
    reply[r] = "deduplicated" /\ r \notin casLost =>
      \E s \in Requests :
        /\ s # r /\ Passed(s) /\ Key(s) = Key(r)
        /\ refusedAt[r] - passedAt[s] < RequestWindow(r)

\* The events of project p that passed the rate limit in the hour before t.
RatedInHour(p, t) ==
  {r \in Requests : /\ ratedAt[r] # Never /\ event[r].project = p
                    /\ ratedAt[r] <= t /\ t - ratedAt[r] < Hour}

\* DESIGN.md promises at most Limit; the fixed windows of the code give fewer than
\* twice the limit in any hour, which meets at most two windows and not the event
\* that opened the first.  It needs the sweep to keep the windows that are not over.
UnderTwiceTheHourlyLimit ==
  \A p \in Projects, t \in 0..clock : Cardinality(RatedInHour(p, t)) < 2 * Limit
=============================================================================
