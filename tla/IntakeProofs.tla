----------------------------- MODULE IntakeProofs -----------------------------
(***************************************************************************)
(* Proofs about Intake, for any requests, batch, events, windows and       *)
(* limits: its types, that a fingerprint passes once in a window, that a   *)
(* duplicate has an original, and how many events an hour lets through.    *)
(***************************************************************************)
EXTENDS Intake, FiniteSetTheorems, TLAPS

Places == {"new", "load", "age", "cas", "rate", "submit", "done"}
InCheck == {"load", "age", "cas"}
Replies == {"", "bad_request", "too_large", "filtered", "deduplicated", "rate_limited",
            "unavailable", "queued", "unread"}
Moments == {Never} \cup Nat
Past == {Never} \cup 0 .. clock
Entries == [at : Moments, window : Nat]
Sweeps == [pc : {"idle", "range", "delete", "stopped"}, now : Nat, keys : SUBSET Keys,
           projects : SUBSET Projects, key : Keys \cup {<<>>}]

TypeCore ==
  /\ pc \in [Requests -> Places]
  /\ event \in [Requests -> {NoEvent} \cup {WithDefaults(e) : e \in Events}]
  /\ at \in [Requests -> Past]
  /\ seen \in [Requests -> Entries]
  /\ reply \in [Requests -> Replies]
  /\ query # NoQuery => query.project # ""
  /\ dedup \in [Keys -> Entries]
  /\ rate \in [Projects -> [count : Nat, windowAt : Moments]]
  /\ sweep \in Sweeps /\ sweep.now <= clock /\ (sweep.pc = "delete" => sweep.key \in Keys)
  /\ clock \in 0 .. MaxTime
  /\ passedAt \in [Requests -> Past] /\ ratedAt \in [Requests -> Past]
  /\ refusedAt \in [Requests -> Past]

\* Where a request is tells what it has done, and how long its check can have taken.
RequestInv(r) ==
  /\ pc[r] \in {"load", "age", "cas", "rate", "submit"} =>
       event[r].project \in Projects /\ Key(r) \in Keys
  /\ pc[r] \in {"new", "load", "age", "cas"} => ~Passed(r)
  /\ pc[r] \in {"new", "load", "age", "cas", "rate"} => ratedAt[r] = Never
  /\ pc[r] \in InCheck => at[r] # Never /\ clock <= at[r] + MaxStall
  /\ pc[r] \in {"age", "cas"} => /\ seen[r].at \in 0 .. clock
                                 /\ seen[r].window = RequestWindow(r)
  /\ pc[r] = "cas" => clock - seen[r].at >= RequestWindow(r)
  /\ reply[r] = "deduplicated" => pc[r] = "done"

\* What an entry, or the lack of one, says of those who passed with its key.
KeyInv(k) ==
  /\ dedup[k] = NoEntry \/ (dedup[k].at \in 0 .. clock /\ dedup[k].window = Window(k[1]))
  /\ k \notin sweptLive =>
       \A s \in Requests : Passed(s) /\ Key(s) = k =>
         IF dedup[k] = NoEntry THEN passedAt[s] + Window(k[1]) <= clock + MaxStall
                               ELSE passedAt[s] <= dedup[k].at + MaxStall

\* Somebody with the key passed at that moment or later.
Original(k, since) == \E s \in Requests : Passed(s) /\ Key(s) = k /\ passedAt[s] >= since
TableInv(k) == dedup[k] # NoEntry => Original(k, dedup[k].at)
SeenInv(r) ==
  pc[r] \in {"age", "cas"} =>
    /\ Original(Key(r), seen[r].at)
    /\ dedup[Key(r)] \in {NoEntry, seen[r]} \/ Original(Key(r), at[r])
OriginInv == (\A k \in Keys : TableInv(k)) /\ (\A r \in Requests : SeenInv(r))

\* The windows of a project: w[r] is the start of the one in which r was counted.
Rated(p) == {r \in Requests : ratedAt[r] # Never /\ event[r].project = p}
CountedIn(p, w, start) == {r \in Rated(p) : w[r] = start}
Full(p, w, start, n) == /\ IsFiniteSet(CountedIn(p, w, start))
                        /\ Cardinality(CountedIn(p, w, start)) = n /\ n <= Limit
                        /\ \E r \in CountedIn(p, w, start) : ratedAt[r] = start
Windows(p, w) ==
  /\ \A r \in Rated(p) : /\ w[r] <= ratedAt[r] /\ ratedAt[r] < w[r] + Hour
                         /\ \E n \in Nat : Full(p, w, w[r], n)
  /\ \A r, s \in Rated(p) : w[r] < w[s] => w[r] + Hour <= w[s]
  /\ IF rate[p] = NoRate THEN \A r \in Rated(p) : w[r] + Hour <= clock
     ELSE /\ rate[p].count \in 1 .. Limit /\ rate[p].windowAt \in 0 .. clock
          /\ Full(p, w, rate[p].windowAt, rate[p].count)
          /\ \A r \in Rated(p) : w[r] = rate[p].windowAt \/ w[r] + Hour <= rate[p].windowAt
RateInv(p) == \E w \in [Requests -> Nat] : Windows(p, w)

IInv ==
  /\ TypeCore
  /\ \A r \in Requests : RequestInv(r)
  /\ \A k \in Keys : KeyInv(k)
  /\ OncePerWindowUnlessSwept
  /\ OriginInv
  /\ DuplicateHasOriginal
  /\ \A p \in Projects : RateInv(p)

-----------------------------------------------------------------------------
(* Constants *)

LEMMA Positive ==
  /\ Limit \in Nat \ {0} /\ Hour \in Nat \ {0} /\ MaxStall \in Nat /\ MaxTime \in Nat
  /\ \A p \in Projects : Window(p) \in Nat \ {0} /\ MaxStall < Window(p)
<1>1. /\ DedupWindow \in Nat /\ RateLimit \in Nat /\ Hour \in Nat \ {0}
      /\ ProjectWindow \in [Projects -> Nat] /\ MaxStall \in Nat /\ MaxTime \in Nat
      /\ \A p \in Projects : MaxStall < Window(p)
  BY IntakeAssumption DEF IntakeAssumption
<1>2. Limit \in Nat \ {0}
  BY <1>1 DEF Limit
<1>3. \A p \in Projects : Window(p) \in Nat \ {0}
  BY <1>1 DEF Window, DefaultWindow
<1> QED
  BY <1>1, <1>2, <1>3

\* fillDefaults changes the severity at most.
LEMMA DefaultsKeep ==
  ASSUME NEW e \in Events
  PROVE  WithDefaults(e).project = e.project /\ WithDefaults(e).payload = e.payload
BY IntakeAssumption DEF IntakeAssumption, WithDefaults

\* The checks of the handler let an event through only with a registered project.
LEMMA ScreenedOut ==
  ASSUME NEW via, NEW e
  PROVE  LET screened == IF via = "line" THEN LineScreen(e) ELSE BodyScreen(via, e)
         IN  /\ screened \in {"", "bad_request", "too_large", "filtered"}
             /\ screened = "" => e.project \in Projects
<1>1. /\ LineScreen(e) \in {"", "bad_request", "too_large", "filtered"}
      /\ LineScreen(e) = "" => e.project \in Projects
  BY DEF LineScreen
<1>2. /\ Screen(e) \in {"", "bad_request", "too_large", "filtered"}
      /\ Screen(e) = "" => e.project \in Projects
  BY DEF Screen
<1>3. BodyScreen(via, e) \in {"too_large", "bad_request", Screen(e)}
  BY DEF BodyScreen
<1> QED
  BY <1>1, <1>2, <1>3

-----------------------------------------------------------------------------
(* Steps of the endpoints *)

\* Events are answered, none of them as a duplicate.
Ends ==
  /\ pc' \in [Requests -> Places] /\ reply' \in [Requests -> Replies]
  /\ \A r \in Requests : \/ pc'[r] = pc[r] /\ reply'[r] = reply[r]
                         \/ pc'[r] = "done" /\ reply'[r] # "deduplicated"
  /\ query' # NoQuery => query'.project # ""
  /\ UNCHANGED <<event, at, seen, dedup, rate, sweep, clock, history>>

\* An event goes on to the dedup check.
Accepts(r) ==
  /\ pc[r] = "new" /\ pc' = [pc EXCEPT ![r] = "load"]
  /\ event' \in [Requests -> {NoEvent} \cup {WithDefaults(e) : e \in Events}]
  /\ event' = [event EXCEPT ![r] = event'[r]]
  /\ event'[r].project \in Projects /\ Key(r)' \in Keys
  /\ at' = [at EXCEPT ![r] = clock]
  /\ UNCHANGED <<seen, reply, query, dedup, rate, sweep, clock, history>>

LEMMA ReceiveEffect ==
  ASSUME TypeCore, NEW r \in Requests, NEW via, NEW e \in Events, Receive(r, via, e)
  PROVE  Ends \/ Accepts(r)
<1> DEFINE d == WithDefaults(e)
           screened == IF via = "line" THEN LineScreen(d) ELSE BodyScreen(via, d)
<1>1. /\ screened \in {"", "bad_request", "too_large", "filtered"}
      /\ screened = "" => d.project \in Projects
  BY ScreenedOut
<1>2. /\ pc[r] = "new"
      /\ IF screened = ""
         THEN /\ event' = [event EXCEPT ![r] = d]
              /\ at' = [at EXCEPT ![r] = clock]
              /\ Goto(r, "load")
              /\ UNCHANGED reply
         ELSE /\ Answer(r, screened)
              /\ UNCHANGED <<event, at>>
      /\ UNCHANGED <<seen, query, dedup, rate, sweep, clock, history>>
  BY DEF Receive
<1>3. d \in {NoEvent} \cup {WithDefaults(f) : f \in Events}
  OBVIOUS
<1>4. d.payload = e.payload
  BY DefaultsKeep
<1> HIDE DEF d, screened
<1>5. CASE screened = ""
  <2>1. event' \in [Requests -> {NoEvent} \cup {WithDefaults(f) : f \in Events}]
    BY <1>2, <1>3, <1>5 DEF TypeCore
  <2>2. event'[r] = d /\ event' = [event EXCEPT ![r] = event'[r]]
    BY <1>2, <1>5 DEF TypeCore
  <2>3. Key(r)' \in Keys
    <3>1. Key(r)' = <<d.project, e.payload>>
      BY <1>4, <2>2 DEF Key
    <3>2. d.project \in Projects
      BY <1>1, <1>5
    <3>3. <<d.project, e.payload>> \in Keys
      BY <3>2 DEF Keys
    <3> QED
      BY <3>1, <3>3
  <2> QED
    BY <1>1, <1>2, <1>5, <2>1, <2>2, <2>3 DEF Accepts, Goto
<1>6. CASE screened # ""
  BY <1>1, <1>2, <1>6 DEF TypeCore, Ends, Answer, Goto, Places, Replies
<1> QED
  BY <1>5, <1>6

LEMMA LinesEnd ==
  ASSUME TypeCore, NEW some, NEW status \in Replies \ {"deduplicated"}, EndLines(some, status)
  PROVE  /\ pc' \in [Requests -> Places] /\ reply' \in [Requests -> Replies]
         /\ \A r \in Requests : \/ pc'[r] = pc[r] /\ reply'[r] = reply[r]
                                \/ pc'[r] = "done" /\ reply'[r] # "deduplicated"
<1>1. \A r \in Requests : /\ pc'[r] = IF r \in some THEN "done" ELSE pc[r]
                          /\ reply'[r] = IF r \in some THEN status ELSE reply[r]
  BY DEF EndLines
<1> QED
  BY <1>1 DEF TypeCore, Places, EndLines

LEMMA OtherEnds ==
  ASSUME TypeCore,
         \/ \E e \in Events : BatchBegins(e)
         \/ BatchBreaksOff
         \/ \E r \in Requests : OnEvent(r)
  PROVE  Ends
<1>1. ASSUME NEW e \in Events, BatchBegins(e) PROVE Ends
  <2>1. CASE e.project = ""
    BY <1>1, <2>1, LinesEnd DEF BatchBegins, Ends, Replies, TypeCore
  <2>2. CASE e.project # ""
    <3>1. query'.project # ""
      <4>1. query' = [project |-> e.project, severity |-> e.severity]
        BY <1>1, <2>2 DEF BatchBegins
      <4> QED
        BY <2>2, <4>1
    <3> QED
      BY <1>1, <2>2, <3>1 DEF BatchBegins, Ends, TypeCore
  <2> QED
    BY <2>1, <2>2
<1>2. CASE BatchBreaksOff
  BY <1>2, LinesEnd DEF BatchBreaksOff, Ends, Replies, TypeCore
<1>3. ASSUME NEW r \in Requests, OnEvent(r) PROVE Ends
  <2>1. PICK status \in {"queued", "unavailable"} : Answer(r, status)
    BY <1>3 DEF OnEvent
  <2> QED
    BY <1>3, <2>1 DEF OnEvent, Answer, Goto, Ends, TypeCore, Places, Replies
<1> QED
  BY <1>1, <1>2, <1>3

-----------------------------------------------------------------------------
(* Steps of submitEvent *)

\* An event passes the dedup check, and leaves its entry.
Passes(r) ==
  /\ \/ pc[r] = "load" /\ dedup[Key(r)] = NoEntry
     \/ pc[r] = "cas" /\ dedup[Key(r)] = seen[r]
  /\ pc' = [pc EXCEPT ![r] = "rate"]
  /\ at' = [at EXCEPT ![r] = Never] /\ seen' = [seen EXCEPT ![r] = NoEntry]
  /\ dedup' = [dedup EXCEPT ![Key(r)] = NewEntry(r)]
  /\ passedAt' = [passedAt EXCEPT ![r] = clock]
  /\ UNCHANGED <<event, reply, query, rate, sweep, clock, ratedAt, refusedAt, sweptLive, casLost>>

\* It finds an entry, ...
Finds(r) ==
  /\ pc[r] = "load" /\ dedup[Key(r)] # NoEntry
  /\ pc' = [pc EXCEPT ![r] = "age"]
  /\ seen' = [seen EXCEPT ![r] = dedup[Key(r)]]
  /\ UNCHANGED <<event, at, reply, query, dedup, rate, sweep, clock, history>>

\* ... which has expired, ...
Outlives(r) ==
  /\ pc[r] = "age" /\ Expired(r)
  /\ pc' = [pc EXCEPT ![r] = "cas"]
  /\ UNCHANGED <<event, at, seen, reply, query, dedup, rate, sweep, clock, history>>

\* ... or it is turned away for it.
IsDuplicate(r) ==
  /\ \/ pc[r] = "age" /\ ~Expired(r) /\ casLost' = casLost
     \/ /\ pc[r] = "cas" /\ dedup[Key(r)] # seen[r]
        /\ casLost' = IF dedup[Key(r)] = NoEntry THEN casLost \cup {r} ELSE casLost
  /\ pc' = [pc EXCEPT ![r] = "done"] /\ reply' = [reply EXCEPT ![r] = "deduplicated"]
  /\ at' = [at EXCEPT ![r] = Never] /\ seen' = [seen EXCEPT ![r] = NoEntry]
  /\ refusedAt' = [refusedAt EXCEPT ![r] = clock]
  /\ UNCHANGED <<event, query, dedup, rate, sweep, clock, passedAt, ratedAt, sweptLive>>

LEMMA CheckEffect ==
  ASSUME NEW r \in Requests, LoadOrStore(r) \/ CheckAge(r) \/ CompareAndSwap(r)
  PROVE  Passes(r) \/ Finds(r) \/ Outlives(r) \/ IsDuplicate(r)
<1> USE DEF PassDedup, EndDedupCheck, Refuse, Answer, Goto, history
<1>1. CASE LoadOrStore(r)
  BY <1>1 DEF LoadOrStore, Passes, Finds
<1>2. CASE CheckAge(r)
  BY <1>2 DEF CheckAge, Outlives, IsDuplicate
<1>3. CASE CompareAndSwap(r)
  BY <1>3 DEF CompareAndSwap, Passes, IsDuplicate
<1> QED
  BY <1>1, <1>2, <1>3

\* An event is counted, in a new window or in the one that is there, or it is turned away.
Counts(r, entry) ==
  /\ pc[r] = "rate" /\ pc' = [pc EXCEPT ![r] = "submit"]
  /\ rate' = [rate EXCEPT ![event[r].project] = entry]
  /\ ratedAt' = [ratedAt EXCEPT ![r] = clock]
  /\ UNCHANGED <<event, at, seen, reply, query, dedup, sweep, clock, passedAt, refusedAt, sweptLive,
                 casLost>>
Opens(r) == WindowOver(r) /\ Counts(r, [count |-> 1, windowAt |-> clock])
Joins(r) ==
  /\ ~WindowOver(r) /\ ~Refused(r)
  /\ Counts(r, [count |-> RateOf(r).count + 1, windowAt |-> RateOf(r).windowAt])
IsLimited(r) ==
  /\ pc[r] = "rate" /\ pc' = [pc EXCEPT ![r] = "done"]
  /\ reply' = [reply EXCEPT ![r] = "rate_limited"]
  /\ refusedAt' = [refusedAt EXCEPT ![r] = clock]
  /\ UNCHANGED <<event, at, seen, query, dedup, rate, sweep, clock, passedAt, ratedAt, sweptLive,
                 casLost>>

LEMMA RateEffect ==
  ASSUME TypeCore, NEW r \in Requests, RequestInv(r), CheckRateLimit(r)
  PROVE  Opens(r) \/ Joins(r) \/ IsLimited(r)
<1> DEFINE p == event[r].project
<1>0. pc[r] = "rate" /\ p \in Projects
  BY DEF CheckRateLimit, RequestInv
<1>1. /\ \/ /\ WindowOver(r)
            /\ rate' = [rate EXCEPT ![p] = [count |-> 1, windowAt |-> clock]]
            /\ ratedAt' = [ratedAt EXCEPT ![r] = clock]
            /\ Goto(r, "submit")
            /\ UNCHANGED <<reply, refusedAt>>
         \/ /\ ~WindowOver(r)
            /\ ~Refused(r)
            /\ rate' = [rate EXCEPT ![p].count = @ + 1]
            /\ ratedAt' = [ratedAt EXCEPT ![r] = clock]
            /\ Goto(r, "submit")
            /\ UNCHANGED <<reply, refusedAt>>
         \/ /\ ~WindowOver(r)
            /\ Refused(r)
            /\ Refuse(r, "rate_limited")
            /\ UNCHANGED <<rate, ratedAt>>
      /\ UNCHANGED <<event, at, seen, query, dedup, sweep, clock, passedAt, sweptLive, casLost>>
  BY DEF CheckRateLimit
<1>2. [rate[p] EXCEPT !.count = @ + 1] = [count |-> rate[p].count + 1, windowAt |-> rate[p].windowAt]
  <2>1. rate[p] \in [count : Nat, windowAt : Moments]
    BY <1>0 DEF TypeCore
  <2>2. \A q \in [count : Nat, windowAt : Moments] :
          [q EXCEPT !.count = @ + 1] = [count |-> q.count + 1, windowAt |-> q.windowAt]
    OBVIOUS
  <2> QED
    BY <2>1, <2>2
<1>3. CASE WindowOver(r)
  BY <1>0, <1>1, <1>3 DEF Opens, Counts, Goto
<1>4. CASE ~WindowOver(r) /\ ~Refused(r)
  <2>1. rate' = [rate EXCEPT ![p] = [count |-> rate[p].count + 1, windowAt |-> rate[p].windowAt]]
    BY <1>0, <1>1, <1>2, <1>4 DEF TypeCore
  <2> QED
    BY <1>0, <1>1, <1>4, <2>1 DEF Joins, Counts, Goto, RateOf
<1>5. CASE ~WindowOver(r) /\ Refused(r)
  BY <1>0, <1>1, <1>5 DEF IsLimited, Refuse, Answer, Goto
<1> QED
  BY <1>3, <1>4, <1>5

-----------------------------------------------------------------------------
(* Steps of the sweep *)

\* The sweep goes on without a change of the tables.
Looks ==
  /\ sweep' \in Sweeps /\ sweep'.now <= clock /\ (sweep'.pc = "delete" => sweep'.key \in Keys)
  /\ UNCHANGED <<requestVars, dedup, rate, clock, history>>

\* It deletes what the key that it chose has now, ...
Deletes(k) ==
  /\ dedup' = [dedup EXCEPT ![k] = NoEntry]
  /\ sweptLive' = IF EntryExpired(dedup[k], clock) THEN sweptLive ELSE sweptLive \cup {k}
  /\ sweep' \in Sweeps /\ sweep'.now <= clock /\ sweep'.pc = "range"
  /\ UNCHANGED <<requestVars, rate, clock, passedAt, ratedAt, refusedAt, casLost>>

\* ... or an entry of the rate table whose hour is over.
Forgets(p) ==
  /\ rate[p] # NoRate /\ sweep.now - rate[p].windowAt >= Hour
  /\ rate' = [rate EXCEPT ![p] = NoRate]
  /\ sweep' \in Sweeps /\ sweep'.now <= clock /\ (sweep'.pc = "delete" => sweep'.key \in Keys)
  /\ UNCHANGED <<requestVars, dedup, clock, history>>

LEMMA SweepEffect ==
  ASSUME TypeCore, Sweep
  PROVE  Looks \/ (\E k \in Keys : Deletes(k)) \/ \E p \in Projects : Forgets(p)
<1>0. clock \in Nat
  <2>1. clock \in 0 .. MaxTime
    BY DEF TypeCore
  <2> QED
    BY <2>1, Positive
<1> USE DEF TypeCore, Sweeps
<1>1. CASE SweepBegins
  <2>1. sweep' = [sweep EXCEPT !.pc = "range", !.now = clock, !.keys = Keys, !.projects = Projects]
    BY <1>1 DEF SweepBegins
  <2>2. sweep' \in Sweeps /\ sweep'.now = clock /\ sweep'.pc = "range"
    BY <1>0, <2>1
  <2>3. UNCHANGED <<requestVars, dedup, rate, clock, history>>
    BY <1>1 DEF SweepBegins
  <2> HIDE DEF TypeCore, Sweeps
  <2> QED
    BY <1>0, <2>2, <2>3 DEF Looks
<1>2. ASSUME NEW k \in Keys, SweepVisits(k) PROVE Looks
  <2>1. CASE EntryExpired(dedup[k], sweep.now)
    BY <1>2, <2>1 DEF SweepVisits, Looks
  <2>2. CASE ~EntryExpired(dedup[k], sweep.now)
    BY <1>2, <2>2 DEF SweepVisits, Looks
  <2> QED
    BY <2>1, <2>2
<1>3. CASE SweepDeletes
  <2>1. sweep.key \in Keys
    BY <1>3 DEF SweepDeletes
  <2>2. Deletes(sweep.key)
    BY <1>3, <2>1 DEF SweepDeletes, Deletes
  <2> QED
    BY <2>1, <2>2
<1>4. ASSUME NEW p \in Projects, SweepRate(p) PROVE Looks \/ Forgets(p)
  <2>1. CASE RateEntryOld(rate[p], sweep.now)
    BY <1>4, <2>1 DEF SweepRate, RateEntryOld, Forgets
  <2>2. CASE ~RateEntryOld(rate[p], sweep.now)
    BY <1>4, <2>2 DEF SweepRate, Looks
  <2> QED
    BY <2>1, <2>2
<1>5. CASE SweepEnds
  <2>1. sweep' = [sweep EXCEPT !.pc = "idle", !.now = 0]
    BY <1>5 DEF SweepEnds
  <2>2. sweep' \in Sweeps /\ sweep'.now = 0 /\ sweep'.pc = "idle"
    BY <2>1
  <2>3. UNCHANGED <<requestVars, dedup, rate, clock, history>>
    BY <1>5 DEF SweepEnds
  <2> HIDE DEF TypeCore, Sweeps
  <2> QED
    BY <1>0, <2>2, <2>3 DEF Looks
<1>6. CASE SweepStops
  BY <1>6 DEF SweepStops, Looks
<1> QED
  BY <1>1, <1>2, <1>3, <1>4, <1>5, <1>6 DEF Sweep

-----------------------------------------------------------------------------
(* Types *)

LEMMA NextEffect ==
  ASSUME TypeCore, \A r \in Requests : RequestInv(r), Next
  PROVE  \/ Ends
         \/ \E r \in Requests : \/ Accepts(r) \/ Passes(r) \/ Finds(r) \/ Outlives(r)
                                \/ IsDuplicate(r) \/ Opens(r) \/ Joins(r) \/ IsLimited(r)
         \/ Looks \/ (\E k \in Keys : Deletes(k)) \/ (\E p \in Projects : Forgets(p))
         \/ Tick
<1>1. ASSUME NEW r \in Requests, Handle(r)
      PROVE  \/ Ends \/ Accepts(r) \/ Passes(r) \/ Finds(r) \/ Outlives(r)
             \/ IsDuplicate(r) \/ Opens(r) \/ Joins(r) \/ IsLimited(r)
  BY <1>1, ReceiveEffect, CheckEffect, RateEffect, OtherEnds DEF Handle
<1> QED
  BY <1>1, OtherEnds, SweepEffect DEF Next

LEMMA StepType ==
  ASSUME IInv, [Next]_vars
  PROVE  TypeCore'
<1>0. TypeCore /\ (\A r \in Requests : RequestInv(r)) /\ clock \in Nat /\ MaxTime \in Nat
  <2>1. TypeCore /\ \A r \in Requests : RequestInv(r)
    BY DEF IInv
  <2>2. clock \in 0 .. MaxTime
    BY <2>1 DEF TypeCore
  <2> QED
    BY <2>1, <2>2, Positive
<1>a. /\ NoEntry \in Entries /\ clock \in Moments
      /\ clock \in Past /\ Never \in Past /\ Past \subseteq Moments
  BY <1>0 DEF NoEntry, Entries, Moments, Past
<1>b. clock' = clock => Past' = Past
  BY DEF Past
<1> USE DEF TypeCore
<1>1. CASE Ends
  BY <1>0, <1>b, <1>1 DEF Ends, history
<1>2. ASSUME NEW r \in Requests, Accepts(r) PROVE TypeCore'
  BY <1>0, <1>a, <1>b, <1>2 DEF Accepts, history, Places
<1>3. ASSUME NEW r \in Requests, Passes(r) PROVE TypeCore'
  <2>1. NewEntry(r) \in Entries
    <3>1. event[r].project \in Projects
      BY <1>0, <1>3 DEF Passes, RequestInv
    <3>2. RequestWindow(r) \in Nat
      BY <3>1, Positive DEF RequestWindow
    <3>3. at[r] \in Moments
      BY <1>0, <1>a
    <3> QED
      BY <3>2, <3>3 DEF NewEntry, Entries
  <2> QED
    BY <1>0, <1>a, <1>b, <1>3, <2>1 DEF Passes, Places
<1>4. ASSUME NEW r \in Requests, Finds(r) PROVE TypeCore'
  <2>1. dedup[Key(r)] \in Entries
    BY <1>0, <1>4 DEF Finds, RequestInv
  <2> QED
    BY <1>0, <1>b, <1>4, <2>1 DEF Finds, history, Places
<1>5. ASSUME NEW r \in Requests, Outlives(r) PROVE TypeCore'
  BY <1>0, <1>b, <1>5 DEF Outlives, history, Places
<1>6. ASSUME NEW r \in Requests, IsDuplicate(r) PROVE TypeCore'
  BY <1>0, <1>a, <1>b, <1>6 DEF IsDuplicate, Places, Replies
<1>7. ASSUME NEW r \in Requests, Opens(r) PROVE TypeCore'
  <2>1. [count |-> 1, windowAt |-> clock] \in [count : Nat, windowAt : Moments]
    BY <1>a
  <2> QED
    BY <1>0, <1>a, <1>b, <1>7, <2>1 DEF Opens, Counts, Places
<1>8. ASSUME NEW r \in Requests, Joins(r) PROVE TypeCore'
  <2>1. event[r].project \in Projects
    BY <1>0, <1>8 DEF Joins, Counts, RequestInv
  <2>2. [count |-> RateOf(r).count + 1, windowAt |-> RateOf(r).windowAt]
          \in [count : Nat, windowAt : Moments]
    <3>1. RateOf(r) \in [count : Nat, windowAt : Moments]
      BY <1>0, <2>1 DEF RateOf
    <3> QED
      BY <3>1
  <2> QED
    BY <1>0, <1>a, <1>b, <1>8, <2>2 DEF Joins, Counts, Places
<1>9. ASSUME NEW r \in Requests, IsLimited(r) PROVE TypeCore'
  BY <1>0, <1>a, <1>b, <1>9 DEF IsLimited, Places, Replies
<1>10. CASE Looks
  BY <1>0, <1>b, <1>10 DEF Looks, requestVars, history
<1>11. ASSUME NEW k \in Keys, Deletes(k) PROVE TypeCore'
  BY <1>0, <1>a, <1>b, <1>11 DEF Deletes, requestVars
<1>12. ASSUME NEW p \in Projects, Forgets(p) PROVE TypeCore'
  <2>1. NoRate \in [count : Nat, windowAt : Moments]
    BY DEF NoRate, Moments
  <2> QED
    BY <1>0, <1>b, <1>12, <2>1 DEF Forgets, requestVars, history
<1>13. CASE Tick
  <2>1. clock' = clock + 1 /\ clock < MaxTime
        /\ UNCHANGED <<requestVars, dedup, rate, sweep, history>>
    BY <1>13 DEF Tick
  <2> HIDE DEF TypeCore
  <2>2. clock' \in 0 .. MaxTime /\ clock <= clock'
    BY <1>0, <2>1
  <2>3. Past \subseteq Past'
    BY <1>0, <2>1 DEF Past
  <2>4. sweep.now \in Nat /\ sweep.now <= clock
    BY <1>0 DEF TypeCore, Sweeps
  <2>5. sweep'.now <= clock'
    BY <1>0, <2>1, <2>4
  <2> QED
    BY <1>0, <2>1, <2>2, <2>3, <2>5 DEF requestVars, history, TypeCore
<1>14. CASE UNCHANGED vars
  BY <1>0, <1>b, <1>14 DEF vars, requestVars, history
<1> QED
  BY <1>0, <1>1, <1>2, <1>3, <1>4, <1>5, <1>6, <1>7, <1>8, <1>9, <1>10, <1>11, <1>12, <1>13,
     <1>14, NextEffect

-----------------------------------------------------------------------------
(* Requests *)

LEMMA Numbers ==
  ASSUME TypeCore
  PROVE  /\ clock \in Nat
         /\ \A r \in Requests : /\ at[r] # Never => at[r] \in 0 .. clock
                                /\ passedAt[r] # Never => passedAt[r] \in 0 .. clock
                                /\ ratedAt[r] # Never => ratedAt[r] \in 0 .. clock
                                /\ refusedAt[r] # Never => refusedAt[r] \in 0 .. clock
<1>1. clock \in 0 .. MaxTime
  BY DEF TypeCore
<1>2. clock \in Nat
  BY <1>1, Positive
<1>3. \A r \in Requests : /\ at[r] \in Past /\ passedAt[r] \in Past
                          /\ ratedAt[r] \in Past /\ refusedAt[r] \in Past
  BY DEF TypeCore
<1> QED
  BY <1>2, <1>3 DEF Past

LEMMA ClockGrows ==
  ASSUME IInv, [Next]_vars
  PROVE  clock' = clock \/ clock' = clock + 1
<1>1. Ends => clock' = clock
  BY DEF Ends
<1>2. ASSUME NEW s \in Requests, \/ Accepts(s) \/ Passes(s) \/ Finds(s) \/ Outlives(s)
                                 \/ IsDuplicate(s) \/ Opens(s) \/ Joins(s) \/ IsLimited(s)
      PROVE  clock' = clock
  BY <1>2 DEF Accepts, Passes, Finds, Outlives, IsDuplicate, Opens, Joins, Counts, IsLimited
<1>3. Looks \/ (\E k \in Keys : Deletes(k)) \/ (\E p \in Projects : Forgets(p)) => clock' = clock
  BY DEF Looks, Deletes, Forgets
<1>4. Tick => clock' = clock + 1
  BY DEF Tick
<1>5. UNCHANGED vars => clock' = clock
  BY DEF vars
<1> QED
  BY <1>1, <1>2, <1>3, <1>4, <1>5, NextEffect DEF IInv

\* An event that has been received, and what has been noted of it, stays.
LEMMA Steady ==
  ASSUME IInv, [Next]_vars, NEW r \in Requests
  PROVE  /\ pc[r] # "new" => event'[r] = event[r]
         /\ Passed(r) => passedAt'[r] = passedAt[r]
         /\ ratedAt[r] # Never => ratedAt'[r] = ratedAt[r]
<1>0. TypeCore /\ \A s \in Requests : RequestInv(s)
  BY DEF IInv
<1> USE DEF requestVars, history
<1>1. CASE Ends
  BY <1>1 DEF Ends
<1>2. ASSUME NEW s \in Requests, \/ Accepts(s) \/ Passes(s) \/ Finds(s) \/ Outlives(s)
                                 \/ IsDuplicate(s) \/ Opens(s) \/ Joins(s) \/ IsLimited(s)
      PROVE  /\ pc[r] # "new" => event'[r] = event[r]
             /\ Passed(r) => passedAt'[r] = passedAt[r]
             /\ ratedAt[r] # Never => ratedAt'[r] = ratedAt[r]
  <2>1. CASE Accepts(s)
    BY <1>0, <2>1 DEF Accepts, TypeCore
  <2>2. CASE Passes(s)
    BY <1>0, <2>2 DEF Passes, TypeCore, RequestInv
  <2>3. CASE Finds(s) \/ Outlives(s) \/ IsDuplicate(s) \/ IsLimited(s)
    BY <2>3 DEF Finds, Outlives, IsDuplicate, IsLimited
  <2>4. CASE Opens(s) \/ Joins(s)
    BY <1>0, <2>4 DEF Opens, Joins, Counts, TypeCore, RequestInv
  <2> QED
    BY <1>2, <2>1, <2>2, <2>3, <2>4
<1>3. CASE Looks \/ (\E k \in Keys : Deletes(k)) \/ \E p \in Projects : Forgets(p)
  BY <1>3 DEF Looks, Deletes, Forgets
<1>4. CASE Tick
  BY <1>4 DEF Tick
<1>5. CASE UNCHANGED vars
  BY <1>5 DEF vars
<1> QED
  BY <1>0, <1>1, <1>2, <1>3, <1>4, <1>5, NextEffect

\* What a step that is not of the request leaves true of it.
LEMMA RequestKeeps ==
  ASSUME TypeCore, NEW q \in Requests, RequestInv(q), clock' = clock,
         \/ pc'[q] = pc[q] /\ reply'[q] = reply[q]
         \/ pc'[q] = "done" /\ reply'[q] # "deduplicated",
         event'[q] = event[q], at'[q] = at[q], seen'[q] = seen[q], passedAt'[q] = passedAt[q],
         ratedAt'[q] = ratedAt[q]
  PROVE  RequestInv(q)'
<1>1. Key(q)' = Key(q) /\ RequestWindow(q)' = RequestWindow(q) /\ (Passed(q)' <=> Passed(q))
  BY DEF Key, RequestWindow, Passed
<1>2. CASE pc'[q] = pc[q] /\ reply'[q] = reply[q]
  BY <1>1, <1>2 DEF RequestInv
<1>3. CASE pc'[q] = "done" /\ reply'[q] # "deduplicated"
  BY <1>1, <1>3 DEF RequestInv, InCheck
<1> QED
  BY <1>2, <1>3

LEMMA StepRequest ==
  ASSUME IInv, [Next]_vars, NEW q \in Requests
  PROVE  RequestInv(q)'
<1>0. /\ TypeCore /\ \A s \in Requests : RequestInv(s)
      /\ \A k \in Keys : KeyInv(k)
      /\ clock \in Nat
  BY Numbers DEF IInv
<1> USE DEF requestVars, history
<1>1. CASE Ends
  BY <1>0, <1>1, RequestKeeps DEF Ends
<1>2. ASSUME NEW r \in Requests, q # r,
             \/ Accepts(r) \/ Passes(r) \/ Finds(r) \/ Outlives(r)
             \/ IsDuplicate(r) \/ Opens(r) \/ Joins(r) \/ IsLimited(r)
      PROVE  RequestInv(q)'
  <2>1. /\ pc'[q] = pc[q] /\ reply'[q] = reply[q]
        /\ event'[q] = event[q] /\ at'[q] = at[q] /\ seen'[q] = seen[q]
        /\ passedAt'[q] = passedAt[q] /\ ratedAt'[q] = ratedAt[q] /\ clock' = clock
    <3> USE <1>0, <1>2 DEF TypeCore
    <3>1. CASE Accepts(r)
      BY <3>1 DEF Accepts
    <3>2. CASE Passes(r)
      BY <3>2 DEF Passes
    <3>3. CASE Finds(r) \/ Outlives(r)
      BY <3>3 DEF Finds, Outlives
    <3>4. CASE IsDuplicate(r) \/ IsLimited(r)
      BY <3>4 DEF IsDuplicate, IsLimited
    <3>5. CASE Opens(r) \/ Joins(r)
      BY <3>5 DEF Opens, Joins, Counts
    <3> QED
      BY <3>1, <3>2, <3>3, <3>4, <3>5
  <2> QED
    BY <1>0, <2>1, RequestKeeps
<1>3. CASE Accepts(q)
  <2>1. /\ pc[q] = "new" /\ pc'[q] = "load" /\ at'[q] = clock /\ clock' = clock
        /\ event'[q].project \in Projects /\ Key(q)' \in Keys
        /\ passedAt' = passedAt /\ ratedAt' = ratedAt /\ reply' = reply
    BY <1>0, <1>3 DEF Accepts, TypeCore
  <2> QED
    BY <1>0, <2>1, Positive DEF RequestInv, InCheck, Passed, Never
<1>4. ASSUME event' = event
      PROVE  Key(q)' = Key(q) /\ RequestWindow(q)' = RequestWindow(q)
  BY <1>4 DEF Key, RequestWindow
<1>5. CASE Passes(q)
  <2>1. /\ pc[q] \in {"load", "cas"} /\ pc'[q] = "rate"
        /\ UNCHANGED <<event, reply, clock, ratedAt>>
    BY <1>0, <1>5 DEF Passes, TypeCore
  <2> QED
    BY <1>0, <1>4, <2>1 DEF RequestInv, InCheck
<1>6. CASE Finds(q)
  <2>1. /\ pc[q] = "load" /\ pc'[q] = "age" /\ seen'[q] = dedup[Key(q)]
        /\ dedup[Key(q)] # NoEntry
        /\ UNCHANGED <<event, at, reply, clock, passedAt, ratedAt>>
    BY <1>0, <1>6 DEF Finds, TypeCore
  <2>2. Key(q) \in Keys
    BY <1>0, <2>1 DEF RequestInv
  <2>3. dedup[Key(q)].at \in 0 .. clock /\ dedup[Key(q)].window = RequestWindow(q)
    BY <1>0, <2>1, <2>2 DEF KeyInv, RequestWindow, Key
  <2> QED
    BY <1>0, <1>4, <2>1, <2>3 DEF RequestInv, InCheck, Passed
<1>7. CASE Outlives(q)
  <2>1. /\ pc[q] = "age" /\ pc'[q] = "cas" /\ Expired(q)
        /\ UNCHANGED <<event, at, seen, reply, clock, passedAt, ratedAt>>
    BY <1>0, <1>7 DEF Outlives, TypeCore
  <2> QED
    BY <1>0, <1>4, <2>1 DEF RequestInv, InCheck, Passed, Expired
<1>8. CASE IsDuplicate(q) \/ IsLimited(q)
  BY <1>0, <1>8 DEF IsDuplicate, IsLimited, RequestInv, InCheck, TypeCore
<1>9. CASE Opens(q) \/ Joins(q)
  <2>1. /\ pc[q] = "rate" /\ pc'[q] = "submit"
        /\ UNCHANGED <<event, reply, clock>>
    BY <1>0, <1>9 DEF Opens, Joins, Counts, TypeCore
  <2> QED
    BY <1>0, <1>4, <2>1 DEF RequestInv, InCheck
<1>10. CASE Looks \/ (\E k \in Keys : Deletes(k)) \/ \E p \in Projects : Forgets(p)
  BY <1>0, <1>10, RequestKeeps DEF Looks, Deletes, Forgets
<1>11. CASE Tick
  <2>1. /\ clock' = clock + 1 /\ UNCHANGED <<requestVars, passedAt, ratedAt>>
        /\ pc[q] \in InCheck => clock - at[q] < MaxStall
    BY <1>11 DEF Tick, InCheck
  <2>2. RequestInv(q)
    BY <1>0
  <2>3. pc[q] \in InCheck => at[q] \in 0 .. clock
    BY <1>0, <2>2, Numbers DEF RequestInv
  <2>4. pc'[q] \in InCheck => at'[q] # Never /\ clock' <= at'[q] + MaxStall
    BY <1>0, <2>1, <2>2, <2>3, Positive DEF RequestInv
  <2>5. pc[q] = "cas" => RequestWindow(q) \in Nat
    BY <2>2, Positive DEF RequestInv, RequestWindow
  <2>6. pc'[q] \in {"age", "cas"} => /\ seen'[q].at \in 0 .. clock'
                                     /\ seen'[q].window = RequestWindow(q)'
    BY <1>0, <1>4, <2>1, <2>2 DEF RequestInv
  <2>7. pc'[q] = "cas" => clock' - seen'[q].at >= RequestWindow(q)'
    BY <1>0, <1>4, <2>1, <2>2, <2>5 DEF RequestInv
  <2>8. Key(q)' = Key(q) /\ (Passed(q)' <=> Passed(q))
    BY <1>4, <2>1 DEF Passed
  <2> QED
    BY <2>1, <2>2, <2>4, <2>6, <2>7, <2>8 DEF RequestInv
<1>12. CASE UNCHANGED vars
  BY <1>0, <1>12, RequestKeeps DEF vars
<1> QED
  BY <1>0, <1>1, <1>2, <1>3, <1>5, <1>6, <1>7, <1>8, <1>9, <1>10, <1>11, <1>12, NextEffect

-----------------------------------------------------------------------------
(* Keys *)

\* Only a pass of the check makes an event one that has passed.
LEMMA OnlyPasses ==
  ASSUME IInv, [Next]_vars
  PROVE  \/ passedAt' = passedAt /\ dedup' = dedup /\ sweptLive' = sweptLive
         \/ passedAt' = passedAt /\ clock' = clock /\ \E k \in Keys : Deletes(k)
         \/ clock' = clock /\ \E r \in Requests : Passes(r)
<1>0. TypeCore /\ \A s \in Requests : RequestInv(s)
  BY DEF IInv
<1> USE DEF requestVars, history
<1>1. CASE Ends
  BY <1>1 DEF Ends
<1>2. ASSUME NEW r \in Requests, \/ Accepts(r) \/ Finds(r) \/ Outlives(r) \/ IsDuplicate(r)
                                 \/ Opens(r) \/ Joins(r) \/ IsLimited(r)
      PROVE  passedAt' = passedAt /\ dedup' = dedup /\ sweptLive' = sweptLive
  BY <1>2 DEF Accepts, Finds, Outlives, IsDuplicate, Opens, Joins, Counts, IsLimited
<1>3. ASSUME NEW r \in Requests, Passes(r) PROVE clock' = clock
  BY <1>3 DEF Passes
<1>4. CASE Looks \/ (\E k \in Keys : Deletes(k)) \/ \E p \in Projects : Forgets(p)
  BY <1>4 DEF Looks, Deletes, Forgets
<1>5. CASE Tick
  BY <1>5 DEF Tick
<1>6. CASE UNCHANGED vars
  BY <1>6 DEF vars
<1> QED
  BY <1>0, <1>1, <1>2, <1>3, <1>4, <1>5, <1>6, NextEffect

\* Who has passed keeps its key.
LEMMA PassedKeeps ==
  ASSUME IInv, [Next]_vars, NEW s \in Requests, Passed(s)
  PROVE  /\ Passed(s)' /\ Key(s)' = Key(s) /\ RequestWindow(s)' = RequestWindow(s)
         /\ passedAt'[s] = passedAt[s]
<1>1. pc[s] # "new"
  BY DEF IInv, RequestInv
<1> QED
  BY <1>1, Steady DEF Passed, Key, RequestWindow

LEMMA KeyFacts ==
  ASSUME NEW k \in Keys
  PROVE  /\ Window(k[1]) \in Nat \ {0} /\ MaxStall < Window(k[1])
         /\ \A r : Key(r) = k => RequestWindow(r) = Window(k[1])
BY Positive DEF Keys, Key, RequestWindow

LEMMA StepKey ==
  ASSUME IInv, [Next]_vars, NEW k \in Keys
  PROVE  KeyInv(k)'
<1>0. /\ TypeCore /\ KeyInv(k) /\ \A r \in Requests : RequestInv(r)
      /\ clock \in Nat /\ clock' \in Nat /\ clock <= clock' /\ MaxStall \in Nat
  <2>1. TypeCore /\ KeyInv(k) /\ \A r \in Requests : RequestInv(r)
    BY DEF IInv
  <2>2. clock \in Nat
    BY <2>1, Numbers
  <2>3. clock' = clock \/ clock' = clock + 1
    BY ClockGrows
  <2> QED
    BY <2>1, <2>2, <2>3, Positive
<1>w. Window(k[1]) \in Nat \ {0}
  BY KeyFacts
<1>p. \A s \in Requests : Passed(s) => passedAt[s] \in 0 .. clock
  BY <1>0, Numbers DEF Passed
<1>1. CASE passedAt' = passedAt /\ dedup'[k] = dedup[k] /\ (k \notin sweptLive' => k \notin sweptLive)
  <2>1. dedup'[k] = NoEntry \/ (dedup'[k].at \in 0 .. clock' /\ dedup'[k].window = Window(k[1]))
    BY <1>0, <1>1 DEF KeyInv
  <2>2. ASSUME NEW s \in Requests, Passed(s)', Key(s)' = k, k \notin sweptLive'
        PROVE  IF dedup'[k] = NoEntry THEN passedAt'[s] + Window(k[1]) <= clock' + MaxStall
                                      ELSE passedAt'[s] <= dedup'[k].at + MaxStall
    <3>1. Passed(s) /\ Key(s) = k /\ passedAt'[s] = passedAt[s]
      BY <1>1, <2>2, PassedKeeps DEF Passed
    <3>2. IF dedup[k] = NoEntry THEN passedAt[s] + Window(k[1]) <= clock + MaxStall
                                ELSE passedAt[s] <= dedup[k].at + MaxStall
      BY <1>0, <1>1, <2>2, <3>1 DEF KeyInv
    <3> QED
      BY <1>0, <1>1, <1>w, <1>p, <3>1, <3>2
  <2> QED
    BY <2>1, <2>2 DEF KeyInv
<1>2. ASSUME NEW d \in Keys, Deletes(d), d = k, clock' = clock PROVE KeyInv(k)'
  <2>1. /\ dedup'[k] = NoEntry /\ passedAt' = passedAt
        /\ sweptLive' = IF EntryExpired(dedup[k], clock) THEN sweptLive ELSE sweptLive \cup {k}
    BY <1>0, <1>2 DEF Deletes, TypeCore
  <2>2. ASSUME NEW s \in Requests, Passed(s)', Key(s)' = k, k \notin sweptLive'
        PROVE  passedAt'[s] + Window(k[1]) <= clock' + MaxStall
    <3>1. Passed(s) /\ Key(s) = k /\ passedAt'[s] = passedAt[s]
      BY <2>1, <2>2, PassedKeeps DEF Passed
    <3>2. /\ k \notin sweptLive /\ dedup[k] # NoEntry
          /\ clock - dedup[k].at >= dedup[k].window
      BY <2>1, <2>2 DEF EntryExpired
    <3>3. /\ passedAt[s] <= dedup[k].at + MaxStall
          /\ dedup[k].at \in 0 .. clock /\ dedup[k].window = Window(k[1])
      BY <1>0, <3>1, <3>2 DEF KeyInv
    <3> QED
      BY <1>0, <1>2, <1>w, <1>p, <3>1, <3>2, <3>3
  <2> QED
    BY <2>1, <2>2 DEF KeyInv
<1>3. ASSUME NEW r \in Requests, Passes(r), clock' = clock PROVE KeyInv(k)'
  <2>1. /\ dedup' = [dedup EXCEPT ![Key(r)] = NewEntry(r)]
        /\ passedAt' = [passedAt EXCEPT ![r] = clock] /\ sweptLive' = sweptLive
        /\ event' = event /\ pc[r] \in {"load", "cas"}
    BY <1>3 DEF Passes
  <2>2. \A s \in Requests \ {r} : Passed(s)' => Passed(s) /\ passedAt'[s] = passedAt[s]
    BY <1>0, <2>1 DEF TypeCore, Passed
  <2>3. \A s \in Requests : Key(s)' = Key(s)
    BY <2>1 DEF Key
  <2>4. CASE Key(r) # k
    <3>1. dedup'[k] = dedup[k]
      BY <1>0, <2>1, <2>4 DEF TypeCore
    <3>2. \A s \in Requests : Passed(s)' /\ Key(s)' = k =>
             Passed(s) /\ Key(s) = k /\ passedAt'[s] = passedAt[s]
      BY <2>2, <2>3, <2>4
    <3> QED
      BY <1>0, <1>3, <2>1, <3>1, <3>2 DEF KeyInv
  <2>5. CASE Key(r) = k
    <3>1. dedup'[k] = NewEntry(r)
      BY <1>0, <2>1, <2>5 DEF TypeCore
    <3>2. at[r] \in 0 .. clock /\ clock <= at[r] + MaxStall
      BY <1>0, <2>1, Numbers DEF RequestInv, InCheck
    <3>3. /\ NewEntry(r).at = at[r] /\ NewEntry(r).window = Window(k[1])
          /\ NewEntry(r) # NoEntry
      <4>1. NewEntry(r).at = at[r] /\ NewEntry(r).window = Window(k[1])
        BY <2>5, KeyFacts DEF NewEntry
      <4>2. NoEntry.at = -1
        BY DEF NoEntry, Never
      <4> QED
        BY <1>0, <3>2, <4>1, <4>2
    <3>4. ASSUME NEW s \in Requests, Passed(s)' PROVE passedAt'[s] \in 0 .. clock
      <4>1. CASE s = r
        <5>1. passedAt'[r] = clock
          BY <1>0, <2>1 DEF TypeCore
        <5> QED
          BY <1>0, <4>1, <5>1
      <4>2. CASE s # r
        BY <1>p, <2>2, <3>4, <4>2
      <4> QED
        BY <4>1, <4>2
    <3> QED
      BY <1>0, <1>3, <3>1, <3>2, <3>3, <3>4 DEF KeyInv
  <2> QED
    BY <2>4, <2>5
<1> QED
  <2>1. ASSUME NEW d \in Keys, Deletes(d), d # k, passedAt' = passedAt PROVE KeyInv(k)'
    <3>1. dedup'[k] = dedup[k] /\ (k \notin sweptLive' => k \notin sweptLive)
      BY <1>0, <2>1 DEF Deletes, TypeCore
    <3> QED
      BY <1>1, <2>1, <3>1
  <2> QED
    BY <1>1, <1>2, <1>3, <2>1, OnlyPasses

-----------------------------------------------------------------------------
(* Once in a window *)

\* Who passes does so a window after the others with its key.
LEMMA PassesLate ==
  ASSUME IInv, NEW r \in Requests, Passes(r), Key(r) \notin sweptLive,
         NEW s \in Requests, Passed(s), Key(s) = Key(r)
  PROVE  passedAt[s] + RequestWindow(r) <= clock + MaxStall
<1>0. /\ TypeCore /\ RequestInv(r) /\ clock \in Nat /\ MaxStall \in Nat
  BY Numbers, Positive DEF IInv
<1>1. pc[r] \in {"load", "cas"} /\ Key(r) \in Keys
  BY <1>0 DEF Passes, RequestInv
<1>2. KeyInv(Key(r)) /\ RequestWindow(r) = Window(Key(r)[1]) /\ RequestWindow(r) \in Nat
  BY <1>1, KeyFacts DEF IInv
<1>3. passedAt[s] \in 0 .. clock
  BY <1>0, Numbers DEF Passed
<1>4. CASE pc[r] = "load" /\ dedup[Key(r)] = NoEntry
  BY <1>2, <1>4 DEF KeyInv
<1>5. CASE pc[r] = "cas" /\ dedup[Key(r)] = seen[r]
  <2>1. seen[r].at \in 0 .. clock /\ clock - seen[r].at >= RequestWindow(r)
    BY <1>0, <1>5 DEF RequestInv
  <2>2. dedup[Key(r)] # NoEntry
    <3>1. NoEntry.at = -1
      BY DEF NoEntry, Never
    <3> QED
      BY <1>0, <1>5, <2>1, <3>1
  <2>3. passedAt[s] <= seen[r].at + MaxStall
    BY <1>2, <1>5, <2>2 DEF KeyInv
  <2> QED
    BY <1>0, <1>2, <1>3, <2>1, <2>3
<1> QED
  BY <1>4, <1>5 DEF Passes

LEMMA StepOnce ==
  ASSUME IInv, [Next]_vars
  PROVE  OncePerWindowUnlessSwept'
<1> SUFFICES ASSUME NEW r \in Requests, NEW s \in Requests, r # s, Passed(r)', Passed(s)',
                    Key(r)' = Key(s)', Key(r)' \notin sweptLive'
             PROVE  Apart(passedAt'[r], passedAt'[s]) >= RequestWindow(r)' - MaxStall
  BY DEF OncePerWindowUnlessSwept
<1>0. TypeCore /\ clock \in Nat /\ MaxStall \in Nat /\ OncePerWindowUnlessSwept
  BY Numbers, Positive DEF IInv
<1>1. sweptLive \subseteq sweptLive'
  BY OnlyPasses DEF Deletes, Passes
<1>2. CASE Passed(r) /\ Passed(s)
  <2>1. /\ Key(r)' = Key(r) /\ Key(s)' = Key(s) /\ RequestWindow(r)' = RequestWindow(r)
        /\ passedAt'[r] = passedAt[r] /\ passedAt'[s] = passedAt[s]
    BY <1>2, PassedKeeps
  <2> QED
    BY <1>0, <1>1, <1>2, <2>1 DEF OncePerWindowUnlessSwept
<1>3. ASSUME NEW a \in Requests, NEW b \in Requests, ~Passed(a), Passed(a)', a # b, Passed(b)',
             Key(a)' = Key(b)', Key(a)' \notin sweptLive'
      PROVE  /\ passedAt'[a] \in Nat /\ passedAt'[b] \in Nat /\ RequestWindow(a)' \in Nat
             /\ RequestWindow(a)' = RequestWindow(b)'
             /\ passedAt'[b] <= passedAt'[a]
             /\ passedAt'[b] + RequestWindow(a)' <= passedAt'[a] + MaxStall
  <2>1. PICK c \in Requests : Passes(c)
    BY <1>3, OnlyPasses DEF Passed
  <2>2. /\ passedAt' = [passedAt EXCEPT ![c] = clock] /\ event' = event
        /\ sweptLive' = sweptLive
    BY <2>1 DEF Passes
  <2>3. c = a
    BY <1>0, <1>3, <2>2 DEF TypeCore, Passed
  <2>4. passedAt'[a] = clock /\ Passed(b) /\ passedAt'[b] = passedAt[b]
    BY <1>0, <1>3, <2>2, <2>3 DEF TypeCore, Passed
  <2>5. \A q \in Requests : Key(q)' = Key(q) /\ RequestWindow(q)' = RequestWindow(q)
    BY <2>2 DEF Key, RequestWindow
  <2>6. Key(a) \in Keys
    BY <2>1, <2>3 DEF IInv, Passes, RequestInv
  <2>7. RequestWindow(a) = RequestWindow(b) /\ RequestWindow(a) \in Nat
    BY <1>3, <2>5, <2>6, KeyFacts
  <2>8. passedAt[b] + RequestWindow(a) <= clock + MaxStall
    BY <1>3, <2>1, <2>2, <2>3, <2>4, <2>5, PassesLate
  <2>9. passedAt[b] \in 0 .. clock
    BY <1>0, <2>4, Numbers DEF Passed
  <2> QED
    BY <1>0, <2>4, <2>5, <2>7, <2>8, <2>9
<1>4. CASE ~Passed(r)
  BY <1>0, <1>3, <1>4 DEF Apart
<1>5. CASE Passed(r) /\ ~Passed(s)
  BY <1>0, <1>3, <1>5 DEF Apart
<1> QED
  BY <1>2, <1>4, <1>5

-----------------------------------------------------------------------------
(* Originals *)

LEMMA OriginalKeeps ==
  ASSUME IInv, [Next]_vars, NEW k, NEW since, Original(k, since)
  PROVE  \E s \in Requests : Passed(s)' /\ Key(s)' = k /\ passedAt'[s] >= since
<1>1. PICK s \in Requests : Passed(s) /\ Key(s) = k /\ passedAt[s] >= since
  BY DEF Original
<1> QED
  BY <1>1, PassedKeeps

\* What a step that leaves the entry of a key, or removes it, leaves true of the key, ...
LEMMA TableKeeps ==
  ASSUME IInv, [Next]_vars, NEW k \in Keys, dedup'[k] \in {NoEntry, dedup[k]}
  PROVE  TableInv(k)'
<1> SUFFICES ASSUME dedup'[k] # NoEntry
             PROVE  Original(k, dedup[k].at)'
  BY DEF TableInv
<1>1. dedup'[k] = dedup[k]
  OBVIOUS
<1>2. Original(k, dedup[k].at)
  BY <1>1 DEF IInv, OriginInv, TableInv
<1> QED
  BY <1>1, <1>2, OriginalKeeps DEF Original

\* ... and of a request that keeps what it has seen.
LEMMA SeenKeeps ==
  ASSUME IInv, [Next]_vars, NEW r \in Requests,
         pc'[r] \in {"age", "cas"} =>
           /\ pc[r] \in {"age", "cas"} /\ seen'[r] = seen[r] /\ at'[r] = at[r]
           /\ dedup'[Key(r)] \in {NoEntry, dedup[Key(r)]}
  PROVE  SeenInv(r)'
<1> SUFFICES ASSUME pc'[r] \in {"age", "cas"}
             PROVE  /\ Original(Key(r), seen[r].at)'
                    /\ (dedup[Key(r)] \in {NoEntry, seen[r]})' \/ Original(Key(r), at[r])'
  BY DEF SeenInv
<1>1. Key(r)' = Key(r)
  BY Steady DEF Key
<1>2. /\ Original(Key(r), seen[r].at)
      /\ dedup[Key(r)] \in {NoEntry, seen[r]} \/ Original(Key(r), at[r])
  BY DEF IInv, OriginInv, SeenInv
<1>3. Original(Key(r), seen[r].at)'
  BY <1>1, <1>2, OriginalKeeps DEF Original
<1>4. CASE Original(Key(r), at[r])
  <2>1. Original(Key(r), at[r])'
    BY <1>1, <1>4, OriginalKeeps DEF Original
  <2> QED
    BY <1>3, <2>1
<1>5. CASE dedup[Key(r)] \in {NoEntry, seen[r]}
  <2>1. dedup'[Key(r)'] \in {NoEntry, seen'[r]}
    BY <1>1, <1>5
  <2> QED
    BY <1>3, <2>1
<1> QED
  BY <1>2, <1>4, <1>5

LEMMA StepOrigin ==
  ASSUME IInv, [Next]_vars
  PROVE  OriginInv'
<1>0. /\ TypeCore /\ OriginInv /\ clock \in Nat
      /\ \A r \in Requests : RequestInv(r)
  BY Numbers DEF IInv
<1>1. ASSUME NEW r \in Requests, Finds(r)
      PROVE  OriginInv'
  <2>1. /\ pc[r] = "load" /\ dedup[Key(r)] # NoEntry /\ pc' = [pc EXCEPT ![r] = "age"]
        /\ seen' = [seen EXCEPT ![r] = dedup[Key(r)]]
        /\ UNCHANGED <<event, at, dedup>>
    BY <1>1 DEF Finds
  <2>2. \A k \in Keys : TableInv(k)'
    BY <2>1, TableKeeps
  <2>3. SeenInv(r)'
    <3>1. /\ seen'[r] = dedup[Key(r)] /\ Key(r) \in Keys /\ Key(r)' = Key(r)
          /\ dedup' = dedup
      BY <1>0, <2>1 DEF TypeCore, RequestInv, Key
    <3>2. Original(Key(r), dedup[Key(r)].at)
      BY <1>0, <2>1, <3>1 DEF OriginInv, TableInv
    <3>3. Original(Key(r), seen[r].at)'
      BY <3>1, <3>2, OriginalKeeps DEF Original
    <3>4. dedup'[Key(r)'] = seen'[r]
      BY <3>1
    <3> QED
      BY <3>3, <3>4 DEF SeenInv
  <2>4. ASSUME NEW s \in Requests, s # r PROVE SeenInv(s)'
    BY <1>0, <2>1, <2>4, SeenKeeps DEF TypeCore
  <2> QED
    BY <2>2, <2>3, <2>4 DEF OriginInv
<1>2. ASSUME NEW r \in Requests, Passes(r)
      PROVE  OriginInv'
  <2>1. /\ pc[r] \in {"load", "cas"} /\ pc' = [pc EXCEPT ![r] = "rate"]
        /\ at' = [at EXCEPT ![r] = Never] /\ seen' = [seen EXCEPT ![r] = NoEntry]
        /\ dedup' = [dedup EXCEPT ![Key(r)] = NewEntry(r)]
        /\ passedAt' = [passedAt EXCEPT ![r] = clock]
        /\ event' = event
    BY <1>2 DEF Passes
  <2>2. \A s \in Requests : Key(s)' = Key(s)
    BY <2>1 DEF Key
  <2>3. passedAt'[r] = clock /\ Passed(r)' /\ Key(r) \in Keys
    <3>1. passedAt'[r] = clock
      BY <1>0, <2>1 DEF TypeCore
    <3>2. clock # Never
      BY <1>0 DEF Never
    <3> QED
      BY <1>0, <2>1, <3>1, <3>2 DEF Passed, RequestInv
  <2>4. ASSUME NEW k \in Keys PROVE TableInv(k)'
    <3>1. CASE k = Key(r)
      <4>1. dedup'[k].at = at[r]
        BY <1>0, <2>1, <3>1 DEF TypeCore, NewEntry
      <4>2. at[r] \in 0 .. clock
        BY <1>0, <2>1, Numbers DEF RequestInv, InCheck
      <4>3. passedAt'[r] >= dedup'[k].at
        BY <1>0, <2>3, <4>1, <4>2
      <4> QED
        BY <2>2, <2>3, <3>1, <4>3 DEF TableInv, Original
    <3>2. CASE k # Key(r)
      <4>1. dedup'[k] = dedup[k]
        BY <1>0, <2>1, <3>2 DEF TypeCore
      <4> QED
        BY <4>1, TableKeeps
    <3> QED
      BY <3>1, <3>2
  <2>5. ASSUME NEW s \in Requests, pc'[s] \in {"age", "cas"} PROVE SeenInv(s)'
    <3>1. /\ s # r /\ pc[s] = pc'[s] /\ seen'[s] = seen[s] /\ at'[s] = at[s]
          /\ Key(s) \in Keys
      BY <1>0, <2>1, <2>5 DEF TypeCore, RequestInv
    <3>2. CASE Key(s) = Key(r)
      <4>1. at[s] \in 0 .. clock
        BY <1>0, <2>5, <3>1, Numbers DEF RequestInv, InCheck
      <4>2. passedAt'[r] >= at'[s]
        BY <1>0, <2>3, <3>1, <4>1
      <4>3. Original(Key(s), at[s])'
        BY <2>2, <2>3, <3>2, <4>2 DEF Original
      <4>4. Original(Key(s), seen[s].at)
        BY <1>0, <2>5, <3>1 DEF OriginInv, SeenInv
      <4>5. Original(Key(s), seen[s].at)'
        BY <2>2, <3>1, <4>4, OriginalKeeps DEF Original
      <4> QED
        BY <4>3, <4>5 DEF SeenInv
    <3>3. CASE Key(s) # Key(r)
      <4>1. dedup'[Key(s)] = dedup[Key(s)]
        BY <1>0, <2>1, <3>1, <3>3 DEF TypeCore
      <4> QED
        BY <2>5, <3>1, <4>1, SeenKeeps
    <3> QED
      BY <3>2, <3>3
  <2> QED
    BY <2>4, <2>5 DEF OriginInv, SeenInv
\* Any other step: nobody begins to look at an entry, and an entry goes or stays.
<1>3. ASSUME \A k \in Keys : dedup'[k] \in {NoEntry, dedup[k]},
             \A s \in Requests : pc'[s] \in {"age", "cas"} =>
               pc[s] \in {"age", "cas"} /\ seen'[s] = seen[s] /\ at'[s] = at[s]
      PROVE  OriginInv'
  <2>1. \A k \in Keys : TableInv(k)'
    BY <1>3, TableKeeps
  <2>2. \A s \in Requests : pc[s] \in {"age", "cas"} => Key(s) \in Keys
    BY <1>0 DEF RequestInv
  <2>3. \A s \in Requests : SeenInv(s)'
    BY <1>3, <2>2, SeenKeeps
  <2> QED
    BY <2>1, <2>3 DEF OriginInv
<1> USE DEF requestVars, history
<1>4. CASE Ends
  BY <1>3, <1>4 DEF Ends
<1>5. ASSUME NEW r \in Requests, \/ Accepts(r) \/ Outlives(r) \/ IsDuplicate(r)
                                 \/ Opens(r) \/ Joins(r) \/ IsLimited(r)
      PROVE  OriginInv'
  <2>1. CASE Accepts(r)
    <3>1. \A s \in Requests : pc'[s] \in {"age", "cas"} =>
            pc[s] \in {"age", "cas"} /\ seen'[s] = seen[s] /\ at'[s] = at[s]
      BY <1>0, <2>1 DEF Accepts, TypeCore
    <3> QED
      BY <1>3, <2>1, <3>1 DEF Accepts
  <2>2. CASE Outlives(r)
    <3>1. \A s \in Requests : pc'[s] \in {"age", "cas"} =>
            pc[s] \in {"age", "cas"} /\ seen'[s] = seen[s] /\ at'[s] = at[s]
      BY <1>0, <2>2 DEF Outlives, TypeCore
    <3> QED
      BY <1>3, <2>2, <3>1 DEF Outlives
  <2>3. CASE IsDuplicate(r)
    <3>1. \A s \in Requests : pc'[s] \in {"age", "cas"} =>
            pc[s] \in {"age", "cas"} /\ seen'[s] = seen[s] /\ at'[s] = at[s]
      BY <1>0, <2>3 DEF IsDuplicate, TypeCore
    <3> QED
      BY <1>3, <2>3, <3>1 DEF IsDuplicate
  <2>4. CASE Opens(r) \/ Joins(r) \/ IsLimited(r)
    <3>1. \A s \in Requests : pc'[s] \in {"age", "cas"} =>
            pc[s] \in {"age", "cas"} /\ seen'[s] = seen[s] /\ at'[s] = at[s]
      BY <1>0, <2>4 DEF Opens, Joins, Counts, IsLimited, TypeCore
    <3> QED
      BY <1>3, <2>4, <3>1 DEF Opens, Joins, Counts, IsLimited
  <2> QED
    BY <1>5, <2>1, <2>2, <2>3, <2>4
<1>6. CASE Looks \/ (\E p \in Projects : Forgets(p)) \/ Tick
  BY <1>3, <1>6 DEF Looks, Forgets, Tick
<1>7. ASSUME NEW k \in Keys, Deletes(k) PROVE OriginInv'
  BY <1>0, <1>3, <1>7 DEF Deletes, TypeCore
<1>8. CASE UNCHANGED vars
  BY <1>3, <1>8 DEF vars
<1> QED
  BY <1>0, <1>1, <1>2, <1>4, <1>5, <1>6, <1>7, <1>8, NextEffect

-----------------------------------------------------------------------------
(* Duplicates *)

LEMMA StepDuplicate ==
  ASSUME IInv, [Next]_vars
  PROVE  DuplicateHasOriginal'
<1>0. /\ TypeCore /\ OriginInv /\ clock \in Nat /\ MaxStall \in Nat
      /\ \A q \in Requests : RequestInv(q)
  BY Numbers, Positive DEF IInv
<1> DEFINE HasOriginal(q) == \E s \in Requests :
                               /\ s # q /\ Passed(s) /\ Key(s) = Key(q)
                               /\ refusedAt[q] - passedAt[s] < RequestWindow(q)
<1> SUFFICES ASSUME NEW r \in Requests, reply'[r] = "deduplicated", r \notin casLost'
             PROVE  HasOriginal(r)'
  BY DEF DuplicateHasOriginal
<1>1. ASSUME reply[r] = "deduplicated", r \notin casLost, refusedAt'[r] = refusedAt[r]
      PROVE  HasOriginal(r)'
  <2>1. PICK s \in Requests : /\ s # r /\ Passed(s) /\ Key(s) = Key(r)
                              /\ refusedAt[r] - passedAt[s] < RequestWindow(r)
    BY <1>1 DEF IInv, DuplicateHasOriginal
  <2>2. Key(r)' = Key(r) /\ RequestWindow(r)' = RequestWindow(r)
    BY <1>0, <1>1, Steady DEF RequestInv, Key, RequestWindow
  <2> QED
    BY <1>1, <2>1, <2>2, PassedKeeps
<1>2. CASE IsDuplicate(r)
  <2>1. /\ refusedAt'[r] = clock /\ pc[r] \in {"age", "cas"} /\ event' = event
        /\ passedAt' = passedAt
    BY <1>0, <1>2 DEF IsDuplicate, TypeCore
  <2>2. /\ ~Passed(r) /\ Key(r) \in Keys /\ event[r].project \in Projects
        /\ at[r] \in 0 .. clock /\ clock <= at[r] + MaxStall
        /\ seen[r].at \in 0 .. clock
    BY <1>0, <2>1, Numbers DEF RequestInv, InCheck
  <2>3. RequestWindow(r) \in Nat /\ MaxStall < RequestWindow(r)
    BY <2>2, Positive DEF RequestWindow
  <2>4. \E since \in 0 .. clock : Original(Key(r), since) /\ clock - since < RequestWindow(r)
    <3>1. CASE pc[r] = "age" /\ ~Expired(r)
      <4>1. clock - seen[r].at < RequestWindow(r)
        BY <1>0, <2>2, <2>3, <3>1 DEF Expired
      <4> QED
        BY <1>0, <2>1, <2>2, <4>1 DEF OriginInv, SeenInv
    <3>2. CASE /\ pc[r] = "cas" /\ dedup[Key(r)] # seen[r]
               /\ casLost' = IF dedup[Key(r)] = NoEntry THEN casLost \cup {r} ELSE casLost
      <4>1. dedup[Key(r)] # NoEntry
        BY <3>2
      <4>2. Original(Key(r), at[r])
        BY <1>0, <2>1, <3>2, <4>1 DEF OriginInv, SeenInv
      <4>3. clock - at[r] < RequestWindow(r)
        BY <1>0, <2>2, <2>3
      <4> QED
        BY <2>2, <4>2, <4>3
    <3> QED
      BY <1>2, <3>1, <3>2 DEF IsDuplicate
  <2>5. PICK since \in 0 .. clock : Original(Key(r), since) /\ clock - since < RequestWindow(r)
    BY <2>4
  <2>6. PICK s \in Requests : Passed(s) /\ Key(s) = Key(r) /\ passedAt[s] >= since
    BY <2>5 DEF Original
  <2>7. passedAt[s] \in 0 .. clock /\ s # r
    BY <1>0, <2>2, <2>6, Numbers DEF Passed
  <2>8. clock - passedAt[s] < RequestWindow(r)
    BY <1>0, <2>3, <2>5, <2>6, <2>7
  <2>9. /\ Passed(s)' /\ Key(s)' = Key(r)' /\ passedAt'[s] = passedAt[s]
        /\ RequestWindow(r)' = RequestWindow(r)
    BY <2>1, <2>6 DEF Passed, Key, RequestWindow
  <2> QED
    BY <2>1, <2>7, <2>8, <2>9
<1>3. ASSUME ~IsDuplicate(r)
      PROVE  reply[r] = "deduplicated" /\ r \notin casLost /\ refusedAt'[r] = refusedAt[r]
  <2> USE <1>0 DEF requestVars, history
  <2>1. CASE Ends
    BY <2>1 DEF Ends
  <2>2. ASSUME NEW q \in Requests, Accepts(q) \/ Passes(q) \/ Finds(q) \/ Outlives(q)
                                     \/ Opens(q) \/ Joins(q)
        PROVE  UNCHANGED <<reply, casLost, refusedAt>>
    BY <2>2 DEF Accepts, Passes, Finds, Outlives, Opens, Joins, Counts
  <2>3. ASSUME NEW q \in Requests, q # r, IsDuplicate(q)
        PROVE  reply'[r] = reply[r] /\ r \notin casLost /\ refusedAt'[r] = refusedAt[r]
    BY <2>3 DEF IsDuplicate, TypeCore
  <2>4. ASSUME NEW q \in Requests, IsLimited(q)
        PROVE  reply'[r] = reply[r] /\ r \notin casLost /\ refusedAt'[r] = refusedAt[r]
    BY <2>4 DEF IsLimited, TypeCore
  <2>5. CASE Looks \/ (\E k \in Keys : Deletes(k)) \/ (\E p \in Projects : Forgets(p)) \/ Tick
    BY <2>5 DEF Looks, Deletes, Forgets, Tick
  <2>6. CASE UNCHANGED vars
    BY <2>6 DEF vars
  <2> QED
    BY <1>3, <2>1, <2>2, <2>3, <2>4, <2>5, <2>6, NextEffect
<1> QED
  BY <1>1, <1>2, <1>3

-----------------------------------------------------------------------------
(* Windows of the rate limit *)

\* Nothing changes for a project when nobody is counted in it.
LEMMA RateKeeps ==
  ASSUME NEW p \in Projects, RateInv(p), clock \in Nat, clock' \in Nat, clock <= clock',
         Hour \in Nat, Rated(p)' = Rated(p), \A r \in Rated(p) : ratedAt'[r] = ratedAt[r],
         rate'[p] = rate[p]
  PROVE  RateInv(p)'
<1>1. PICK w \in [Requests -> Nat] : Windows(p, w)
  BY DEF RateInv
<1>2. \A start : CountedIn(p, w, start)' = CountedIn(p, w, start)
  BY DEF CountedIn
<1>3. \A start : CountedIn(p, w, start) \subseteq Rated(p) /\ Rated(p) \subseteq Requests
  BY DEF CountedIn, Rated
<1>4. \A start, n : Full(p, w, start, n) => Full(p, w, start, n)'
  BY <1>2, <1>3 DEF Full
<1>5. \A r \in Rated(p) : w[r] + Hour <= clock => w[r] + Hour <= clock'
  BY <1>3
<1>6. \A m \in 0 .. clock : m \in 0 .. clock'
  OBVIOUS
<1>7. Windows(p, w)'
  BY <1>1, <1>4, <1>5, <1>6 DEF Windows
<1> QED
  BY <1>7 DEF RateInv

\* One more is counted for the project of r, and for no other.
LEMMA CountsEffect ==
  ASSUME TypeCore, NEW r \in Requests, RequestInv(r), NEW entry, Counts(r, entry),
         NEW p, p = event[r].project
  PROVE  /\ p \in Projects /\ r \notin Rated(p)
         /\ Rated(p)' = Rated(p) \cup {r}
         /\ ratedAt'[r] = clock /\ clock' = clock
         /\ \A q \in Requests : q # r => ratedAt'[q] = ratedAt[q]
         /\ \A d : d # p => Rated(d)' = Rated(d)
         /\ rate'[p] = entry /\ \A d \in Projects : d # p => rate'[d] = rate[d]
<1>1. /\ pc[r] = "rate" /\ event' = event /\ clock' = clock
      /\ rate' = [rate EXCEPT ![p] = entry]
      /\ ratedAt' = [ratedAt EXCEPT ![r] = clock]
  BY DEF Counts
<1>2. p \in Projects /\ ratedAt[r] = Never
  BY <1>1 DEF RequestInv
<1>3. clock \in Nat /\ clock # Never
  BY Numbers DEF Never
<1>4. /\ ratedAt'[r] = clock /\ \A q \in Requests : q # r => ratedAt'[q] = ratedAt[q]
      /\ rate'[p] = entry /\ \A d \in Projects : d # p => rate'[d] = rate[d]
  BY <1>1, <1>2 DEF TypeCore
<1>5. r \notin Rated(p)
  BY <1>2 DEF Rated
<1>6. Rated(p)' = Rated(p) \cup {r}
  BY <1>1, <1>3, <1>4 DEF Rated
<1>7. \A d : d # p => Rated(d)' = Rated(d)
  BY <1>1, <1>2, <1>4 DEF Rated
<1> QED
  BY <1>1, <1>2, <1>4, <1>5, <1>6, <1>7

\* Taking a place changes nothing about the other projects.
LEMMA CountsElsewhere ==
  ASSUME TypeCore, NEW r \in Requests, RequestInv(r), NEW entry, Counts(r, entry),
         NEW p \in Projects, p # event[r].project
  PROVE  /\ Rated(p)' = Rated(p) /\ rate'[p] = rate[p]
         /\ \A q \in Rated(p) : ratedAt'[q] = ratedAt[q]
<1>1. /\ r \notin Rated(p) /\ Rated(p) \subseteq Requests
  BY DEF Rated
<1>2. PICK d : d = event[r].project
  OBVIOUS
<1>3. /\ \A q \in Requests : q # r => ratedAt'[q] = ratedAt[q]
      /\ Rated(p)' = Rated(p) /\ rate'[p] = rate[p]
  BY <1>2, CountsEffect
<1> QED
  BY <1>1, <1>3

\* Who is counted where then, if it is in the window that starts at start.
LEMMA CountedAfter ==
  ASSUME NEW p, NEW r \in Requests, r \notin Rated(p), Rated(p)' = Rated(p) \cup {r},
         NEW w, NEW v, NEW start, v[r] = start, \A q \in Requests : q # r => v[q] = w[q]
  PROVE  /\ \A q \in Rated(p) : v[q] = w[q]
         /\ CountedIn(p, v, start)' = CountedIn(p, w, start) \cup {r}
         /\ \A other : other # start => CountedIn(p, v, other)' = CountedIn(p, w, other)
<1>1. \A q \in Rated(p) : v[q] = w[q]
  BY DEF Rated
<1>2. \A s : CountedIn(p, v, s)' = {q \in Rated(p) \cup {r} : v[q] = s}
  BY DEF CountedIn
<1>3. CountedIn(p, v, start)' = CountedIn(p, w, start) \cup {r}
  BY <1>1, <1>2 DEF CountedIn
<1>4. ASSUME NEW other, other # start
      PROVE  CountedIn(p, v, other)' = CountedIn(p, w, other)
  BY <1>1, <1>2, <1>4 DEF CountedIn
<1> QED
  BY <1>1, <1>3, <1>4

\* A window in which nobody is counted stays full as it was.
LEMMA FullKeeps ==
  ASSUME NEW p, NEW w, NEW v, NEW start, NEW n, Full(p, w, start, n),
         CountedIn(p, v, start)' = CountedIn(p, w, start),
         \A r \in Rated(p) : ratedAt'[r] = ratedAt[r]
  PROVE  Full(p, v, start, n)'
BY DEF Full, CountedIn

\* One more in a window that has room, or the first.
LEMMA FullGrows ==
  ASSUME NEW p, NEW w, NEW v, NEW start, NEW r,
         NEW n \in Nat, NEW m, m = n + 1, n < Limit, r \notin CountedIn(p, w, start),
         r \in CountedIn(p, v, start)',
         CountedIn(p, v, start)' = CountedIn(p, w, start) \cup {r},
         \A q \in Rated(p) : ratedAt'[q] = ratedAt[q],
         \/ Full(p, w, start, n)
         \/ n = 0 /\ CountedIn(p, w, start) = {} /\ ratedAt'[r] = start
  PROVE  Full(p, v, start, m)'
<1>0. Limit \in Nat
  BY Positive
<1>1. IsFiniteSet(CountedIn(p, w, start)) /\ Cardinality(CountedIn(p, w, start)) = n
  BY FS_EmptySet DEF Full
<1>2. /\ IsFiniteSet(CountedIn(p, v, start)')
      /\ Cardinality(CountedIn(p, v, start)') = m
  BY <1>1, FS_AddElement
<1>3. \E q \in CountedIn(p, v, start)' : ratedAt'[q] = start
  BY DEF Full, CountedIn
<1> QED
  BY <1>0, <1>2, <1>3 DEF Full

LEMMA StepRate ==
  ASSUME IInv, [Next]_vars, NEW p \in Projects
  PROVE  RateInv(p)'
<1>0. /\ TypeCore /\ RateInv(p) /\ \A r \in Requests : RequestInv(r)
      /\ clock \in Nat /\ clock' \in Nat /\ clock <= clock'
      /\ Hour \in Nat \ {0} /\ Limit \in Nat \ {0}
  <2>1. TypeCore /\ RateInv(p) /\ \A r \in Requests : RequestInv(r)
    BY DEF IInv
  <2> QED
    BY <2>1, Numbers, ClockGrows, Positive
<1>1. ASSUME Rated(p)' = Rated(p), \A r \in Rated(p) : ratedAt'[r] = ratedAt[r], rate'[p] = rate[p]
      PROVE  RateInv(p)'
  BY <1>0, <1>1, RateKeeps
<1> USE DEF requestVars, history
<1>2. CASE Ends \/ Looks \/ (\E k \in Keys : Deletes(k)) \/ Tick \/ UNCHANGED vars
  <2>1. UNCHANGED <<event, ratedAt, rate>>
    BY <1>2 DEF Ends, Looks, Deletes, Tick, vars
  <2> QED
    BY <1>1, <2>1 DEF Rated
<1>3. ASSUME NEW r \in Requests, \/ Passes(r) \/ Finds(r) \/ Outlives(r)
                                 \/ IsDuplicate(r) \/ IsLimited(r)
      PROVE  RateInv(p)'
  <2>1. UNCHANGED <<event, ratedAt, rate>>
    BY <1>3 DEF Passes, Finds, Outlives, IsDuplicate, IsLimited
  <2> QED
    BY <1>1, <2>1 DEF Rated
<1>4. ASSUME NEW r \in Requests, Accepts(r) PROVE RateInv(p)'
  <2>1. /\ ratedAt[r] = Never /\ UNCHANGED <<ratedAt, rate>>
        /\ \A q \in Requests : q # r => event'[q] = event[q]
    BY <1>0, <1>4 DEF Accepts, RequestInv, TypeCore
  <2>2. Rated(p)' = Rated(p)
    BY <2>1 DEF Rated
  <2> QED
    BY <1>1, <2>1, <2>2
<1>5. ASSUME NEW r \in Requests, Opens(r) PROVE RateInv(p)'
  <2>1. PICK start \in Nat : start = clock
    BY <1>0
  <2>2. RequestInv(r) /\ WindowOver(r) /\ Counts(r, [count |-> 1, windowAt |-> clock])
    BY <1>0, <1>5 DEF Opens
  <2>3. CASE event[r].project # p
    <3>1. /\ Rated(p)' = Rated(p) /\ rate'[p] = rate[p]
          /\ \A q \in Rated(p) : ratedAt'[q] = ratedAt[q]
      BY <1>0, <2>2, <2>3, CountsElsewhere
    <3> QED
      BY <1>1, <3>1
  <2>4. CASE event[r].project = p
    <3>0. PICK w \in [Requests -> Nat] : Windows(p, w)
      BY <1>0 DEF RateInv
    <3>a. PICK v \in [Requests -> Nat] : v[r] = start /\ \A q \in Requests : q # r => v[q] = w[q]
      <4>1. [w EXCEPT ![r] = start] \in [Requests -> Nat]
        OBVIOUS
      <4> QED
        BY <4>1
    <3>b. /\ r \notin Rated(p) /\ Rated(p)' = Rated(p) \cup {r}
          /\ ratedAt'[r] = clock /\ clock' = clock
          /\ \A q \in Requests : q # r => ratedAt'[q] = ratedAt[q]
          /\ rate'[p] = [count |-> 1, windowAt |-> clock]
      BY <1>0, <2>2, <2>4, CountsEffect
    <3>1. /\ v \in [Requests -> Nat] /\ v[r] = start /\ \A q \in Rated(p) : v[q] = w[q]
          /\ CountedIn(p, v, start)' = CountedIn(p, w, start) \cup {r}
          /\ \A other : other # start => CountedIn(p, v, other)' = CountedIn(p, w, other)
      BY <3>a, <3>b, CountedAfter
    <3>c. \A q \in Rated(p) : ratedAt'[q] = ratedAt[q]
      BY <3>b DEF Rated
    <3>2. \A q \in Rated(p) : w[q] \in Nat /\ q \in Requests
      BY DEF Rated
    <3>3. \A q \in Rated(p) : w[q] + Hour <= clock
      <4>1. CASE rate[p] = NoRate
        BY <3>0, <4>1 DEF Windows
      <4>2. CASE rate[p] # NoRate
        <5>1. /\ rate[p].windowAt \in 0 .. clock
              /\ \A q \in Rated(p) : w[q] = rate[p].windowAt \/ w[q] + Hour <= rate[p].windowAt
          BY <3>0, <4>2 DEF Windows
        <5>2. clock - rate[p].windowAt >= Hour
          BY <2>2, <2>4, <4>2 DEF WindowOver, RateOf
        <5> QED
          BY <1>0, <3>2, <5>1, <5>2
      <4> QED
        BY <4>1, <4>2
    <3>4. \A q \in Rated(p) : w[q] # start
      BY <1>0, <2>1, <3>2, <3>3
    <3>5. CountedIn(p, w, start) = {}
      BY <3>4 DEF CountedIn
    <3>6. r \in CountedIn(p, v, start)'
      BY <3>1
    <3>7. Full(p, v, start, 1)'
      <4>1. 0 \in Nat /\ 0 < Limit /\ 1 = 0 + 1
        BY <1>0
      <4>2. ratedAt'[r] = start /\ r \notin CountedIn(p, w, start)
        BY <2>1, <3>b, <3>5
      <4> QED
        BY <3>c, <3>1, <3>5, <3>6, <4>1, <4>2, FullGrows
    <3>8. \A q \in Rated(p) : \E n \in Nat : Full(p, v, v[q], n)'
      BY <3>0, <3>c, <3>1, <3>4, FullKeeps DEF Windows
    <3>9. ASSUME NEW q \in Rated(p)'
          PROVE  /\ v[q] <= ratedAt'[q] /\ ratedAt'[q] < v[q] + Hour
                 /\ \E n \in Nat : Full(p, v, v[q], n)'
      <4>1. CASE q = r
        BY <1>0, <2>1, <3>b, <3>1, <3>7, <4>1
      <4>2. CASE q \in Rated(p)
        BY <3>0, <3>c, <3>1, <3>8, <4>2 DEF Windows
      <4> QED
        BY <3>b, <4>1, <4>2
    <3>10. \A q, s \in Rated(p)' : v[q] < v[s] => v[q] + Hour <= v[s]
      BY <1>0, <2>1, <3>0, <3>b, <3>1, <3>2, <3>3 DEF Windows
    <3>11. \A q \in Rated(p)' : v[q] = start \/ v[q] + Hour <= start
      BY <2>1, <3>b, <3>1, <3>3
    <3>12. rate'[p] # NoRate /\ rate'[p].count = 1 /\ rate'[p].windowAt = start
      <4>1. rate'[p].count = 1 /\ rate'[p].windowAt = start
        BY <2>1, <3>b
      <4>2. NoRate.count = 0
        BY DEF NoRate
      <4> QED
        BY <4>1, <4>2
    <3>13. Windows(p, v)'
      BY <1>0, <2>1, <3>b, <3>1, <3>7, <3>9, <3>10, <3>11, <3>12 DEF Windows
    <3> QED
      BY <3>1, <3>13 DEF RateInv
  <2> QED
    BY <2>3, <2>4
<1>6. ASSUME NEW r \in Requests, Joins(r) PROVE RateInv(p)'
  <2>2. /\ RequestInv(r) /\ ~WindowOver(r) /\ ~Refused(r)
        /\ Counts(r, [count |-> RateOf(r).count + 1, windowAt |-> RateOf(r).windowAt])
    BY <1>0, <1>6 DEF Joins
  <2>3. CASE event[r].project # p
    <3>1. /\ Rated(p)' = Rated(p) /\ rate'[p] = rate[p]
          /\ \A q \in Rated(p) : ratedAt'[q] = ratedAt[q]
      BY <1>0, <2>2, <2>3, CountsElsewhere
    <3> QED
      BY <1>1, <3>1
  <2>4. CASE event[r].project = p
    <3>0. PICK w \in [Requests -> Nat] : Windows(p, w)
      BY <1>0 DEF RateInv
    <3>1. /\ rate[p] # NoRate /\ clock - rate[p].windowAt < Hour
          /\ rate[p].count \in 1 .. Limit /\ rate[p].count < Limit
          /\ rate[p].windowAt \in 0 .. clock
      <4>1. rate[p] # NoRate /\ ~(clock - rate[p].windowAt >= Hour) /\ ~(rate[p].count >= Limit)
        BY <2>2, <2>4 DEF WindowOver, Refused, RateOf
      <4>2. rate[p].count \in 1 .. Limit /\ rate[p].windowAt \in 0 .. clock
        BY <3>0, <4>1 DEF Windows
      <4> QED
        BY <1>0, <4>1, <4>2
    <3>2. PICK start \in 0 .. clock : start = rate[p].windowAt
      BY <3>1
    <3>3. PICK n \in 1 .. Limit : n = rate[p].count
      BY <3>1
    <3>4. PICK v \in [Requests -> Nat] : v[r] = start /\ \A q \in Requests : q # r => v[q] = w[q]
      <4>1. [w EXCEPT ![r] = start] \in [Requests -> Nat]
        BY <1>0
      <4> QED
        BY <4>1
    <3>5. /\ r \notin Rated(p) /\ Rated(p)' = Rated(p) \cup {r}
          /\ ratedAt'[r] = clock /\ clock' = clock
          /\ \A q \in Requests : q # r => ratedAt'[q] = ratedAt[q]
          /\ rate'[p] = [count |-> n + 1, windowAt |-> start]
      BY <1>0, <2>2, <2>4, <3>2, <3>3, CountsEffect DEF RateOf
    <3>6. /\ v \in [Requests -> Nat] /\ v[r] = start /\ \A q \in Rated(p) : v[q] = w[q]
          /\ CountedIn(p, v, start)' = CountedIn(p, w, start) \cup {r}
          /\ \A other : other # start => CountedIn(p, v, other)' = CountedIn(p, w, other)
      <4>1. /\ r \notin Rated(p) /\ Rated(p)' = Rated(p) \cup {r}
            /\ v[r] = start /\ \A q \in Requests : q # r => v[q] = w[q]
        BY <3>4, <3>5
      <4>2. v \in [Requests -> Nat]
        BY <3>4
      <4>3. /\ \A q \in Rated(p) : v[q] = w[q]
            /\ CountedIn(p, v, start)' = CountedIn(p, w, start) \cup {r}
            /\ \A other : other # start => CountedIn(p, v, other)' = CountedIn(p, w, other)
        BY <4>1, CountedAfter
      <4> QED
        BY <4>1, <4>2, <4>3
    <3>c. \A q \in Rated(p) : ratedAt'[q] = ratedAt[q]
      BY <3>5 DEF Rated
    <3>7. /\ Full(p, w, start, n)
          /\ \A q \in Rated(p) : w[q] = start \/ w[q] + Hour <= start
      BY <3>0, <3>1, <3>2, <3>3 DEF Windows
    <3>8. Full(p, v, start, n + 1)'
      <4>1. n \in Nat /\ n < Limit
        BY <1>0, <3>1, <3>3
      <4>2. r \notin CountedIn(p, w, start) /\ r \in CountedIn(p, v, start)'
        BY <3>5, <3>6 DEF CountedIn
      <4> QED
        BY <3>c, <3>6, <3>7, <4>1, <4>2, FullGrows
    <3>9. ASSUME NEW q \in Rated(p)
          PROVE  \E m \in Nat : Full(p, v, v[q], m)'
      <4>1. CASE w[q] = start
        BY <1>0, <3>6, <3>8, <4>1
      <4>2. CASE w[q] # start
        BY <3>0, <3>c, <3>6, <4>2, FullKeeps DEF Windows
      <4> QED
        BY <4>1, <4>2
    <3>10. ASSUME NEW q \in Rated(p)'
           PROVE  /\ v[q] <= ratedAt'[q] /\ ratedAt'[q] < v[q] + Hour
                  /\ \E m \in Nat : Full(p, v, v[q], m)'
      <4>1. CASE q = r
        <5>1. start <= clock /\ clock < start + Hour
          BY <1>0, <3>1, <3>2
        <5>2. n + 1 \in Nat
          OBVIOUS
        <5> QED
          BY <3>5, <3>6, <3>8, <4>1, <5>1, <5>2
      <4>2. CASE q \in Rated(p)
        BY <3>0, <3>c, <3>6, <3>9, <4>2 DEF Windows
      <4> QED
        BY <3>5, <4>1, <4>2
    <3>11. \A q \in Rated(p)' : v[q] = start \/ v[q] + Hour <= start
      BY <3>5, <3>6, <3>7
    <3>12. \A q, s \in Rated(p)' : v[q] < v[s] => v[q] + Hour <= v[s]
      <4>1. \A q \in Rated(p) : w[q] \in Nat
        BY DEF Rated
      <4> QED
        BY <1>0, <3>0, <3>5, <3>6, <3>7, <4>1 DEF Windows
    <3>13. /\ rate'[p] # NoRate /\ rate'[p].count = n + 1 /\ rate'[p].windowAt = start
           /\ n + 1 \in 1 .. Limit /\ start \in 0 .. clock'
      <4>1. rate'[p].count = n + 1 /\ rate'[p].windowAt = start
        BY <3>5
      <4>2. NoRate.count = 0
        BY DEF NoRate
      <4>3. n + 1 \in 1 .. Limit /\ start \in 0 .. clock'
        BY <1>0, <3>1, <3>2, <3>3, <3>5
      <4> QED
        BY <4>1, <4>2, <4>3
    <3>14. Windows(p, v)'
      BY <3>8, <3>10, <3>11, <3>12, <3>13 DEF Windows
    <3> QED
      BY <3>6, <3>14 DEF RateInv
  <2> QED
    BY <2>3, <2>4
<1>7. ASSUME NEW d \in Projects, Forgets(d) PROVE RateInv(p)'
  <2>1. UNCHANGED <<event, ratedAt, clock>> /\ rate' = [rate EXCEPT ![d] = NoRate]
    BY <1>7 DEF Forgets
  <2>2. Rated(p)' = Rated(p)
    BY <2>1 DEF Rated
  <2>3. CASE d # p
    BY <1>0, <1>1, <2>1, <2>2, <2>3 DEF TypeCore
  <2>4. CASE d = p
    <3>1. PICK w \in [Requests -> Nat] : Windows(p, w)
      BY <1>0 DEF RateInv
    <3>2. rate'[p] = NoRate
      BY <1>0, <2>1, <2>4 DEF TypeCore
    <3>3. /\ rate[p] # NoRate /\ sweep.now - rate[p].windowAt >= Hour
          /\ sweep.now \in Nat /\ sweep.now <= clock
      BY <1>0, <1>7, <2>4 DEF Forgets, TypeCore, Sweeps
    <3>4. /\ rate[p].windowAt \in 0 .. clock
          /\ \A q \in Rated(p) : w[q] = rate[p].windowAt \/ w[q] + Hour <= rate[p].windowAt
      BY <3>1, <3>3 DEF Windows
    <3>5. \A q \in Rated(p) : w[q] \in Nat
      BY DEF Rated
    <3>6. \A q \in Rated(p) : w[q] + Hour <= clock
      BY <1>0, <3>3, <3>4, <3>5
    <3>7. \A start : CountedIn(p, w, start)' = CountedIn(p, w, start)
      BY <2>2 DEF CountedIn
    <3>8. \A start, n : Full(p, w, start, n) => Full(p, w, start, n)'
      BY <2>1, <3>7 DEF Full
    <3>9. Windows(p, w)'
      BY <2>1, <2>2, <3>1, <3>2, <3>6, <3>8 DEF Windows
    <3> QED
      BY <3>9 DEF RateInv
  <2> QED
    BY <2>3, <2>4
<1> QED
  BY <1>0, <1>2, <1>3, <1>4, <1>5, <1>6, <1>7, NextEffect

\* The windows allow fewer than twice the limit in any hour.
LEMMA HourFits ==
  ASSUME TypeCore, NEW p \in Projects, RateInv(p), NEW t \in 0 .. clock
  PROVE  Cardinality(RatedInHour(p, t)) < 2 * Limit
<1>0. /\ clock \in Nat /\ t \in Nat /\ Hour \in Nat \ {0} /\ Limit \in Nat \ {0}
  BY Numbers, Positive
<1> DEFINE H == RatedInHour(p, t)
<1>1. PICK w \in [Requests -> Nat] : Windows(p, w)
  BY DEF RateInv
<1>2. /\ H \subseteq Rated(p)
      /\ \A q \in Rated(p) : w[q] \in Nat /\ ratedAt[q] \in Nat
      /\ \A q \in H : ratedAt[q] <= t /\ t - ratedAt[q] < Hour
  BY Numbers DEF RatedInHour, Rated
<1>3. /\ \A q \in Rated(p) : w[q] <= ratedAt[q] /\ ratedAt[q] < w[q] + Hour
      /\ \A q, s \in Rated(p) : w[q] < w[s] => w[q] + Hour <= w[s]
      /\ \A q \in Rated(p) : \E n \in Nat : Full(p, w, w[q], n)
  BY <1>1 DEF Windows
<1>4. \A q \in Rated(p) : /\ IsFiniteSet(CountedIn(p, w, w[q]))
                          /\ Cardinality(CountedIn(p, w, w[q])) \in Nat
                          /\ Cardinality(CountedIn(p, w, w[q])) <= Limit
                          /\ \E o \in CountedIn(p, w, w[q]) : ratedAt[o] = w[q]
  BY <1>3 DEF Full
<1> HIDE DEF H
<1>5. CASE H = {}
  BY <1>0, <1>5, FS_EmptySet DEF H
<1>6. ASSUME NEW a \in H, \A q \in H : w[q] = w[a]
      PROVE  Cardinality(H) < 2 * Limit
  <2>1. H \subseteq CountedIn(p, w, w[a])
    BY <1>2, <1>6 DEF CountedIn
  <2>2. a \in Rated(p)
    BY <1>2
  <2>3. Cardinality(H) \in Nat /\ Cardinality(H) <= Cardinality(CountedIn(p, w, w[a]))
    BY <1>4, <2>1, <2>2, FS_Subset, FS_CardinalityType
  <2> QED
    BY <1>0, <1>4, <2>2, <2>3
<1>7. ASSUME NEW a \in H, NEW b \in H, w[a] < w[b]
      PROVE  Cardinality(H) < 2 * Limit
  <2> DEFINE A == CountedIn(p, w, w[a])
             B == CountedIn(p, w, w[b])
  <2>1. a \in Rated(p) /\ b \in Rated(p)
    BY <1>2
  <2>2. w[a] + Hour <= w[b] /\ w[b] <= t
    BY <1>0, <1>2, <1>3, <1>7, <2>1
  <2>3. ASSUME NEW c \in H PROVE w[c] = w[a] \/ w[c] = w[b]
    <3>1. c \in Rated(p)
      BY <1>2
    <3>2. /\ w[c] < w[a] => w[c] + Hour <= w[a]
          /\ w[a] < w[c] => w[a] + Hour <= w[c]
          /\ w[c] < w[b] => w[c] + Hour <= w[b]
          /\ w[b] < w[c] => w[b] + Hour <= w[c]
      BY <1>3, <2>1, <3>1
    <3>3. /\ w[a] \in Nat /\ w[b] \in Nat /\ w[c] \in Nat
          /\ ratedAt[a] \in Nat /\ ratedAt[c] \in Nat
          /\ ratedAt[a] < w[a] + Hour /\ t - ratedAt[a] < Hour
          /\ ratedAt[c] < w[c] + Hour /\ t - ratedAt[c] < Hour
          /\ w[c] <= ratedAt[c] /\ ratedAt[c] <= t
      BY <1>2, <1>3, <2>1, <3>1
    <3> HIDE DEF A, B
    <3> QED
      BY <1>0, <2>2, <3>2, <3>3
  <2>4. PICK o \in A : ratedAt[o] = w[a]
    BY <1>4, <2>1
  <2>5. o \notin H
    <3>1. w[a] \in Nat /\ w[b] \in Nat
      BY <1>2, <2>1
    <3>2. t - w[a] >= Hour
      BY <1>0, <2>2, <3>1
    <3>3. ~(t - ratedAt[o] < Hour)
      BY <1>0, <2>4, <3>1, <3>2
    <3> QED
      BY <1>2, <3>3
  <2>6. H \subseteq (A \ {o}) \cup B
    BY <1>2, <2>3, <2>5 DEF CountedIn
  <2>7. /\ IsFiniteSet(A) /\ IsFiniteSet(B)
        /\ Cardinality(A) \in Nat /\ Cardinality(A) <= Limit
        /\ Cardinality(B) \in Nat /\ Cardinality(B) <= Limit
    BY <1>4, <2>1
  <2> HIDE DEF A, B
  <2>8. IsFiniteSet(A \ {o}) /\ Cardinality(A \ {o}) = Cardinality(A) - 1
    BY <2>4, <2>7, FS_RemoveElement
  <2>9. /\ IsFiniteSet((A \ {o}) \cup B)
        /\ Cardinality((A \ {o}) \cup B)
             = Cardinality(A \ {o}) + Cardinality(B) - Cardinality((A \ {o}) \cap B)
        /\ Cardinality((A \ {o}) \cap B) \in Nat
    <3>1. IsFiniteSet((A \ {o}) \cap B)
      BY <2>7, <2>8, FS_Intersection
    <3> QED
      BY <2>7, <2>8, <3>1, FS_Union, FS_CardinalityType
  <2>10. /\ Cardinality(H) \in Nat
         /\ Cardinality(H) <= Cardinality((A \ {o}) \cup B)
    BY <2>6, <2>9, FS_Subset, FS_CardinalityType
  <2> QED
    BY <1>0, <2>7, <2>8, <2>9, <2>10
<1>8. CASE \E a \in H, b \in H : w[a] # w[b]
  <2>1. PICK a \in H, b \in H : w[a] # w[b]
    BY <1>8
  <2>2. w[a] \in Nat /\ w[b] \in Nat
    BY <1>2
  <2>3. w[a] < w[b] \/ w[b] < w[a]
    BY <2>1, <2>2
  <2> QED
    BY <1>7, <2>3 DEF H
<1>9. CASE \A a \in H, b \in H : w[a] = w[b]
  BY <1>5, <1>6, <1>9 DEF H
<1> QED
  BY <1>8, <1>9

-----------------------------------------------------------------------------
(* Theorems *)

LEMMA InitInv == Init => IInv
<1> SUFFICES ASSUME Init PROVE IInv
  OBVIOUS
<1>0. \A r \in Requests : ~Passed(r) /\ ratedAt[r] = Never /\ pc[r] = "new" /\ reply[r] = ""
  BY DEF Init, Passed
<1>1. TypeCore
  <2>1. NoEntry \in Entries /\ NoRate \in [count : Nat, windowAt : Moments]
    BY DEF NoEntry, NoRate, Entries, Moments
  <2>2. sweep \in Sweeps /\ sweep.now = 0 /\ sweep.pc = "idle"
    BY DEF Init, Sweeps
  <2>3. clock \in 0 .. MaxTime /\ Never \in Past
    <3>1. clock = 0
      BY DEF Init
    <3> QED
      BY <3>1, Positive DEF Past
  <2>4. /\ pc \in [Requests -> Places] /\ reply \in [Requests -> Replies]
        /\ event \in [Requests -> {NoEvent} \cup {WithDefaults(e) : e \in Events}]
        /\ at \in [Requests -> Past] /\ passedAt \in [Requests -> Past]
        /\ ratedAt \in [Requests -> Past] /\ refusedAt \in [Requests -> Past]
    BY <2>3 DEF Init, Places, Replies
  <2>5. /\ seen \in [Requests -> Entries] /\ dedup \in [Keys -> Entries]
        /\ rate \in [Projects -> [count : Nat, windowAt : Moments]]
    BY <2>1 DEF Init
  <2>6. query = NoQuery /\ clock = 0
    BY DEF Init
  <2> QED
    BY <2>2, <2>3, <2>4, <2>5, <2>6 DEF TypeCore
<1>2. \A r \in Requests : RequestInv(r)
  BY <1>0 DEF RequestInv, InCheck
<1>3. \A k \in Keys : KeyInv(k) /\ TableInv(k)
  BY <1>0 DEF Init, KeyInv, TableInv
<1>4. OncePerWindowUnlessSwept /\ DuplicateHasOriginal /\ OriginInv
  BY <1>0, <1>3 DEF OncePerWindowUnlessSwept, DuplicateHasOriginal, OriginInv, SeenInv
<1>5. ASSUME NEW p \in Projects PROVE RateInv(p)
  <2>1. Rated(p) = {} /\ rate[p] = NoRate
    BY <1>0 DEF Rated, Init
  <2>2. [r \in Requests |-> 0] \in [Requests -> Nat]
    OBVIOUS
  <2>3. Windows(p, [r \in Requests |-> 0])
    BY <2>1 DEF Windows
  <2> QED
    BY <2>2, <2>3 DEF RateInv
<1> QED
  BY <1>1, <1>2, <1>3, <1>4, <1>5 DEF IInv

LEMMA StepInv == IInv /\ [Next]_vars => IInv'
<1> SUFFICES ASSUME IInv, [Next]_vars PROVE IInv'
  OBVIOUS
<1>1. Keys' = Keys /\ Projects' = Projects
  BY DEF Keys
<1> QED
  BY <1>1, StepType, StepRequest, StepKey, StepOnce, StepOrigin, StepDuplicate, StepRate DEF IInv

\* The invariant: where a request is tells what it did; what a key has in the table, or has
\* not, bounds when those who passed with it did so; every event that was counted is in a
\* window that was never over its limit.
THEOREM Invariance == Spec => []IInv
BY InitInv, StepInv, PTL DEF Spec

\* Every variable has its type: the entries of both tables lie in the past, no window of
\* the rate table counts more than the limit, and a request compares a real entry.
THEOREM TypeCorrect == Spec => []TypeOK
<1>1. ASSUME IInv PROVE TypeOK
  <2>1. TypeCore /\ clock \in Nat /\ \A r \in Requests : RequestInv(r)
    BY <1>1, Numbers DEF IInv
  <2>2. ASSUME NEW r \in Requests, pc[r] \in {"age", "cas"}
        PROVE  seen[r] # NoEntry /\ EntryOK(seen[r])
    <3>1. /\ seen[r].at \in 0 .. clock /\ seen[r].window = RequestWindow(r)
          /\ event[r].project \in Projects
      BY <2>1, <2>2 DEF RequestInv
    <3>2. NoEntry.at = -1
      BY DEF NoEntry, Never
    <3> QED
      BY <2>1, <3>1, <3>2, Positive DEF EntryOK, RequestWindow
  <2>3. ASSUME NEW k \in Keys PROVE EntryOK(dedup[k])
    BY <1>1, KeyFacts DEF IInv, KeyInv, EntryOK
  <2>4. ASSUME NEW p \in Projects
        PROVE  rate[p] = NoRate \/ (rate[p].count \in 1 .. Limit /\ rate[p].windowAt \in 0 .. clock)
    <3>1. PICK w \in [Requests -> Nat] : Windows(p, w)
      BY <1>1 DEF IInv, RateInv
    <3> QED
      BY <3>1 DEF Windows
  <2>5. sweep \in Sweeps /\ sweep.now \in 0 .. clock
    <3>1. sweep \in Sweeps /\ sweep.now <= clock
      BY <2>1 DEF TypeCore
    <3>2. sweep.now \in Nat
      BY <3>1 DEF Sweeps
    <3> QED
      BY <2>1, <3>1, <3>2
  <2>6. Past \subseteq Times
    <3>1. clock \in 0 .. MaxTime /\ MaxTime \in Nat
      BY <2>1, Positive DEF TypeCore
    <3> QED
      BY <3>1 DEF Past, Times
  <2> QED
    BY <2>1, <2>2, <2>3, <2>4, <2>5, <2>6 DEF TypeOK, TypeCore, Places, Replies, Sweeps
<1> QED
  BY <1>1, Invariance, PTL

\* However many requests meet on a fingerprint, and however the sweep comes between: two pass
\* the check inside a window only when the sweep has deleted an entry that was renewed.
THEOREM OnceUnlessSwept == Spec => []OncePerWindowUnlessSwept
<1>1. IInv => OncePerWindowUnlessSwept
  BY DEF IInv
<1> QED
  BY <1>1, Invariance, PTL

\* An event is turned away as a duplicate only for another that passed less than a window
\* before, unless the entry it had found was swept away under its CompareAndSwap.
THEOREM DuplicateIsOne == Spec => []DuplicateHasOriginal
<1>1. IInv => DuplicateHasOriginal
  BY DEF IInv
<1> QED
  BY <1>1, Invariance, PTL

\* Any hour lets fewer than twice the limit of events of a project through.
THEOREM HourIsBounded == Spec => []UnderTwiceTheHourlyLimit
<1>1. IInv => UnderTwiceTheHourlyLimit
  BY HourFits DEF IInv, UnderTwiceTheHourlyLimit
<1> QED
  BY <1>1, Invariance, PTL
=============================================================================
