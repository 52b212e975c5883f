----------------------------- MODULE JsonStore -----------------------------
(***************************************************************************)
(* The JSON store, store/json.go: tables in memory, written to one file    *)
(* whole, by the flush loop at every tick and by Close at the shutdown,    *)
(* and read again at the next start.                                       *)
(*                                                                         *)
(* flush marshals under the lock and writes without it, so the loop and    *)
(* Close can be writing at once.  os.WriteFile truncates the file when it  *)
(* opens it and then writes from its beginning: two steps.                 *)
(*                                                                         *)
(* A definition named Slip... is the one below it as a plausible bug would *)
(* have it; the specification does not use it.                             *)
(***************************************************************************)
EXTENDS Integers, FiniteSets

CONSTANTS
  Records,      \* the ids of events, tasks and reports, all tables together
  MaxVersion,   \* bound: how often a record is written
  MaxCrashes,   \* bound: deaths of the process
  MaxFailures   \* bound: file operations that fail

ASSUME JsonStoreAssumption ==
  /\ IsFiniteSet(Records)
  /\ MaxVersion \in Nat \ {0}
  /\ MaxCrashes \in Nat /\ MaxFailures \in Nat

\* The goroutines that flush: flushLoop and the one that calls Close.
Flushers == {"loop", "close"}

VARIABLES
  process,    \* "down", "up", or "refused": NewJSONStore returned an error
  data,       \* the tables: the version of each record, 0 where there is none
  file,       \* the file on disk
  stopFlush,  \* the channel is closed
  pc,         \* where each flusher is
  marshalled, \* the bytes it is about to write, as the tables they stand for
  crashes, failures,
  \* History, read by the properties only.
  flushed,    \* the tables as of the last flush that returned nil
  atClose,    \* the tables when Close was called
  hurt        \* flushes overlapped, or one failed or was cut off by a crash,
              \* and none that has all in memory has begun alone since

bounds == <<crashes, failures>>
history == <<flushed, atClose, hurt>>
vars == <<process, data, file, stopFlush, pc, marshalled, bounds, history>>

-----------------------------------------------------------------------------
Tables == [Records -> 0..MaxVersion]
Empty == [r \in Records |-> 0]

\* What can be found on disk; "cut" is a text that is no JSON.
Whole(tables) == [kind |-> "whole", tables |-> tables]
Missing == [kind |-> "missing", tables |-> Empty]
NoBytes == [kind |-> "empty", tables |-> Empty]
Cut == [kind |-> "cut", tables |-> Empty]
Files == {Whole(t) : t \in Tables} \cup {Missing, NoBytes, Cut}

AtLeast(t, u) == \A r \in Records : t[r] >= u[r]

Init ==
  /\ process = "down"
  /\ data = Empty
  /\ file = Missing
  /\ stopFlush = FALSE
  /\ pc = [f \in Flushers |-> "idle"]
  /\ marshalled = [f \in Flushers |-> Empty]
  /\ crashes = 0 /\ failures = 0
  /\ flushed = Empty
  /\ atClose = Empty
  /\ hurt = FALSE

Goto(f, place) == pc' = [pc EXCEPT ![f] = place]

-----------------------------------------------------------------------------
(* The tables *)

\* CreateEvent, CreateTask; an id that exists is an error.
Create(r) ==
  /\ process = "up"
  /\ data[r] = 0
  /\ data' = [data EXCEPT ![r] = 1]
  /\ UNCHANGED <<process, file, stopFlush, pc, marshalled, bounds, history>>

\* UpdateEvent, UpdateTask; an id that does not exist is an error.  SaveReport.
Update(r) ==
  /\ process = "up"
  /\ data[r] \in 1..(MaxVersion - 1)
  /\ data' = [data EXCEPT ![r] = @ + 1]
  /\ UNCHANGED <<process, file, stopFlush, pc, marshalled, bounds, history>>

-----------------------------------------------------------------------------
(* flush *)

\* The loop goes on to its next tick, Close returns.
EndFlush(f) == Goto(f, IF f = "loop" THEN "idle" ELSE "returned")

InFile(f) == pc[f] \in {"open", "write"}

\* json.Marshal under the read lock.  A flush that begins alone writes the file anew, and
\* with it all that is in memory still.
Marshal(f) ==
  /\ marshalled' = [marshalled EXCEPT ![f] = data]
  /\ Goto(f, "open")
  /\ hurt' = \/ \E g \in Flushers \ {f} : InFile(g)
             \/ hurt /\ ~AtLeast(data, flushed)

Fails(f) ==
  /\ failures < MaxFailures
  /\ failures' = failures + 1
  /\ hurt' = TRUE
  /\ EndFlush(f)

\* Slip: the file is opened without O_TRUNC.
SlipTruncated == file

Truncated == NoBytes

\* os.WriteFile: open, ...
Opens(f) ==
  /\ pc[f] = "open"
  /\ \/ /\ file' = Truncated
        /\ Goto(f, "write")
        /\ UNCHANGED <<failures, hurt>>
     \/ /\ Fails(f)
        /\ UNCHANGED file
  /\ UNCHANGED <<process, data, stopFlush, marshalled, crashes, flushed, atClose>>

\* What a write from the beginning leaves: the end of a longer text stays.
Overwrite(tables) ==
  {Whole(tables)} \cup IF file \in {NoBytes, Whole(tables)} THEN {} ELSE {Cut}

\* ... and write.
Writes(f) ==
  /\ pc[f] = "write"
  /\ \/ /\ file' \in Overwrite(marshalled[f])
        /\ EndFlush(f)
        /\ flushed' = marshalled[f]
        /\ UNCHANGED <<failures, hurt>>
     \/ /\ Fails(f)
        /\ file' = Cut
        /\ UNCHANGED flushed
  /\ UNCHANGED <<process, data, stopFlush, marshalled, crashes, atClose>>

\* flushLoop: the ticker fires; select may take it even when stopFlush is closed.
Tick ==
  /\ process = "up"
  /\ pc["loop"] = "idle"
  /\ Marshal("loop")
  /\ UNCHANGED <<process, data, file, stopFlush, bounds, flushed, atClose>>

LoopReturns ==
  /\ process = "up"
  /\ stopFlush
  /\ pc["loop"] = "idle"
  /\ Goto("loop", "returned")
  /\ UNCHANGED <<process, data, file, stopFlush, marshalled, bounds, history>>

\* Slip: Close stops the loop and leaves the flush to it.
SlipCloseFlushes ==
  /\ pc["close"] = "closing"
  /\ Goto("close", "returned")
  /\ UNCHANGED <<process, data, file, stopFlush, marshalled, bounds, history>>

\* Slip: Close leaves the channel open.
SlipCloseBegins ==
  /\ process = "up"
  /\ pc["close"] = "idle"
  /\ Goto("close", "closing")
  /\ atClose' = data
  /\ UNCHANGED <<process, data, file, stopFlush, marshalled, bounds, flushed, hurt>>

\* Close, deferred in main: it closes the channel, ...
CloseBegins ==
  /\ process = "up"
  /\ pc["close"] = "idle"
  /\ stopFlush' = TRUE
  /\ Goto("close", "closing")
  /\ atClose' = data
  /\ UNCHANGED <<process, data, file, marshalled, bounds, flushed, hurt>>

\* ... and flushes without a wait for the loop.
CloseFlushes ==
  /\ pc["close"] = "closing"
  /\ Marshal("close")
  /\ UNCHANGED <<process, data, file, stopFlush, bounds, flushed, atClose>>

-----------------------------------------------------------------------------
(* The process *)

Goes ==
  /\ process' = "down"
  /\ data' = Empty
  /\ stopFlush' = FALSE
  /\ pc' = [f \in Flushers |-> "idle"]
  /\ marshalled' = [f \in Flushers |-> Empty]

\* main returns after Close; what the loop had still to write is not written.
Exit ==
  /\ pc["close"] = "returned"
  /\ Goes
  /\ hurt' = (hurt \/ InFile("loop"))
  /\ UNCHANGED <<file, bounds, flushed, atClose>>

\* It dies; a write that is under way may be cut.
Crash ==
  /\ process = "up"
  /\ crashes < MaxCrashes
  /\ crashes' = crashes + 1
  /\ Goes
  /\ file' \in {file} \cup {Cut : f \in {g \in Flushers : pc[g] = "write"}}
  /\ hurt' = (hurt \/ \E f \in Flushers : InFile(f))
  /\ atClose' = Empty
  /\ UNCHANGED <<failures, flushed>>

\* loadFromFile; an empty file is taken for a new store.
Loads ==
  \/ file.kind # "cut" /\ process' = "up"
  \/ file.kind = "cut" /\ process' = "refused"

Start ==
  /\ process = "down"
  /\ Loads
  /\ data' = file.tables
  /\ UNCHANGED <<file, stopFlush, pc, marshalled, bounds, history>>

\* Nothing starts without its file being put right by hand.
Refused == process = "refused" /\ UNCHANGED vars

Next ==
  \/ \E r \in Records : Create(r) \/ Update(r)
  \/ Tick
  \/ LoopReturns
  \/ CloseBegins
  \/ CloseFlushes
  \/ \E f \in Flushers : Opens(f) \/ Writes(f)
  \/ Exit
  \/ Crash
  \/ Start
  \/ Refused

Spec == Init /\ [][Next]_vars

-----------------------------------------------------------------------------
(* Properties *)

TypeOK ==
  /\ process \in {"down", "up", "refused"}
  /\ data \in Tables
  /\ file \in Files
  /\ stopFlush \in BOOLEAN
  /\ pc \in [Flushers -> {"idle", "closing", "open", "write", "returned"}]
  /\ pc["loop"] # "closing"
  /\ marshalled \in [Flushers -> Tables]
  /\ process # "up" => pc = [f \in Flushers |-> "idle"]
  /\ pc["close"] # "idle" \/ pc["loop"] = "returned" => stopFlush
  /\ crashes \in 0..MaxCrashes /\ failures \in 0..MaxFailures
  /\ flushed \in Tables /\ atClose \in Tables /\ hurt \in BOOLEAN

\* What a flush has written is there after every restart, and the store opens again,
\* however the process ended; only two flushes at once, one that failed, and one that
\* a crash cut off are an excuse.
FlushedIsKept ==
  ~hurt =>
    /\ process # "refused"
    /\ process = "up" => AtLeast(data, flushed)

\* What was stored before Close is in the file when the process has ended.  The test
\* TestJSONStore_Persistence says so of every Close; it holds unless Close, or the end
\* of the process, meets a flush of the loop.
CloseKeepsAll ==
  process = "down" /\ ~hurt => AtLeast(file.tables, atClose)
=============================================================================
