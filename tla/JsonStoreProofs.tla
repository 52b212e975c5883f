-------------------------- MODULE JsonStoreProofs --------------------------
(***************************************************************************)
(* The invariants of JsonStore for any records and bounds.  FlushedIsKept  *)
(* and CloseKeepsAll are not inductive: what the file holds follows from   *)
(* what the one goroutine that is writing it had marshalled, and that from *)
(* what was in memory then.                                                *)
(***************************************************************************)
EXTENDS JsonStore, TLAPS

\* Without an excuse, at most one flush is under way, on a file that it has truncated,
\* with nothing that is not in memory; and when none is, the file can be read and has all
\* that was flushed.
OneInFile == \A f, g \in Flushers : InFile(f) /\ InFile(g) => f = g
TruncatedForOne == \A f \in Flushers : pc[f] = "write" => file = NoBytes
MarshalledFromMemory == \A f \in Flushers : InFile(f) => AtLeast(data, marshalled[f])
FileIsGood ==
  (\A f \in Flushers : ~InFile(f)) => file.kind # "cut" /\ AtLeast(file.tables, flushed)

Sound ==
  /\ OneInFile
  /\ TruncatedForOne
  /\ MarshalledFromMemory
  /\ FileIsGood
  /\ process # "refused"
  /\ process = "up" => AtLeast(data, flushed)

FlushInv == ~hurt => Sound

\* Once Close has begun, the memory has all that it found; once it has marshalled, its
\* bytes have it; and when it has returned, so has what is, or will be, in the file.
CloseInv ==
  /\ pc["close"] # "idle" => AtLeast(data, atClose)
  /\ InFile("close") => AtLeast(marshalled["close"], atClose)
  /\ ~hurt /\ pc["close"] = "returned" =>
       AtLeast(IF InFile("loop") THEN marshalled["loop"] ELSE file.tables, atClose)
  /\ ~hurt /\ process = "down" => AtLeast(file.tables, atClose)

IInv == TypeOK /\ FlushInv /\ CloseInv

-----------------------------------------------------------------------------
(* Tables *)

LEMMA AtLeastItself ==
  ASSUME NEW t \in Tables
  PROVE  AtLeast(t, t) /\ AtLeast(t, Empty)
BY JsonStoreAssumption DEF AtLeast, Tables, Empty

LEMMA AtLeastTransitive ==
  ASSUME NEW t \in Tables, NEW u \in Tables, NEW v \in Tables,
         AtLeast(t, u), AtLeast(u, v)
  PROVE  AtLeast(t, v)
BY JsonStoreAssumption DEF AtLeast, Tables

LEMMA EmptyIsTable == Empty \in Tables
BY JsonStoreAssumption DEF Tables, Empty

\* What the tables of a file are.
LEMMA FileTables ==
  ASSUME NEW f \in Files
  PROVE  /\ f.tables \in Tables
         /\ f.kind # "whole" => f.tables = Empty
BY EmptyIsTable DEF Files, Whole, Missing, NoBytes, Cut

LEMMA WholeFile ==
  ASSUME NEW t \in Tables
  PROVE  /\ Whole(t) \in Files
         /\ Whole(t).tables = t
         /\ Whole(t).kind = "whole"
BY DEF Files, Whole

\* Create and Update write a version over an older one.
LEMMA LaterVersion ==
  ASSUME NEW t \in Tables, NEW r \in Records, t[r] < MaxVersion
  PROVE  /\ [t EXCEPT ![r] = t[r] + 1] \in Tables
         /\ AtLeast([t EXCEPT ![r] = t[r] + 1], t)
BY JsonStoreAssumption DEF AtLeast, Tables

-----------------------------------------------------------------------------
(* Type correctness *)

LEMMA InitType == Init => TypeOK
<1> SUFFICES ASSUME Init PROVE TypeOK
  OBVIOUS
<1>1. file \in Files
  BY DEF Init, Files
<1>2. /\ pc \in [Flushers -> {"idle", "closing", "open", "write", "returned"}]
      /\ pc["loop"] = "idle" /\ pc["close"] = "idle"
  BY DEF Init, Flushers
<1>3. marshalled \in [Flushers -> Tables]
  BY EmptyIsTable DEF Init
<1>4. process # "up" => pc = [f \in Flushers |-> "idle"]
  BY DEF Init
<1>5. crashes \in 0..MaxCrashes /\ failures \in 0..MaxFailures
  BY JsonStoreAssumption DEF Init
<1> QED
  BY <1>1, <1>2, <1>3, <1>4, <1>5, EmptyIsTable DEF Init, TypeOK

LEMMA OverwriteType ==
  ASSUME NEW t \in Tables, NEW g \in Overwrite(t)
  PROVE  g \in Files
BY WholeFile DEF Overwrite, Files

LEMMA StepType == TypeOK /\ [Next]_vars => TypeOK'
<1> SUFFICES ASSUME TypeOK, [Next]_vars PROVE TypeOK'
  OBVIOUS
<1> USE DEF bounds, history
<1>1. ASSUME NEW r \in Records, Create(r) PROVE TypeOK'
  <2>1. data' \in Tables
    BY <1>1, JsonStoreAssumption DEF Create, TypeOK, Tables
  <2> QED
    BY <1>1, <2>1 DEF Create, TypeOK
<1>2. ASSUME NEW r \in Records, Update(r) PROVE TypeOK'
  <2>1. data' \in Tables
    BY <1>2, JsonStoreAssumption DEF Update, TypeOK, Tables
  <2> QED
    BY <1>2, <2>1 DEF Update, TypeOK
<1>3. CASE Tick
  BY <1>3 DEF Tick, Marshal, Goto, TypeOK, Flushers
<1>4. CASE LoopReturns
  BY <1>4 DEF LoopReturns, Goto, TypeOK, Flushers
<1>5. CASE CloseBegins
  BY <1>5 DEF CloseBegins, Goto, TypeOK, Flushers
<1>6. CASE CloseFlushes
  BY <1>6 DEF CloseFlushes, Marshal, Goto, TypeOK, Flushers
<1>7. ASSUME NEW f \in Flushers, Opens(f) PROVE TypeOK'
  <2>1. file' \in Files
    BY <1>7 DEF Opens, Truncated, Files, TypeOK
  <2>2. failures' \in 0..MaxFailures /\ hurt' \in BOOLEAN
    <3>1. hurt' = hurt \/ hurt' = TRUE
      BY <1>7 DEF Opens, Fails
    <3>2. hurt' \in BOOLEAN
      BY <3>1 DEF TypeOK
    <3>3. failures' \in 0..MaxFailures
      BY <1>7, JsonStoreAssumption DEF Opens, Fails, TypeOK
    <3> QED
      BY <3>2, <3>3
  <2>3. /\ pc' \in [Flushers -> {"idle", "closing", "open", "write", "returned"}]
        /\ pc'["loop"] # "closing"
        /\ pc'["close"] # "idle" \/ pc'["loop"] = "returned" =>
             pc["close"] # "idle" \/ pc["loop"] = "returned"
    BY <1>7 DEF Opens, Fails, EndFlush, Goto, TypeOK, Flushers
  <2>4. process' = "up"
    <3>1. pc # [g \in Flushers |-> "idle"]
      BY <1>7 DEF Opens
    <3> QED
      BY <1>7, <3>1 DEF Opens, TypeOK
  <2>5. UNCHANGED <<data, stopFlush, marshalled, crashes, flushed, atClose>>
    BY <1>7 DEF Opens
  <2> QED
    BY <2>1, <2>2, <2>3, <2>4, <2>5 DEF TypeOK
<1>8. ASSUME NEW f \in Flushers, Writes(f) PROVE TypeOK'
  <2>1. file' \in Files
    BY <1>8, OverwriteType DEF Writes, Files, TypeOK
  <2>2. failures' \in 0..MaxFailures /\ hurt' \in BOOLEAN /\ flushed' \in Tables
    <3>1. hurt' = hurt \/ hurt' = TRUE
      BY <1>8 DEF Writes, Fails
    <3>2. hurt' \in BOOLEAN
      BY <3>1 DEF TypeOK
    <3>3. failures' \in 0..MaxFailures
      BY <1>8, JsonStoreAssumption DEF Writes, Fails, TypeOK
    <3>4. flushed' \in Tables
      BY <1>8 DEF Writes, TypeOK
    <3> QED
      BY <3>2, <3>3, <3>4
  <2>3. /\ pc' \in [Flushers -> {"idle", "closing", "open", "write", "returned"}]
        /\ pc'["loop"] # "closing"
        /\ pc'["close"] # "idle" \/ pc'["loop"] = "returned" =>
             pc["close"] # "idle" \/ pc["loop"] = "returned"
    BY <1>8 DEF Writes, Fails, EndFlush, Goto, TypeOK, Flushers
  <2>4. process' = "up"
    <3>1. pc # [g \in Flushers |-> "idle"]
      BY <1>8 DEF Writes
    <3> QED
      BY <1>8, <3>1 DEF Writes, TypeOK
  <2>5. UNCHANGED <<data, stopFlush, marshalled, crashes, atClose>>
    BY <1>8 DEF Writes
  <2> QED
    BY <2>1, <2>2, <2>3, <2>4, <2>5 DEF TypeOK
<1>9. CASE Exit
  BY <1>9, EmptyIsTable DEF Exit, Goes, InFile, TypeOK, Flushers
<1>10. CASE Crash
  <2>1. file' \in Files
    BY <1>10 DEF Crash, Files, TypeOK
  <2>2. crashes' \in 0..MaxCrashes /\ hurt' \in BOOLEAN
    BY <1>10, JsonStoreAssumption DEF Crash, TypeOK, InFile
  <2> QED
    BY <1>10, <2>1, <2>2, EmptyIsTable DEF Crash, Goes, TypeOK, Flushers
<1>11. CASE Start
  BY <1>11, FileTables DEF Start, Loads, TypeOK, Flushers
<1>12. CASE Refused \/ UNCHANGED vars
  BY <1>12 DEF Refused, vars, TypeOK
<1> QED
  BY <1>1, <1>2, <1>3, <1>4, <1>5, <1>6, <1>7, <1>8, <1>9, <1>10, <1>11, <1>12 DEF Next
-----------------------------------------------------------------------------
(* The file between two flushes *)

\* The one flush that is under way has an empty file before it.
LEMMA OverwriteAlone ==
  ASSUME TypeOK, Sound, NEW f \in Flushers, pc[f] = "write",
         file' \in Overwrite(marshalled[f])
  PROVE  /\ file' = Whole(marshalled[f])
         /\ marshalled[f] \in Tables
         /\ \A g \in Flushers \ {f} : ~InFile(g)
<1>1. file = NoBytes
  BY DEF Sound, TruncatedForOne
<1>2. marshalled[f] \in Tables
  BY DEF TypeOK
<1>3. \A g \in Flushers \ {f} : ~InFile(g)
  BY DEF Sound, OneInFile, InFile
<1> QED
  BY <1>1, <1>2, <1>3 DEF Overwrite

\* A flush that begins alone, with all that was flushed still in memory.
LEMMA MarshalSound ==
  ASSUME TypeOK, FlushInv, process = "up", NEW f \in Flushers, ~InFile(f), Marshal(f),
         UNCHANGED <<process, data, flushed>>, ~hurt'
  PROVE  Sound'
<1>1. AtLeast(data, flushed)
  BY DEF Marshal, FlushInv, Sound
<1>2. \A g \in Flushers : g # f => ~InFile(g)
  BY DEF Marshal
<1>3. pc' = [pc EXCEPT ![f] = "open"] /\ marshalled' = [marshalled EXCEPT ![f] = data]
  BY DEF Marshal, Goto
<1>4. \A g \in Flushers : InFile(g)' <=> g = f
  BY <1>2, <1>3 DEF InFile, TypeOK
<1>5. pc'[f] = "open" /\ marshalled'[f] = data
  BY <1>3 DEF TypeOK
<1>6. OneInFile' /\ FileIsGood'
  BY <1>4 DEF OneInFile, FileIsGood
<1>7. TruncatedForOne'
  <2> SUFFICES ASSUME NEW g \in Flushers, pc'[g] = "write" PROVE FALSE
    BY DEF TruncatedForOne
  <2> QED
    BY <1>4, <1>5 DEF InFile
<1>8. MarshalledFromMemory'
  <2> SUFFICES ASSUME NEW g \in Flushers, InFile(g)' PROVE AtLeast(data, marshalled'[g])
    BY DEF MarshalledFromMemory, AtLeast
  <2>1. marshalled'[g] = data /\ data \in Tables
    BY <1>4, <1>5 DEF TypeOK
  <2> QED
    BY <2>1, AtLeastItself
<1> QED
  BY <1>1, <1>6, <1>7, <1>8 DEF Sound, AtLeast

LEMMA StepFlush ==
  ASSUME TypeOK, TypeOK', FlushInv, [Next]_vars
  PROVE  FlushInv'
<1> SUFFICES ASSUME ~hurt' PROVE Sound'
  BY DEF FlushInv
<1> USE DEF bounds, history
<1>1. ASSUME NEW r \in Records, Create(r) \/ Update(r) PROVE Sound'
  <2>1. data' \in Tables /\ AtLeast(data', data)
    <3>1. data' = [data EXCEPT ![r] = data[r] + 1]
      BY <1>1 DEF Create, Update
    <3>2. data[r] < MaxVersion
      BY <1>1, JsonStoreAssumption DEF Create, Update
    <3> QED
      BY <3>1, <3>2, LaterVersion DEF TypeOK
  <2>2. UNCHANGED <<process, file, pc, marshalled, flushed, hurt>> /\ process = "up"
    BY <1>1 DEF Create, Update
  <2>3. Sound
    BY <2>2 DEF FlushInv
  <2>4. MarshalledFromMemory'
    <3> SUFFICES ASSUME NEW f \in Flushers, InFile(f) PROVE AtLeast(data', marshalled[f])
      BY <2>2 DEF MarshalledFromMemory, InFile, AtLeast
    <3>1. AtLeast(data, marshalled[f])
      BY <2>3 DEF Sound, MarshalledFromMemory
    <3> QED
      BY <2>1, <3>1, AtLeastTransitive DEF TypeOK
  <2>5. AtLeast(data', flushed)
    BY <2>1, <2>2, <2>3, AtLeastTransitive DEF Sound, TypeOK
  <2>6. OneInFile' /\ TruncatedForOne' /\ FileIsGood'
    BY <2>2, <2>3 DEF Sound, OneInFile, TruncatedForOne, FileIsGood, InFile, AtLeast
  <2> QED
    BY <2>2, <2>3, <2>4, <2>5, <2>6 DEF Sound, AtLeast
<1>2. CASE Tick
  BY <1>2, MarshalSound DEF Tick, Flushers, InFile
<1>3. CASE LoopReturns \/ CloseBegins
  <2>1. UNCHANGED <<process, data, file, marshalled, flushed, hurt>>
    BY <1>3 DEF LoopReturns, CloseBegins
  <2>2. \A f \in Flushers : /\ InFile(f)' <=> InFile(f)
                            /\ pc'[f] = "write" <=> pc[f] = "write"
    BY <1>3 DEF LoopReturns, CloseBegins, Goto, InFile, TypeOK, Flushers
  <2>3. Sound
    BY <2>1 DEF FlushInv
  <2> QED
    BY <2>1, <2>2, <2>3
       DEF Sound, OneInFile, TruncatedForOne, MarshalledFromMemory, FileIsGood, AtLeast
<1>4. CASE CloseFlushes
  <2>1. process = "up" /\ ~InFile("close")
    BY <1>4 DEF CloseFlushes, TypeOK, Flushers, InFile
  <2> QED
    BY <1>4, <2>1, MarshalSound DEF CloseFlushes, Flushers
<1>5. ASSUME NEW f \in Flushers, Opens(f) PROVE Sound'
  <2>1. /\ pc[f] = "open" /\ file' = NoBytes /\ pc' = [pc EXCEPT ![f] = "write"]
        /\ UNCHANGED <<process, data, marshalled, flushed, hurt>>
    BY <1>5 DEF Opens, Fails, Truncated, Goto
  <2>2. Sound
    BY <2>1 DEF FlushInv
  <2>3. \A g \in Flushers : InFile(g)' <=> InFile(g)
    BY <2>1 DEF InFile, TypeOK
  <2>4. InFile(f)
    BY <2>1 DEF InFile
  <2>5. TruncatedForOne'
    BY <2>1 DEF TruncatedForOne
  <2> QED
    BY <2>1, <2>2, <2>3, <2>4, <2>5
       DEF Sound, OneInFile, MarshalledFromMemory, FileIsGood, AtLeast
<1>6. ASSUME NEW f \in Flushers, Writes(f) PROVE Sound'
  <2>1. /\ pc[f] = "write" /\ file' \in Overwrite(marshalled[f]) /\ EndFlush(f)
        /\ flushed' = marshalled[f]
        /\ UNCHANGED <<process, data, hurt>>
    BY <1>6 DEF Writes, Fails
  <2>2. Sound
    BY <2>1 DEF FlushInv
  <2>3. /\ file' = Whole(marshalled[f]) /\ marshalled[f] \in Tables
        /\ \A g \in Flushers \ {f} : ~InFile(g)
    BY <2>1, <2>2, OverwriteAlone
  <2>4. \A g \in Flushers : ~InFile(g)'
    BY <2>1, <2>3 DEF EndFlush, Goto, InFile, TypeOK
  <2>5. file'.kind # "cut" /\ AtLeast(file'.tables, flushed')
    BY <2>1, <2>3, WholeFile, AtLeastItself
  <2>6. AtLeast(data', flushed')
    BY <2>1, <2>2 DEF Sound, MarshalledFromMemory, InFile
  <2>7. OneInFile' /\ TruncatedForOne' /\ MarshalledFromMemory'
    BY <2>4 DEF OneInFile, TruncatedForOne, MarshalledFromMemory, InFile
  <2> QED
    BY <2>1, <2>2, <2>5, <2>6, <2>7 DEF Sound, FileIsGood, AtLeast
<1>7. CASE Exit \/ Crash
  <2>1. /\ ~hurt /\ file' = file /\ process' = "down" /\ flushed' = flushed
        /\ pc' = [f \in Flushers |-> "idle"]
        /\ \A f \in Flushers : ~InFile(f)
    BY <1>7 DEF Exit, Crash, Goes, InFile, Flushers
  <2>2. \A f \in Flushers : ~InFile(f)' /\ pc'[f] # "write"
    BY <2>1 DEF InFile
  <2>3. file.kind # "cut" /\ AtLeast(file.tables, flushed)
    BY <2>1 DEF FlushInv, Sound, FileIsGood
  <2> QED
    BY <2>1, <2>2, <2>3
       DEF Sound, OneInFile, TruncatedForOne, MarshalledFromMemory, FileIsGood, AtLeast
<1>8. CASE Start
  <2>1. /\ process = "down" /\ data' = file.tables
        /\ UNCHANGED <<file, pc, marshalled, flushed, hurt>>
    BY <1>8 DEF Start
  <2>2. \A f \in Flushers : ~InFile(f) /\ pc[f] # "write"
    BY <2>1 DEF TypeOK, InFile
  <2>3. file.kind # "cut" /\ AtLeast(file.tables, flushed)
    BY <2>1, <2>2 DEF FlushInv, Sound, FileIsGood
  <2>4. process' = "up"
    BY <1>8, <2>3 DEF Start, Loads
  <2> QED
    BY <2>1, <2>2, <2>3, <2>4
       DEF Sound, OneInFile, TruncatedForOne, MarshalledFromMemory, FileIsGood, InFile, AtLeast
<1>9. CASE Refused \/ UNCHANGED vars
  <2>1. UNCHANGED vars
    BY <1>9 DEF Refused
  <2>2. Sound
    BY <2>1 DEF FlushInv, vars
  <2> QED
    BY <2>1, <2>2
       DEF vars, Sound, OneInFile, TruncatedForOne, MarshalledFromMemory, FileIsGood, InFile,
           AtLeast
<1> QED
  BY <1>1, <1>2, <1>3, <1>4, <1>5, <1>6, <1>7, <1>8, <1>9 DEF Next

LEMMA StepClose ==
  ASSUME TypeOK, TypeOK', FlushInv, CloseInv, [Next]_vars
  PROVE  CloseInv'
<1> USE DEF bounds, history
<1>1. ASSUME NEW r \in Records, Create(r) \/ Update(r) PROVE CloseInv'
  <2>1. data' \in Tables /\ AtLeast(data', data)
    <3>1. data' = [data EXCEPT ![r] = data[r] + 1]
      BY <1>1 DEF Create, Update
    <3>2. data[r] < MaxVersion
      BY <1>1, JsonStoreAssumption DEF Create, Update
    <3> QED
      BY <3>1, <3>2, LaterVersion DEF TypeOK
  <2>2. UNCHANGED <<process, file, pc, marshalled, atClose, hurt>>
    BY <1>1 DEF Create, Update
  <2>3. AtLeast(data, atClose) => AtLeast(data', atClose)
    BY <2>1, AtLeastTransitive DEF TypeOK
  <2> QED
    BY <2>2, <2>3 DEF CloseInv, InFile, AtLeast
<1>2. CASE Tick
  <2>1. /\ process = "up" /\ UNCHANGED <<process, data, file, atClose>>
        /\ pc' = [pc EXCEPT !["loop"] = "open"]
        /\ marshalled' = [marshalled EXCEPT !["loop"] = data]
    BY <1>2 DEF Tick, Marshal, Goto
  <2>2. /\ pc'["close"] = pc["close"] /\ marshalled'["close"] = marshalled["close"]
        /\ pc'["loop"] = "open" /\ marshalled'["loop"] = data
    BY <2>1 DEF TypeOK, Flushers
  <2> QED
    BY <2>1, <2>2 DEF CloseInv, InFile, AtLeast
<1>3. CASE LoopReturns
  <2>1. /\ UNCHANGED <<process, data, file, marshalled, atClose, hurt>>
        /\ pc["loop"] = "idle" /\ pc'["loop"] = "returned" /\ pc'["close"] = pc["close"]
    BY <1>3 DEF LoopReturns, Goto, TypeOK, Flushers
  <2> QED
    BY <2>1 DEF CloseInv, InFile, AtLeast
<1>4. CASE CloseBegins
  <2>1. /\ process = "up" /\ process' = "up" /\ data' = data /\ atClose' = data
        /\ pc'["close"] = "closing"
    BY <1>4 DEF CloseBegins, Goto, TypeOK, Flushers
  <2>2. AtLeast(data, data)
    BY AtLeastItself DEF TypeOK
  <2> QED
    BY <2>1, <2>2 DEF CloseInv, InFile, AtLeast
<1>5. CASE CloseFlushes
  <2>1. /\ process = "up" /\ UNCHANGED <<process, data, atClose>>
        /\ pc["close"] = "closing" /\ pc'["close"] = "open"
        /\ marshalled'["close"] = data
    BY <1>5 DEF CloseFlushes, Marshal, Goto, TypeOK, Flushers
  <2> QED
    BY <2>1 DEF CloseInv, InFile, AtLeast
<1>6. ASSUME NEW f \in Flushers, Opens(f) PROVE CloseInv'
  <2>1. process' = "up"
    <3>1. pc # [g \in Flushers |-> "idle"]
      BY <1>6 DEF Opens
    <3> QED
      BY <1>6, <3>1 DEF Opens, TypeOK
  <2>2. UNCHANGED <<data, marshalled, atClose>> /\ pc[f] = "open"
    BY <1>6 DEF Opens
  <2>3. hurt' \/ (pc' = [pc EXCEPT ![f] = "write"] /\ hurt' = hurt)
    BY <1>6 DEF Opens, Fails, Goto
  <2>4. /\ pc'["close"] # "idle" => pc["close"] # "idle"
        /\ InFile("close")' => InFile("close")
    BY <1>6 DEF Opens, Fails, EndFlush, Goto, InFile, TypeOK, Flushers
  <2>5. CASE hurt'
    BY <2>1, <2>2, <2>4, <2>5 DEF CloseInv, AtLeast
  <2>6. CASE pc' = [pc EXCEPT ![f] = "write"] /\ hurt' = hurt
    <3>1. pc'["close"] = "returned" => pc["close"] = "returned" /\ f = "loop"
      BY <2>6 DEF TypeOK, Flushers
    <3>2. f = "loop" => InFile("loop") /\ InFile("loop")'
      BY <2>2, <2>6 DEF TypeOK, Flushers, InFile
    <3> QED
      BY <2>1, <2>2, <2>4, <2>6, <3>1, <3>2 DEF CloseInv, AtLeast
  <2> QED
    BY <2>3, <2>5, <2>6
<1>7. ASSUME NEW f \in Flushers, Writes(f) PROVE CloseInv'
  <2>1. process' = "up"
    <3>1. pc # [g \in Flushers |-> "idle"]
      BY <1>7 DEF Writes
    <3> QED
      BY <1>7, <3>1 DEF Writes, TypeOK
  <2>2. UNCHANGED <<data, marshalled, atClose>> /\ pc[f] = "write" /\ EndFlush(f)
    BY <1>7 DEF Writes, Fails
  <2>3. hurt' \/ (file' \in Overwrite(marshalled[f]) /\ hurt' = hurt)
    BY <1>7 DEF Writes, Fails
  <2>4. /\ pc'["close"] # "idle" => pc["close"] # "idle"
        /\ ~InFile(f)'
        /\ InFile("close")' => InFile("close")
    BY <2>2 DEF EndFlush, Goto, InFile, TypeOK, Flushers
  <2>5. CASE hurt'
    BY <2>1, <2>2, <2>4, <2>5 DEF CloseInv, AtLeast
  <2>6. CASE ~hurt' /\ file' \in Overwrite(marshalled[f]) /\ hurt' = hurt
    <3>1. /\ file' = Whole(marshalled[f]) /\ marshalled[f] \in Tables
          /\ \A g \in Flushers \ {f} : ~InFile(g)
      BY <2>2, <2>6, OverwriteAlone DEF FlushInv
    <3>2. file'.tables = marshalled[f]
      BY <3>1, WholeFile
    <3>3. ~InFile("loop")'
      BY <2>2, <2>4, <3>1 DEF EndFlush, Goto, InFile, TypeOK, Flushers
    <3>4. InFile(f)
      BY <2>2 DEF InFile
    <3>5. pc'["close"] = "returned" => AtLeast(marshalled[f], atClose)
      <4>1. CASE f = "close"
        BY <3>4, <4>1 DEF CloseInv
      <4>2. CASE f = "loop"
        <5>1. pc'["close"] = pc["close"]
          BY <2>2, <4>2 DEF EndFlush, Goto, TypeOK, Flushers
        <5> QED
          BY <2>6, <3>4, <4>2, <5>1 DEF CloseInv
      <4> QED
        BY <4>1, <4>2 DEF Flushers
    <3> QED
      BY <2>1, <2>2, <2>4, <3>2, <3>3, <3>5 DEF CloseInv, AtLeast
  <2> QED
    BY <2>3, <2>5, <2>6
<1>8. CASE Exit
  <2>1. /\ pc["close"] = "returned" /\ file' = file /\ atClose' = atClose
        /\ hurt' \/ (~hurt /\ ~InFile("loop"))
        /\ pc' = [f \in Flushers |-> "idle"]
    BY <1>8 DEF Exit, Goes
  <2>2. pc'["close"] = "idle"
    BY <2>1 DEF Flushers
  <2> QED
    BY <2>1, <2>2 DEF CloseInv, InFile, AtLeast
<1>9. CASE Crash
  <2>1. atClose' = Empty /\ pc'["close"] = "idle"
    BY <1>9 DEF Crash, Goes, Flushers
  <2>2. AtLeast(file'.tables, Empty)
    BY FileTables, AtLeastItself DEF TypeOK
  <2> QED
    BY <2>1, <2>2 DEF CloseInv, InFile, AtLeast
<1>10. CASE Start
  <2>1. /\ process = "down" /\ process' # "down" /\ UNCHANGED pc
    BY <1>10 DEF Start, Loads
  <2>2. pc["close"] = "idle"
    BY <2>1 DEF TypeOK, Flushers
  <2> QED
    BY <2>1, <2>2 DEF CloseInv, InFile
<1>11. CASE Refused \/ UNCHANGED vars
  BY <1>11 DEF Refused, vars, CloseInv, InFile, AtLeast
<1> QED
  BY <1>1, <1>2, <1>3, <1>4, <1>5, <1>6, <1>7, <1>8, <1>9, <1>10, <1>11 DEF Next

-----------------------------------------------------------------------------
(* The theorems *)

LEMMA InitInv == Init => IInv
<1> SUFFICES ASSUME Init PROVE IInv
  OBVIOUS
<1>1. TypeOK
  BY InitType
<1>2. \A f \in Flushers : ~InFile(f) /\ pc[f] = "idle"
  BY DEF Init, InFile
<1>3. /\ file.kind # "cut" /\ file.tables = Empty /\ process = "down"
      /\ flushed = Empty /\ atClose = Empty
  BY DEF Init, Missing
<1>4. AtLeast(Empty, Empty)
  BY AtLeastItself, EmptyIsTable
<1>5. FlushInv
  BY <1>2, <1>3, <1>4
     DEF FlushInv, Sound, OneInFile, TruncatedForOne, MarshalledFromMemory, FileIsGood
<1>6. CloseInv
  BY <1>2, <1>3, <1>4 DEF CloseInv, Flushers
<1> QED
  BY <1>1, <1>5, <1>6 DEF IInv

LEMMA StepInv == IInv /\ [Next]_vars => IInv'
BY StepType, StepFlush, StepClose DEF IInv

THEOREM Invariance == Spec => []IInv
BY InitInv, StepInv, PTL DEF Spec

\* The store, its file and its flushers have their types, whatever the records: a flush
\* never runs in a process that is not up, and the loop ends only once Close has begun.
THEOREM TypeCorrect == Spec => []TypeOK
<1>1. IInv => TypeOK
  BY DEF IInv
<1> QED
  BY <1>1, Invariance, PTL

\* What flush has written survives every later exit, crash and start, and loadFromFile
\* takes the file, as long as no two flushes have met and none has failed or been cut off.
THEOREM FlushedSurvives == Spec => []FlushedIsKept
<1>1. IInv => FlushedIsKept
  BY DEF IInv, FlushInv, Sound, FlushedIsKept
<1> QED
  BY <1>1, Invariance, PTL

\* When the process has ended by Close, the file has all that was stored before it, with
\* the same excuses.
THEOREM CloseSaves == Spec => []CloseKeepsAll
<1>1. IInv => CloseKeepsAll
  BY DEF IInv, CloseInv, CloseKeepsAll
<1> QED
  BY <1>1, Invariance, PTL
=============================================================================
