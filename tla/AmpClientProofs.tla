--------------------------- MODULE AmpClientProofs ---------------------------
(***************************************************************************)
(* Proofs about AmpClient, for any calls, names and sizes: its types and   *)
(* stages, what Execute leaves behind, when the map that the calls share   *)
(* is safe, and that what Execute returns is what amp said.                *)
(***************************************************************************)
EXTENDS AmpClient, TLAPS

Places == {"new", "merge", "put", "create", "encode", "start", "scan", "wait", "kill"}
            \cup Ended
WithFile == {"encode", "start", "scan", "wait", "kill"}
WithChild == {"scan", "wait", "kill"}
Lines == [kind : Kinds, n : Nat]
Results == [isError : BOOLEAN, result : Nat, error : Nat]

MapTypes ==
  /\ env \subseteq Keys
  /\ inside \in [Calls -> {"out", "reading", "writing"}]
  /\ raced \in BOOLEAN /\ alive \in BOOLEAN
  /\ todo \in [Calls -> SUBSET Keys]
  /\ key \in [Calls -> Keys \cup {NoKey}]
  /\ first \subseteq Calls /\ merged \in BOOLEAN

RunTypes ==
  /\ pc \in [Calls -> Places]
  /\ file \in [Calls -> BOOLEAN]
  /\ child \in [Calls -> {"none", "running", "reaped"} \cup Exited]
  /\ heir \in [Calls -> BOOLEAN]
  /\ late \in [Calls -> BOOLEAN]
  /\ pipe \in [Calls -> Seq(Lines)]
  /\ result \in [Calls -> Results]
  /\ said \in [Calls -> Results]
  /\ cut \in [Calls -> BOOLEAN]
  /\ lines \in 0 .. MaxLines

\* What a call has at each place.
Stage(c) ==
  /\ file[c] <=> pc[c] \in WithFile
  /\ child[c] \in {"running"} \cup Exited <=> pc[c] \in WithChild
  /\ child[c] = "none" => pipe[c] = <<>> /\ ~heir[c]
  /\ child[c] = "reaped" => pc[c] \in Ended
  /\ Len(pipe[c]) <= PipeSize
  /\ inside[c] = "writing" => pc[c] = "put"
  /\ inside[c] = "reading" => pc[c] = "encode"
  /\ key[c] # NoKey <=> pc[c] = "put"

\* What a call is done with is in the map, and all the names are once a call has
\* completed it; then only the calls that had begun before still put some.
Filled(names) == raced \/ names \subseteq env
Done(c) == Keys \ (todo[c] \cup {key[c]})
Beyond(c) == pc[c] \notin {"new", "merge", "put"}
TwoFirst == \E c, d \in first : c # d

MapInv ==
  /\ \A c \in Calls : pc[c] # "new" => Filled(Done(c))
  /\ merged => Filled(Keys) /\ \E d \in first : Beyond(d)
  /\ \A c \in Calls \ first : /\ pc[c] # "new" => merged
                              /\ pc[c] = "put" => raced
  /\ raced \/ ~alive => TwoFirst

\* The results that the lines of a pipe lead to, one after the other, up to the end or
\* to a line that is too long.
Leads(f, lns, r, s, long) ==
  /\ f[0] = r
  /\ \A i \in 1 .. Len(lns) : f[i] = After(f[i - 1], lns[i])
  /\ IF long THEN \E j \in 1 .. Len(lns) : /\ lns[j].kind = "long" /\ f[j - 1] = s
                                           /\ \A i \in 1 .. (j - 1) : lns[i].kind # "long"
     ELSE f[Len(lns)] = s /\ \A i \in 1 .. Len(lns) : lns[i].kind # "long"
Reads(c) ==
  \E f \in [0 .. Len(pipe[c]) -> Results] : Leads(f, pipe[c], result[c], said[c], cut[c])

Answer(c) ==
  /\ child[c] = "none" => result[c] = Nothing /\ said[c] = Nothing /\ ~cut[c]
  /\ pc[c] = "scan" => Reads(c)
  /\ pc[c] = "wait" => result[c] = said[c] /\ (cut[c] \/ child[c] \in Exited)
  /\ pc[c] = "ok" => result[c] = said[c]

IInv ==
  /\ MapTypes
  /\ RunTypes
  /\ \A c \in Calls : Stage(c) /\ Answer(c)
  /\ MapInv

-----------------------------------------------------------------------------
(* What a line makes of a result *)

LEMMA NothingType == Nothing \in Results
BY DEF Nothing, Results

LEMMA AfterType ==
  ASSUME NEW r \in Results, NEW line \in Lines
  PROVE  After(r, line) \in Results
BY DEF After, Results, Lines

\* A line that is too long leaves it alone.
LEMMA AfterLong ==
  ASSUME NEW r, NEW line, line.kind = "long"
  PROVE  After(r, line) = r
BY DEF After

-----------------------------------------------------------------------------
(* The start *)

LEMMA InitInv == Init => IInv
<1> SUFFICES ASSUME Init PROVE IInv
  OBVIOUS
<1> USE DEF Init, Skill!MapInit
<1>1. MapTypes
  BY AmpClientAssumption DEF AmpClientAssumption, MapTypes
<1>2. RunTypes
  <2>1. 0 \in 0 .. MaxLines
    BY AmpClientAssumption DEF AmpClientAssumption
  <2>2. pipe \in [Calls -> Seq(Lines)]
    <3>1. <<>> \in Seq(Lines)
      OBVIOUS
    <3> QED
      BY <3>1
  <2> QED
    BY <2>1, <2>2, NothingType DEF RunTypes, Places
<1>3. ASSUME NEW c \in Calls PROVE Stage(c) /\ Answer(c)
  <2>1. pc[c] = "new" /\ pipe[c] = <<>> /\ child[c] = "none" /\ key[c] = NoKey
    OBVIOUS
  <2>2. Len(pipe[c]) <= PipeSize
    BY <2>1, AmpClientAssumption DEF AmpClientAssumption
  <2>3. Stage(c)
    BY <2>1, <2>2 DEF Stage, Exited, WithFile, WithChild
  <2>4. Answer(c)
    BY <2>1 DEF Answer
  <2> QED
    BY <2>3, <2>4
<1>4. MapInv
  BY DEF MapInv
<1> QED
  BY <1>1, <1>2, <1>3, <1>4 DEF IInv

-----------------------------------------------------------------------------
(* Types *)

\* One step of a call, of its deadline or of its amp process.
Step(c) ==
  \/ CallSteps(c) \/ DiesOfRace(c) \/ DeadlinePasses(c) \/ KilledAtDeadline(c) \/ AmpSteps(c)

LEMMA StepMapTypes ==
  ASSUME MapTypes, NEW c \in Calls, Stage(c), Step(c)
  PROVE  MapTypes'
<1> USE DEF MapTypes, mapVars, history, Goto, Return
<1>1. CASE MCPConfigBegins(c)
  BY <1>1 DEF MCPConfigBegins
<1>2. CASE LooksUp(c)
  <2>1. PICK k \in todo[c], found \in BOOLEAN :
          /\ Skill!Lookup(c, k, found)
          /\ todo' = [todo EXCEPT ![c] = @ \ {k}]
          /\ IF Puts(found)
             THEN Goto(c, "put") /\ key' = [key EXCEPT ![c] = k]
             ELSE UNCHANGED <<pc, key>>
    BY <1>2 DEF LooksUp
  <2>2. k \in Keys
    BY <2>1
  <2>3. todo' \in [Calls -> SUBSET Keys] /\ key' \in [Calls -> Keys \cup {NoKey}]
    BY <2>1, <2>2
  <2> QED
    BY <1>2, <2>1, <2>3 DEF LooksUp, Skill!Lookup
<1>3. CASE BeginsPut(c)
  BY <1>3 DEF BeginsPut, Skill!Enter
<1>4. CASE EndsPut(c)
  <2>1. key[c] \in Keys
    BY <1>4 DEF EndsPut, Stage
  <2>2. inside' \in [Calls -> {"out", "reading", "writing"}]
    BY <1>4 DEF EndsPut, Skill!LeaveWith
  <2>3. env' \subseteq Keys
    BY <1>4, <2>1 DEF EndsPut, Skill!LeaveWith
  <2> QED
    BY <1>4, <2>2, <2>3 DEF EndsPut, Skill!LeaveWith
<1>5. CASE MCPConfigReturns(c)
  BY <1>5 DEF MCPConfigReturns
<1>6. CASE CreatesSettings(c)
  BY <1>6 DEF CreatesSettings, Skill!Enter
<1>7. CASE EncodesSettings(c)
  BY <1>7 DEF EncodesSettings, Skill!Leave
<1>8. CASE DiesOfRace(c)
  BY <1>8 DEF DiesOfRace, Skill!Dies
<1>9. CASE UNCHANGED <<mapVars, todo, key, history>>
  BY <1>9
<1>10. ASSUME StartsAmp(c) \/ Scans(c) \/ Waits(c) \/ KillsAndWaits(c)
                \/ DeadlinePasses(c) \/ KilledAtDeadline(c) \/ AmpSteps(c)
       PROVE  UNCHANGED <<mapVars, todo, key, history>>
  BY <1>10 DEF StartsAmp, Scans, Waits, KillsAndWaits, DeadlinePasses, KilledAtDeadline,
               AmpSteps, AmpWrites, AmpForks, HeirEnds, AmpExits
<1> QED
  BY <1>1, <1>2, <1>3, <1>4, <1>5, <1>6, <1>7, <1>8, <1>9, <1>10 DEF Step, CallSteps

LEMMA StepRunTypes ==
  ASSUME RunTypes, NEW c \in Calls, Step(c)
  PROVE  RunTypes'
<1> USE DEF RunTypes, process, output, written, Goto, Return, Places, Ended, Exited
<1>1. CASE MCPConfigBegins(c)
  BY <1>1 DEF MCPConfigBegins
<1>2. CASE LooksUp(c)
  <2>1. pc' \in [Calls -> Places] /\ UNCHANGED <<file, process, output, result>>
    BY <1>2 DEF LooksUp
  <2> QED
    BY <2>1
<1>3. CASE BeginsPut(c) \/ EndsPut(c)
  BY <1>3 DEF BeginsPut, EndsPut
<1>4. CASE MCPConfigReturns(c)
  BY <1>4 DEF MCPConfigReturns
<1>5. CASE CreatesSettings(c)
  BY <1>5 DEF CreatesSettings
<1>6. CASE EncodesSettings(c)
  BY <1>6 DEF EncodesSettings
<1>7. CASE StartsAmp(c)
  BY <1>7 DEF StartsAmp
<1>8. CASE Scans(c)
  <2>1. CASE pipe[c] # <<>>
    <3>1. pipe[c] \in Seq(Lines) /\ Head(pipe[c]) \in Lines /\ Tail(pipe[c]) \in Seq(Lines)
      BY <2>1
    <3>2. After(result[c], Head(pipe[c])) \in Results
      BY <3>1, AfterType
    <3>3. result' \in [Calls -> Results] /\ pipe' \in [Calls -> Seq(Lines)]
      <4>1. /\ result' = [result EXCEPT ![c] = After(result[c], Head(pipe[c]))]
            /\ pipe' = [pipe EXCEPT ![c] = Tail(pipe[c])]
        BY <1>8, <2>1 DEF Scans, StdoutEnds
      <4> HIDE DEF Places, Ended, Exited
      <4> QED
        BY <3>1, <3>2, <4>1
    <3>4. pc' \in [Calls -> Places] /\ file' \in [Calls -> BOOLEAN]
      BY <1>8, <2>1 DEF Scans, AfterScanError
    <3> QED
      BY <1>8, <3>3, <3>4 DEF Scans
  <2>2. CASE pipe[c] = <<>>
    BY <1>8, <2>2 DEF Scans
  <2> QED
    BY <2>1, <2>2
<1>9. CASE Waits(c)
  BY <1>9 DEF Waits
<1>10. CASE KillsAndWaits(c)
  BY <1>10 DEF KillsAndWaits
<1>11. CASE DiesOfRace(c)
  BY <1>11 DEF DiesOfRace
<1>12. CASE DeadlinePasses(c)
  BY <1>12 DEF DeadlinePasses
<1>13. CASE KilledAtDeadline(c)
  BY <1>13 DEF KilledAtDeadline
<1>14. CASE AmpWrites(c)
  <2>1. lines' \in 0 .. MaxLines
    BY <1>14, AmpClientAssumption DEF AmpClientAssumption, AmpWrites
  <2>2. PICK kind \in Kinds :
          /\ pipe' = [pipe EXCEPT ![c] = Append(@, Line(kind, lines'))]
          /\ said' = IF cut[c] THEN said
                     ELSE [said EXCEPT ![c] = After(@, Line(kind, lines'))]
          /\ cut' = [cut EXCEPT ![c] = @ \/ kind = "long"]
    BY <1>14 DEF AmpWrites
  <2>3. Line(kind, lines') \in Lines
    BY <2>1 DEF Line, Lines
  <2>4. After(said[c], Line(kind, lines')) \in Results
    BY <2>3, AfterType
  <2>5. said' \in [Calls -> Results] /\ pipe' \in [Calls -> Seq(Lines)]
    BY <2>2, <2>3, <2>4
  <2>6. cut' \in [Calls -> BOOLEAN]
    BY <2>2
  <2> QED
    BY <1>14, <2>1, <2>5, <2>6 DEF AmpWrites
<1>15. CASE AmpForks(c) \/ HeirEnds(c) \/ AmpExits(c)
  BY <1>15 DEF AmpForks, HeirEnds, AmpExits
<1> QED
  BY <1>1, <1>2, <1>3, <1>4, <1>5, <1>6, <1>7, <1>8, <1>9, <1>10, <1>11, <1>12, <1>13,
     <1>14, <1>15 DEF Step, CallSteps, AmpSteps

-----------------------------------------------------------------------------
(* The stages of a call *)

\* A step of a call leaves what belongs to another as it is.
LEMMA OthersKeep ==
  ASSUME MapTypes, RunTypes, NEW c \in Calls, NEW d \in Calls \ {c}, Step(c)
  PROVE  /\ pc'[d] = pc[d] /\ todo'[d] = todo[d] /\ key'[d] = key[d] /\ inside'[d] = inside[d]
         /\ file'[d] = file[d] /\ child'[d] = child[d] /\ heir'[d] = heir[d]
         /\ pipe'[d] = pipe[d] /\ result'[d] = result[d] /\ said'[d] = said[d]
         /\ cut'[d] = cut[d]
<1> USE DEF MapTypes, RunTypes, mapVars, process, output, written, history, Goto, Return
<1>1. CASE MCPConfigBegins(c) \/ MCPConfigReturns(c)
  BY <1>1 DEF MCPConfigBegins, MCPConfigReturns
<1>2. CASE LooksUp(c)
  BY <1>2 DEF LooksUp, Skill!Lookup
<1>3. CASE BeginsPut(c) \/ EndsPut(c)
  BY <1>3 DEF BeginsPut, EndsPut, Skill!Enter, Skill!LeaveWith
<1>4. CASE CreatesSettings(c) \/ EncodesSettings(c)
  BY <1>4 DEF CreatesSettings, EncodesSettings, Skill!Enter, Skill!Leave
<1>5. CASE StartsAmp(c)
  BY <1>5 DEF StartsAmp
<1>6. CASE Scans(c)
  BY <1>6 DEF Scans
<1>7. CASE Waits(c) \/ KillsAndWaits(c)
  BY <1>7 DEF Waits, KillsAndWaits
<1>8. CASE DiesOfRace(c)
  BY <1>8 DEF DiesOfRace, Skill!Dies
<1>9. CASE DeadlinePasses(c) \/ KilledAtDeadline(c)
  BY <1>9 DEF DeadlinePasses, KilledAtDeadline
<1>10. CASE AmpWrites(c)
  BY <1>10 DEF AmpWrites
<1>11. CASE AmpForks(c) \/ HeirEnds(c) \/ AmpExits(c)
  BY <1>11 DEF AmpForks, HeirEnds, AmpExits
<1> QED
  BY <1>1, <1>2, <1>3, <1>4, <1>5, <1>6, <1>7, <1>8, <1>9, <1>10, <1>11
     DEF Step, CallSteps, AmpSteps

LEMMA StepStage ==
  ASSUME MapTypes, RunTypes, NEW c \in Calls, Stage(c), Step(c)
  PROVE  Stage(c)'
<1> USE DEF MapTypes, RunTypes, mapVars, process, output, written, history, Goto, Return,
        Stage, WithFile, WithChild, Places, Ended, Exited
<1>1. CASE MCPConfigBegins(c)
  BY <1>1 DEF MCPConfigBegins
<1>2. CASE MCPConfigReturns(c)
  BY <1>2 DEF MCPConfigReturns
<1>3. CASE LooksUp(c)
  <2>1. PICK k \in todo[c], found \in BOOLEAN :
          /\ Skill!Lookup(c, k, found)
          /\ todo' = [todo EXCEPT ![c] = @ \ {k}]
          /\ IF Puts(found)
             THEN Goto(c, "put") /\ key' = [key EXCEPT ![c] = k]
             ELSE UNCHANGED <<pc, key>>
    BY <1>3 DEF LooksUp
  <2>2. k # NoKey
    BY AmpClientAssumption DEF AmpClientAssumption
  <2> QED
    BY <1>3, <2>1, <2>2 DEF LooksUp, Skill!Lookup
<1>4. CASE BeginsPut(c)
  BY <1>4 DEF BeginsPut, Skill!Enter
<1>5. CASE EndsPut(c)
  BY <1>5 DEF EndsPut, Skill!LeaveWith
<1>6. CASE CreatesSettings(c)
  BY <1>6 DEF CreatesSettings, Skill!Enter
<1>7. CASE EncodesSettings(c)
  BY <1>7 DEF EncodesSettings, Skill!Leave
<1>8. CASE StartsAmp(c)
  BY <1>8 DEF StartsAmp
<1>9. CASE Scans(c)
  <2>1. CASE pipe[c] # <<>>
    <3>1. /\ pipe' = [pipe EXCEPT ![c] = Tail(pipe[c])]
          /\ pc'[c] \in {"scan", "wait", "kill"}
          /\ file' = [file EXCEPT ![c] = file[c] /\ pc'[c] # "failed"]
          /\ UNCHANGED <<mapVars, key, process>>
      BY <1>9, <2>1 DEF Scans, StdoutEnds, AfterScanError
    <3>2. Len(pipe'[c]) <= PipeSize
      BY <2>1, <3>1, AmpClientAssumption DEF AmpClientAssumption
    <3>3. pc[c] = "scan"
      BY <1>9 DEF Scans
    <3> QED
      BY <3>1, <3>2, <3>3
  <2>2. CASE pipe[c] = <<>>
    BY <1>9, <2>2 DEF Scans
  <2> QED
    BY <2>1, <2>2
<1>10. CASE Waits(c)
  BY <1>10 DEF Waits
<1>11. CASE KillsAndWaits(c)
  BY <1>11 DEF KillsAndWaits
<1>12. CASE DiesOfRace(c)
  BY <1>12 DEF DiesOfRace, Skill!Dies
<1>13. CASE DeadlinePasses(c)
  BY <1>13 DEF DeadlinePasses
<1>14. CASE KilledAtDeadline(c)
  BY <1>14 DEF KilledAtDeadline, Killable
<1>15. CASE AmpWrites(c)
  <2>1. PICK line \in Lines : pipe' = [pipe EXCEPT ![c] = Append(pipe[c], line)]
    <3>1. lines' \in Nat
      BY <1>15, AmpClientAssumption DEF AmpWrites, AmpClientAssumption
    <3> QED
      BY <1>15, <3>1 DEF AmpWrites, Line, Lines
  <2>2. Len(pipe'[c]) <= PipeSize
    BY <1>15, <2>1, AmpClientAssumption DEF AmpClientAssumption, AmpWrites
  <2> QED
    BY <1>15, <2>2 DEF AmpWrites
<1>16. CASE AmpForks(c) \/ HeirEnds(c)
  BY <1>16 DEF AmpForks, HeirEnds
<1>17. CASE AmpExits(c)
  BY <1>17 DEF AmpExits
<1> QED
  BY <1>1, <1>2, <1>3, <1>4, <1>5, <1>6, <1>7, <1>8, <1>9, <1>10, <1>11, <1>12, <1>13,
     <1>14, <1>15, <1>16, <1>17 DEF Step, CallSteps, AmpSteps

LEMMA OtherStage ==
  ASSUME MapTypes, RunTypes, NEW c \in Calls, NEW d \in Calls \ {c}, Stage(d), Step(c)
  PROVE  Stage(d)'
BY OthersKeep DEF Stage

-----------------------------------------------------------------------------
(* The map that the calls share *)

\* Two that meet in the map, one of them with a write, were there before any call had
\* completed it, or one that had is a third.
LEMMA RaceNeedsTwo ==
  ASSUME MapTypes, MapInv, \A d \in Calls : Stage(d), NEW c \in Calls, pc[c] # "new",
         NEW access, access = "writing" => pc[c] = "put", Skill!Races(c, access)
  PROVE  TwoFirst
<1>1. CASE raced
  BY <1>1 DEF MapInv
<1>2. CASE ~raced
  <2>1. PICK d \in Calls \ {c} : \/ inside[d] = "writing"
                                 \/ inside[d] = "reading" /\ access = "writing"
    BY DEF Skill!Races
  <2>2. CASE inside[d] = "writing"
    <3>1. pc[d] = "put" /\ d \in first
      BY <1>2, <2>2 DEF Stage, MapInv
    <3>2. CASE c \in first
      BY <2>1, <3>1, <3>2 DEF TwoFirst
    <3>3. CASE c \notin first
      <4>1. PICK e \in first : Beyond(e)
        BY <3>3 DEF MapInv
      <4> QED
        BY <3>1, <4>1 DEF TwoFirst, Beyond
    <3> QED
      BY <3>2, <3>3
  <2>3. CASE inside[d] = "reading" /\ access = "writing"
    <3>1. pc[c] = "put" /\ c \in first /\ pc[d] = "encode"
      BY <1>2, <2>3 DEF Stage, MapInv
    <3>2. CASE d \in first
      BY <2>1, <3>1, <3>2 DEF TwoFirst
    <3>3. CASE d \notin first
      <4>1. PICK e \in first : Beyond(e)
        BY <3>1, <3>3 DEF MapInv
      <4> QED
        BY <3>1, <4>1 DEF TwoFirst, Beyond
    <3> QED
      BY <3>2, <3>3
  <2> QED
    BY <2>1, <2>2, <2>3
<1> QED
  BY <1>1, <1>2 DEF MapTypes

\* A step that puts nothing, and no call into or out of the merge, keeps what is said.
LEMMA MapKeeps ==
  ASSUME MapInv, UNCHANGED <<todo, key, first, merged>>,
         env \subseteq env', raced => raced', raced' \/ ~alive' => TwoFirst,
         \A d \in Calls : pc'[d] = pc[d] \/ (Beyond(d) /\ Beyond(d)'),
         first \subseteq Calls
  PROVE  MapInv'
<1>1. \A d \in Calls : pc'[d] # "new" => Filled(Done(d))'
  BY DEF MapInv, Filled, Done, Beyond
<1>2. merged' => Filled(Keys)' /\ \E d \in first' : Beyond(d)'
  BY DEF MapInv, Filled, Beyond
<1>3. \A d \in Calls \ first' : (pc'[d] # "new" => merged') /\ (pc'[d] = "put" => raced')
  BY DEF MapInv, Beyond
<1> QED
  BY <1>1, <1>2, <1>3 DEF MapInv, TwoFirst

LEMMA StepMap ==
  ASSUME MapTypes, RunTypes, \A d \in Calls : Stage(d), MapInv, alive,
         NEW c \in Calls, Step(c)
  PROVE  MapInv'
<1> USE DEF MapTypes, RunTypes
<1>0. raced => TwoFirst
  BY DEF MapInv
<1>1. CASE MCPConfigBegins(c)
  <2>1. /\ pc[c] = "new" /\ pc' = [pc EXCEPT ![c] = "merge"]
        /\ todo' = [todo EXCEPT ![c] = Keys]
        /\ first' = IF merged THEN first ELSE first \cup {c}
        /\ UNCHANGED <<env, raced, alive, key, merged>>
    BY <1>1 DEF MCPConfigBegins, Goto, mapVars
  <2>2. \A d \in Calls : pc'[d] # "new" => Filled(Done(d))'
    <3>1. Done(c)' = {}
      BY <2>1 DEF Done
    <3>2. \A d \in Calls \ {c} : Done(d)' = Done(d) /\ pc'[d] = pc[d]
      BY <2>1 DEF Done
    <3> QED
      BY <2>1, <3>1, <3>2 DEF MapInv, Filled
  <2>3. merged' => Filled(Keys)' /\ \E d \in first' : Beyond(d)'
    <3> SUFFICES ASSUME merged PROVE Filled(Keys) /\ \E d \in first' : Beyond(d)'
      BY <2>1 DEF Filled
    <3>1. PICK d \in first : Beyond(d)
      BY DEF MapInv
    <3>2. d \in first' /\ Beyond(d)'
      BY <2>1, <3>1 DEF Beyond
    <3> QED
      BY <3>2 DEF MapInv
  <2>4. \A d \in Calls \ first' : (pc'[d] # "new" => merged') /\ (pc'[d] = "put" => raced')
    BY <2>1 DEF MapInv
  <2>5. raced' \/ ~alive' => TwoFirst'
    BY <1>0, <2>1 DEF TwoFirst
  <2> QED
    BY <2>2, <2>3, <2>4, <2>5 DEF MapInv
<1>2. CASE LooksUp(c)
  <2>0. pc[c] = "merge" /\ UNCHANGED <<file, process, output, result, history>>
    BY <1>2 DEF LooksUp
  <2>1. PICK k \in todo[c], found \in BOOLEAN :
          /\ Skill!Lookup(c, k, found)
          /\ todo' = [todo EXCEPT ![c] = @ \ {k}]
          /\ IF Puts(found)
             THEN Goto(c, "put") /\ key' = [key EXCEPT ![c] = k]
             ELSE UNCHANGED <<pc, key>>
    BY <1>2 DEF LooksUp
  <2>2. /\ raced' = (raced \/ Skill!Races(c, "reading")) /\ UNCHANGED <<env, inside, alive>>
        /\ found = (k \in env) \/ raced'
    BY <2>1 DEF Skill!Lookup
  <2>3. UNCHANGED <<first, merged>>
    BY <2>0 DEF history
  <2>4. raced' => TwoFirst
    BY <1>0, <2>0, <2>2, RaceNeedsTwo
  <2>5. key[c] = NoKey
    BY <2>0 DEF Stage
  <2>6. ASSUME ~raced' PROVE Done(c)' \subseteq env
    <3>1. Done(c) \subseteq env
      BY <2>0, <2>2, <2>6 DEF MapInv, Filled
    <3>2. CASE found
      <4>1. k \in env /\ key' = key
        BY <2>1, <2>2, <2>6, <3>2 DEF Puts
      <4> QED
        BY <2>1, <3>1, <4>1 DEF Done
    <3>3. CASE ~found
      <4>1. key'[c] = k
        BY <2>1, <3>3 DEF Puts
      <4> QED
        BY <2>1, <2>5, <3>1, <4>1, AmpClientAssumption DEF Done, AmpClientAssumption
    <3> QED
      BY <3>2, <3>3
  <2>7. \A d \in Calls : pc'[d] # "new" => Filled(Done(d))'
    <3>1. \A d \in Calls \ {c} : Done(d)' = Done(d) /\ pc'[d] = pc[d]
      BY <2>1 DEF Done, Goto
    <3> QED
      BY <2>2, <2>6, <3>1 DEF MapInv, Filled
  <2>8. \A d \in Calls : Beyond(d) => Beyond(d)'
    BY <2>0, <2>1 DEF Beyond, Goto
  <2>9. merged' => Filled(Keys)' /\ \E d \in first' : Beyond(d)'
    BY <2>2, <2>3, <2>8 DEF MapInv, Filled
  <2>10. \A d \in Calls \ first' : (pc'[d] # "new" => merged') /\ (pc'[d] = "put" => raced')
    <3> SUFFICES ASSUME NEW d \in Calls \ first
                 PROVE  (pc'[d] # "new" => merged) /\ (pc'[d] = "put" => raced')
      BY <2>3
    <3>1. CASE d = c
      <4>1. merged /\ Filled(Keys)
        BY <2>0, <3>1 DEF MapInv
      <4>2. ASSUME pc'[c] = "put" PROVE raced'
        <5>1. ~found
          BY <2>0, <2>1, <4>2 DEF Goto, Puts
        <5> QED
          BY <2>1, <2>2, <4>1, <5>1 DEF Filled
      <4> QED
        BY <3>1, <4>1, <4>2
    <3>2. CASE d # c
      BY <2>1, <2>2, <3>2 DEF MapInv, Goto
    <3> QED
      BY <3>1, <3>2
  <2> QED
    BY <2>2, <2>3, <2>4, <2>7, <2>9, <2>10 DEF MapInv, TwoFirst
<1>3. CASE BeginsPut(c)
  <2>1. /\ pc[c] = "put" /\ UNCHANGED <<env, alive, pc, todo, key, first, merged>>
        /\ raced' = (raced \/ Skill!Races(c, "writing"))
    BY <1>3 DEF BeginsPut, Skill!Enter, history
  <2>2. raced' => TwoFirst
    BY <1>0, <2>1, RaceNeedsTwo
  <2> QED
    BY <2>1, <2>2, MapKeeps
<1>4. CASE EndsPut(c)
  <2>1. /\ pc[c] = "put" /\ pc' = [pc EXCEPT ![c] = "merge"]
        /\ key' = [key EXCEPT ![c] = NoKey]
        /\ UNCHANGED <<raced, alive, todo, first, merged>>
        /\ env \subseteq env' /\ (raced \/ env' = env \cup {key[c]})
    BY <1>4 DEF EndsPut, Skill!LeaveWith, Goto, history
  <2>2. \A d \in Calls : pc'[d] # "new" => Filled(Done(d))'
    <3>1. \A d \in Calls \ {c} : Done(d)' = Done(d) /\ pc'[d] = pc[d]
      BY <2>1 DEF Done
    <3>2. Done(c)' \subseteq Done(c) \cup {key[c]}
      BY <2>1 DEF Done
    <3> QED
      BY <2>1, <3>1, <3>2 DEF MapInv, Filled
  <2>3. \A d \in Calls : Beyond(d) => Beyond(d)'
    BY <2>1 DEF Beyond
  <2>4. merged' => Filled(Keys)' /\ \E d \in first' : Beyond(d)'
    BY <2>1, <2>3 DEF MapInv, Filled
  <2>5. \A d \in Calls \ first' : (pc'[d] # "new" => merged') /\ (pc'[d] = "put" => raced')
    BY <2>1 DEF MapInv
  <2> QED
    BY <2>1, <2>2, <2>4, <2>5 DEF MapInv, TwoFirst
<1>5. CASE MCPConfigReturns(c)
  <2>1. /\ pc[c] = "merge" /\ todo[c] = {} /\ pc' = [pc EXCEPT ![c] = "create"] /\ merged'
        /\ UNCHANGED <<env, raced, alive, todo, key, first>>
    BY <1>5 DEF MCPConfigReturns, Goto, mapVars
  <2>2. \A d \in Calls : Done(d)' = Done(d)
    BY <2>1 DEF Done
  <2>3. \A d \in Calls : pc'[d] # "new" => Filled(Done(d))'
    BY <2>1, <2>2 DEF MapInv, Filled
  <2>4. \A d \in Calls : Beyond(d) => Beyond(d)'
    BY <2>1 DEF Beyond
  <2>5. Filled(Keys)'
    <3>1. key[c] = NoKey
      BY <2>1 DEF Stage
    <3>2. Done(c) = Keys
      BY <2>1, <3>1, AmpClientAssumption DEF AmpClientAssumption, Done
    <3> QED
      BY <2>1, <3>2 DEF MapInv, Filled
  <2>6. \E d \in first' : Beyond(d)'
    <3>1. CASE c \in first
      BY <2>1, <3>1 DEF Beyond
    <3>2. CASE c \notin first
      BY <2>1, <2>4, <3>2 DEF MapInv
    <3> QED
      BY <3>1, <3>2
  <2>7. \A d \in Calls \ first' : (pc'[d] # "new" => merged') /\ (pc'[d] = "put" => raced')
    BY <2>1 DEF MapInv
  <2> QED
    BY <2>1, <2>3, <2>5, <2>6, <2>7 DEF MapInv, TwoFirst
<1>6. CASE CreatesSettings(c)
  <2>1. /\ pc[c] = "create" /\ UNCHANGED <<env, alive, todo, key, first, merged>>
        /\ \A d \in Calls : pc'[d] = pc[d] \/ (Beyond(d) /\ Beyond(d)')
    BY <1>6 DEF CreatesSettings, Return, Goto, Skill!Enter, mapVars, history, Beyond
  <2>2. raced' \in {raced, raced \/ Skill!Races(c, "reading")}
    BY <1>6 DEF CreatesSettings, Skill!Enter, mapVars
  <2>3. (raced => raced') /\ (raced' => TwoFirst)
    BY <1>0, <2>1, <2>2, RaceNeedsTwo
  <2> QED
    BY <2>1, <2>3, MapKeeps
<1>7. CASE DiesOfRace(c)
  <2>1. UNCHANGED <<env, raced, pc, todo, key, first, merged>>
    BY <1>7 DEF DiesOfRace, Skill!Dies, history
  <2>2. TwoFirst
    BY <1>7, RaceNeedsTwo DEF DiesOfRace, Skill!Dies
  <2> QED
    BY <2>1, <2>2, MapKeeps
<1>8. ASSUME UNCHANGED <<env, raced, alive, todo, key, first, merged>>,
             \A d \in Calls : pc'[d] = pc[d] \/ (Beyond(d) /\ Beyond(d)')
      PROVE  MapInv'
  BY <1>0, <1>8, MapKeeps
<1>9. CASE EncodesSettings(c)
  BY <1>8, <1>9 DEF EncodesSettings, Skill!Leave, Return, Goto, history, Beyond
<1>10. CASE StartsAmp(c)
  BY <1>8, <1>10 DEF StartsAmp, Return, Goto, mapVars, history, Beyond
<1>11. CASE Scans(c)
  BY <1>8, <1>11 DEF Scans, AfterScanError, Goto, mapVars, history, Beyond
<1>12. CASE Waits(c) \/ KillsAndWaits(c)
  BY <1>8, <1>12 DEF Waits, KillsAndWaits, Return, Goto, mapVars, history, Beyond
<1>13. CASE DeadlinePasses(c) \/ KilledAtDeadline(c) \/ AmpSteps(c)
  BY <1>8, <1>13 DEF DeadlinePasses, KilledAtDeadline, AmpSteps, AmpWrites, AmpForks, HeirEnds,
                     AmpExits, mapVars, history
<1> QED
  BY <1>1, <1>2, <1>3, <1>4, <1>5, <1>6, <1>7, <1>9, <1>10, <1>11, <1>12, <1>13
     DEF Step, CallSteps

-----------------------------------------------------------------------------
(* What the lines lead to *)

LEMMA LeadsTail ==
  ASSUME NEW lns \in Seq(Lines), lns # <<>>, NEW f \in [0 .. Len(lns) -> Results],
         NEW r, NEW s, NEW long \in BOOLEAN, Leads(f, lns, r, s, long),
         Head(lns).kind # "long"
  PROVE  \E g \in [0 .. Len(Tail(lns)) -> Results] :
           Leads(g, Tail(lns), After(r, Head(lns)), s, long)
<1> DEFINE n == Len(lns)
           rest == Tail(lns)
           g == [i \in 0 .. (n - 1) |-> f[i + 1]]
<1>1. /\ n \in Nat \ {0} /\ rest \in Seq(Lines) /\ Len(rest) = n - 1 /\ Head(lns) = lns[1]
      /\ \A i \in 1 .. (n - 1) : rest[i] = lns[i + 1]
  OBVIOUS
<1>2. /\ f[0] = r
      /\ \A i \in 1 .. n : f[i] = After(f[i - 1], lns[i])
  BY DEF Leads
<1> HIDE DEF rest, n
<1>3. f \in [0 .. n -> Results] /\ lns[1].kind # "long"
  BY <1>1 DEF n
<1>4. g \in [0 .. Len(rest) -> Results]
  BY <1>1, <1>3
<1>5. g[0] = After(r, Head(lns))
  <2>1. g[0] = f[1] /\ f[1] = After(f[0], lns[1])
    BY <1>1, <1>2
  <2> QED
    BY <1>1, <1>2, <2>1
<1>6. \A i \in 1 .. Len(rest) : g[i] = After(g[i - 1], rest[i])
  <2> SUFFICES ASSUME NEW i \in 1 .. (n - 1) PROVE g[i] = After(g[i - 1], rest[i])
    BY <1>1
  <2>1. i + 1 \in 1 .. n /\ i - 1 \in 0 .. (n - 1) /\ (i + 1) - 1 = i /\ (i - 1) + 1 = i
        /\ i \in 0 .. (n - 1)
    BY <1>1
  <2>2. g[i] = f[i + 1] /\ g[i - 1] = f[i]
    BY <2>1
  <2> HIDE DEF g
  <2> QED
    BY <1>1, <1>2, <2>1, <2>2
<1>7. CASE long
  <2>1. PICK j \in 1 .. n : /\ lns[j].kind = "long" /\ f[j - 1] = s
                            /\ \A i \in 1 .. (j - 1) : lns[i].kind # "long"
    BY <1>7 DEF Leads, n
  <2>2. j # 1
    BY <1>3, <2>1
  <2>3. j - 1 \in 1 .. (n - 1) /\ (j - 1) + 1 = j /\ (j - 1) - 1 \in 0 .. (n - 1)
        /\ ((j - 1) - 1) + 1 = j - 1
    BY <1>1, <2>1, <2>2
  <2>4. rest[j - 1].kind = "long" /\ g[(j - 1) - 1] = s
    BY <1>1, <2>1, <2>3
  <2>5. ASSUME NEW i \in 1 .. ((j - 1) - 1) PROVE rest[i].kind # "long"
    <3>1. i \in 1 .. (n - 1) /\ i + 1 \in 1 .. (j - 1)
      BY <1>1, <2>1
    <3> QED
      BY <1>1, <2>1, <3>1
  <2> HIDE DEF g
  <2>6. Leads(g, rest, After(r, Head(lns)), s, long)
    BY <1>1, <1>5, <1>6, <1>7, <2>3, <2>4, <2>5 DEF Leads
  <2> QED
    BY <1>4, <2>6 DEF rest
<1>8. CASE ~long
  <2>1. f[n] = s /\ \A i \in 1 .. n : lns[i].kind # "long"
    BY <1>8 DEF Leads, n
  <2>2. g[Len(rest)] = s
    BY <1>1, <2>1
  <2>3. ASSUME NEW i \in 1 .. Len(rest) PROVE rest[i].kind # "long"
    <3>1. i \in 1 .. (n - 1) /\ i + 1 \in 1 .. n
      BY <1>1
    <3> QED
      BY <1>1, <2>1, <3>1
  <2> HIDE DEF g
  <2>4. Leads(g, rest, After(r, Head(lns)), s, long)
    BY <1>5, <1>6, <1>8, <2>2, <2>3 DEF Leads
  <2> QED
    BY <1>4, <2>4 DEF rest
<1> QED
  BY <1>7, <1>8

LEMMA LeadsAppend ==
  ASSUME NEW lns \in Seq(Lines), NEW line \in Lines, NEW f \in [0 .. Len(lns) -> Results],
         NEW r, NEW s, NEW long \in BOOLEAN, Leads(f, lns, r, s, long),
         NEW to, to = IF long THEN s ELSE After(s, line),
         NEW end \in BOOLEAN, end <=> long \/ line.kind = "long"
  PROVE  \E g \in [0 .. Len(Append(lns, line)) -> Results] :
           Leads(g, Append(lns, line), r, to, end)
<1> DEFINE n == Len(lns)
           more == Append(lns, line)
           last == After(f[n], line)
           g == [i \in 0 .. (n + 1) |-> IF i <= n THEN f[i] ELSE last]
<1>1. /\ n \in Nat /\ more \in Seq(Lines) /\ Len(more) = n + 1
      /\ \A i \in 1 .. n : more[i] = lns[i]
      /\ more[n + 1] = line
  OBVIOUS
<1>2. /\ f[0] = r
      /\ \A i \in 1 .. n : f[i] = After(f[i - 1], lns[i])
  BY DEF Leads
<1> HIDE DEF more, n
<1>3. f \in [0 .. n -> Results] /\ last \in Results
  <2>1. f[n] \in Results
    BY <1>1 DEF n
  <2> QED
    BY <2>1, AfterType DEF n
<1> HIDE DEF last
<1>4. g \in [0 .. Len(more) -> Results]
  BY <1>1, <1>3
<1>5. /\ \A i \in 0 .. n : g[i] = f[i]
      /\ g[n + 1] = last
  BY <1>1
<1> HIDE DEF g
<1>6. g[0] = r
  BY <1>1, <1>2, <1>5
<1>7. \A i \in 1 .. Len(more) : g[i] = After(g[i - 1], more[i])
  <2>1. ASSUME NEW i \in 1 .. n PROVE g[i] = After(g[i - 1], more[i])
    <3>1. i \in 0 .. n /\ i - 1 \in 0 .. n
      BY <1>1
    <3> QED
      BY <1>1, <1>2, <1>5, <3>1
  <2>2. g[n + 1] = After(g[(n + 1) - 1], more[n + 1])
    <3>1. (n + 1) - 1 = n /\ n \in 0 .. n
      BY <1>1
    <3> QED
      BY <1>1, <1>5, <3>1 DEF last
  <2>3. \A i \in 1 .. (n + 1) : i \in 1 .. n \/ i = n + 1
    BY <1>1
  <2> QED
    BY <1>1, <2>1, <2>2, <2>3
<1>8. CASE long
  <2>1. PICK j \in 1 .. n : /\ lns[j].kind = "long" /\ f[j - 1] = s
                            /\ \A i \in 1 .. (j - 1) : lns[i].kind # "long"
    BY <1>8 DEF Leads, n
  <2>2. j \in 1 .. Len(more) /\ j - 1 \in 0 .. n
    BY <1>1
  <2>3. more[j].kind = "long" /\ g[j - 1] = s
    BY <1>1, <1>5, <2>1, <2>2
  <2>4. ASSUME NEW i \in 1 .. (j - 1) PROVE more[i].kind # "long"
    <3>1. i \in 1 .. n
      BY <1>1, <2>1
    <3> QED
      BY <1>1, <2>1, <3>1
  <2>5. Leads(g, more, r, to, end)
    BY <1>6, <1>7, <1>8, <2>2, <2>3, <2>4 DEF Leads
  <2> QED
    BY <1>4, <1>8, <2>5 DEF more
<1>9. CASE ~long
  <2>1. f[n] = s /\ \A i \in 1 .. n : lns[i].kind # "long"
    BY <1>9 DEF Leads, n
  <2>2. \A i \in 1 .. n : more[i].kind # "long"
    BY <1>1, <2>1
  <2>3. CASE line.kind = "long"
    <3>1. to = s
      BY <1>9, <2>3, AfterLong
    <3>2. n + 1 \in 1 .. Len(more) /\ (n + 1) - 1 = n /\ n \in 0 .. n
      BY <1>1
    <3>3. more[n + 1].kind = "long" /\ g[(n + 1) - 1] = to
      BY <1>1, <1>5, <2>1, <2>3, <3>1, <3>2
    <3>4. \A i \in 1 .. ((n + 1) - 1) : more[i].kind # "long"
      BY <2>2, <3>2
    <3>5. Leads(g, more, r, to, end)
      BY <1>6, <1>7, <2>3, <3>2, <3>3, <3>4 DEF Leads
    <3> QED
      BY <1>4, <2>3, <3>5 DEF more
  <2>4. CASE line.kind # "long"
    <3>1. to = last
      BY <1>9, <2>1 DEF last
    <3>2. g[Len(more)] = to
      BY <1>1, <1>5, <3>1
    <3>3. \A i \in 1 .. Len(more) : more[i].kind # "long"
      <4>1. \A i \in 1 .. (n + 1) : i \in 1 .. n \/ i = n + 1
        BY <1>1
      <4> QED
        BY <1>1, <2>2, <2>4, <4>1
    <3>4. Leads(g, more, r, to, end)
      BY <1>6, <1>7, <1>9, <2>4, <3>2, <3>3 DEF Leads
    <3> QED
      BY <1>4, <1>9, <2>4, <3>4 DEF more
  <2> QED
    BY <2>3, <2>4
<1> QED
  BY <1>8, <1>9

-----------------------------------------------------------------------------
(* What Execute returns *)

LEMMA StepAnswer ==
  ASSUME RunTypes, NEW c \in Calls, Stage(c), Answer(c), Step(c)
  PROVE  Answer(c)'
<1> USE DEF RunTypes, Stage, Answer, Goto, Return, process, output, written, WithChild, Ended,
        Exited
<1>1. ASSUME UNCHANGED <<child, pipe, result, said, cut>>,
             pc'[c] \notin {"scan", "wait", "ok"} \/ pc'[c] = pc[c]
      PROVE  Answer(c)'
  BY <1>1 DEF Reads
<1>2. CASE MCPConfigBegins(c) \/ LooksUp(c) \/ BeginsPut(c) \/ EndsPut(c)
             \/ MCPConfigReturns(c) \/ CreatesSettings(c) \/ EncodesSettings(c)
  BY <1>1, <1>2 DEF MCPConfigBegins, LooksUp, BeginsPut, EndsPut, MCPConfigReturns,
                    CreatesSettings, EncodesSettings
<1>3. CASE DiesOfRace(c) \/ DeadlinePasses(c) \/ AmpForks(c) \/ HeirEnds(c)
  BY <1>1, <1>3 DEF DiesOfRace, DeadlinePasses, AmpForks, HeirEnds
<1>4. CASE StartsAmp(c)
  <2>1. CASE Return(c, "failed") /\ UNCHANGED child
    BY <1>1, <1>4, <2>1 DEF StartsAmp
  <2>2. CASE child' = [child EXCEPT ![c] = "running"] /\ Goto(c, "scan")
    <3>1. /\ child[c] = "none" /\ pipe[c] = <<>> /\ ~cut[c]
          /\ result[c] = Nothing /\ said[c] = Nothing
      BY <1>4 DEF StartsAmp
    <3>2. UNCHANGED <<pipe, result, said, cut>>
      BY <1>4 DEF StartsAmp
    <3>3. Reads(c)
      <4> DEFINE f == [i \in 0 .. 0 |-> Nothing]
      <4>1. Len(pipe[c]) = 0 /\ f \in [0 .. Len(pipe[c]) -> Results]
        BY <3>1, NothingType
      <4>2. Leads(f, pipe[c], result[c], said[c], cut[c])
        BY <3>1, <4>1 DEF Leads
      <4> QED
        BY <4>1, <4>2 DEF Reads
    <3>4. Reads(c)'
      BY <3>2, <3>3 DEF Reads
    <3> QED
      BY <2>2, <3>4
  <2> QED
    BY <1>4, <2>1, <2>2 DEF StartsAmp
<1>5. CASE Scans(c)
  <2>0. pc[c] = "scan" /\ child' = child /\ said' = said /\ cut' = cut /\ child[c] # "none"
    BY <1>5 DEF Scans
  <2>1. PICK f \in [0 .. Len(pipe[c]) -> Results] :
          Leads(f, pipe[c], result[c], said[c], cut[c])
    BY <2>0 DEF Reads
  <2>2. CASE pipe[c] = <<>>
    <3>1. result' = result /\ pc'[c] = "wait" /\ child[c] \in Exited
      BY <1>5, <2>2 DEF Scans, StdoutEnds
    <3>2. result[c] = said[c]
      <4>1. Len(pipe[c]) = 0
        BY <2>2
      <4> QED
        BY <2>1, <4>1 DEF Leads
    <3> QED
      BY <2>0, <3>1, <3>2
  <2>3. CASE pipe[c] # <<>> /\ Head(pipe[c]).kind = "long"
    <3>1. result'[c] = result[c] /\ pc'[c] \in {"wait", "kill"}
      <4>1. /\ result' = [result EXCEPT ![c] = After(result[c], Head(pipe[c]))]
            /\ pc'[c] \in {"wait", "kill"}
        BY <1>5, <2>3 DEF Scans, StdoutEnds, AfterScanError
      <4> QED
        BY <2>3, <4>1, AfterLong
    <3>2. cut[c] /\ result[c] = said[c]
      <4>1. pipe[c] \in Seq(Lines) /\ Len(pipe[c]) \in Nat \ {0} /\ Head(pipe[c]) = pipe[c][1]
        BY <2>3
      <4>2. 1 \in 1 .. Len(pipe[c]) /\ \A j \in 1 .. Len(pipe[c]) : j # 1 => 1 \in 1 .. (j - 1)
        BY <4>1
      <4>3. cut[c]
        BY <2>1, <2>3, <4>1, <4>2 DEF Leads
      <4>4. PICK j \in 1 .. Len(pipe[c]) : /\ f[j - 1] = said[c]
                                           /\ \A i \in 1 .. (j - 1) : pipe[c][i].kind # "long"
        BY <2>1, <4>3 DEF Leads
      <4>5. j = 1
        BY <2>3, <4>1, <4>2, <4>4
      <4>6. f[0] = said[c]
        BY <4>4, <4>5
      <4> QED
        BY <2>1, <4>3, <4>6 DEF Leads
    <3> QED
      BY <2>0, <3>1, <3>2
  <2>4. CASE pipe[c] # <<>> /\ Head(pipe[c]).kind # "long"
    <3>1. /\ result'[c] = After(result[c], Head(pipe[c])) /\ pipe'[c] = Tail(pipe[c])
          /\ pc'[c] = "scan"
      BY <1>5, <2>4 DEF Scans, StdoutEnds
    <3>2. \E g \in [0 .. Len(Tail(pipe[c])) -> Results] :
            Leads(g, Tail(pipe[c]), After(result[c], Head(pipe[c])), said[c], cut[c])
      <4>1. pipe[c] \in Seq(Lines) /\ cut[c] \in BOOLEAN
        OBVIOUS
      <4> QED
        BY <2>1, <2>4, <4>1, LeadsTail
    <3>3. Reads(c)'
      BY <2>0, <3>1, <3>2 DEF Reads
    <3> QED
      BY <2>0, <3>1, <3>3
  <2> QED
    BY <2>2, <2>3, <2>4
<1>6. CASE Waits(c)
  BY <1>6 DEF Waits
<1>7. CASE KillsAndWaits(c)
  BY <1>7 DEF KillsAndWaits
<1>8. CASE KilledAtDeadline(c)
  <2>1. /\ child[c] # "none" /\ child'[c] = "killed"
        /\ UNCHANGED <<pc, pipe, result, said, cut>>
    BY <1>8 DEF KilledAtDeadline, Killable
  <2> QED
    BY <2>1 DEF Reads
<1>9. CASE AmpExits(c)
  <2>1. /\ child[c] # "none" /\ child'[c] \in Exited
        /\ UNCHANGED <<pc, pipe, result, said, cut>>
    BY <1>9 DEF AmpExits
  <2> QED
    BY <2>1 DEF Reads
<1>10. CASE AmpWrites(c)
  <2>1. PICK kind \in Kinds :
          /\ pipe' = [pipe EXCEPT ![c] = Append(@, Line(kind, lines'))]
          /\ said' = IF cut[c] THEN said
                     ELSE [said EXCEPT ![c] = After(@, Line(kind, lines'))]
          /\ cut' = [cut EXCEPT ![c] = @ \/ kind = "long"]
    BY <1>10 DEF AmpWrites
  <2> DEFINE line == Line(kind, lines')
  <2>2. /\ child[c] = "running" /\ UNCHANGED <<pc, child, result>>
        /\ lines' \in Nat
    BY <1>10, AmpClientAssumption DEF AmpWrites, AmpClientAssumption
  <2>3. line \in Lines /\ line.kind = kind
    BY <2>2 DEF Line, Lines
  <2> HIDE DEF line
  <2>4. /\ pipe'[c] = Append(pipe[c], line)
        /\ said'[c] = IF cut[c] THEN said[c] ELSE After(said[c], line)
        /\ cut'[c] = (cut[c] \/ line.kind = "long")
    BY <2>1, <2>3 DEF line
  <2>5. CASE pc[c] = "scan"
    <3>1. PICK f \in [0 .. Len(pipe[c]) -> Results] :
            Leads(f, pipe[c], result[c], said[c], cut[c])
      BY <2>5 DEF Reads
    <3>2. pipe[c] \in Seq(Lines) /\ cut[c] \in BOOLEAN
      OBVIOUS
    <3>3. \E g \in [0 .. Len(Append(pipe[c], line)) -> Results] :
            Leads(g, Append(pipe[c], line), result[c], said'[c], cut'[c])
      <4>1. cut'[c] \in BOOLEAN
        BY <2>4
      <4> HIDE DEF RunTypes, Stage, Answer, Ended, Exited
      <4>2. said'[c] = IF cut[c] THEN said[c] ELSE After(said[c], line)
        BY <2>4
      <4>3. cut'[c] <=> cut[c] \/ line.kind = "long"
        BY <2>4
      <4> QED
        BY <2>3, <3>1, <3>2, <4>1, <4>2, <4>3, LeadsAppend
    <3>4. Reads(c)'
      BY <2>2, <2>4, <3>3 DEF Reads
    <3> QED
      BY <2>2, <2>5, <3>4
  <2>6. CASE pc[c] # "scan"
    BY <2>2, <2>4, <2>6
  <2> QED
    BY <2>5, <2>6
<1> QED
  BY <1>2, <1>3, <1>4, <1>5, <1>6, <1>7, <1>8, <1>9, <1>10 DEF Step, CallSteps, AmpSteps

LEMMA OtherAnswer ==
  ASSUME MapTypes, RunTypes, NEW c \in Calls, NEW d \in Calls \ {c}, Answer(d), Step(c)
  PROVE  Answer(d)'
BY OthersKeep DEF Answer, Reads

-----------------------------------------------------------------------------
(* The invariant *)

LEMMA StepInv == IInv /\ [Next]_vars => IInv'
<1> SUFFICES ASSUME IInv, [Next]_vars PROVE IInv'
  OBVIOUS
<1>1. CASE UNCHANGED vars
  BY <1>1 DEF vars, mapVars, process, output, written, history, IInv, MapTypes, RunTypes, Stage,
              Answer, Reads, MapInv, Filled, Done, Beyond, TwoFirst
<1>2. ASSUME NEW c \in Calls, alive, Step(c) PROVE IInv'
  <2>1. MapTypes /\ RunTypes /\ MapInv /\ \A d \in Calls : Stage(d) /\ Answer(d)
    BY DEF IInv
  <2>2. MapTypes' /\ RunTypes' /\ MapInv'
    BY <1>2, <2>1, StepMapTypes, StepRunTypes, StepMap
  <2>3. ASSUME NEW d \in Calls PROVE Stage(d)' /\ Answer(d)'
    <3>1. CASE d = c
      BY <1>2, <2>1, <3>1, StepStage, StepAnswer
    <3>2. CASE d # c
      BY <1>2, <2>1, <3>2, OtherStage, OtherAnswer
    <3> QED
      BY <3>1, <3>2
  <2> QED
    BY <2>2, <2>3 DEF IInv
<1> QED
  BY <1>1, <1>2 DEF Next, Step

\* What each call has at each place of MCPConfig and Execute, which names are in the map that
\* the calls share, and what the lines not yet read will make of the result.
THEOREM Invariance == Spec => []IInv
BY InitInv, StepInv, PTL DEF Spec

-----------------------------------------------------------------------------
(* The properties *)

\* Types and stages: Execute has its settings file from CreateTemp to its return, and its
\* amp process from Start to Wait.
THEOREM TypeCorrect == Spec => []TypeOK
<1>1. IInv => TypeOK
  <2> SUFFICES ASSUME IInv PROVE TypeOK
    OBVIOUS
  <2>1. ASSUME NEW c \in Calls
        PROVE  /\ inside[c] # "out" => pc[c] \in {"put", "encode"}
               /\ todo[c] \subseteq Keys /\ (key[c] # NoKey <=> pc[c] = "put")
               /\ file[c] <=> pc[c] \in {"encode", "start", "scan", "wait", "kill"}
               /\ child[c] \in {"running"} \cup Exited <=> pc[c] \in {"scan", "wait", "kill"}
               /\ child[c] = "none" => pipe[c] = <<>> /\ ~heir[c]
               /\ Len(pipe[c]) <= PipeSize
               /\ late[c] \in BOOLEAN
    BY <2>1 DEF IInv, MapTypes, RunTypes, Stage, WithFile, WithChild
  <2> QED
    BY <2>1 DEF IInv, MapTypes, RunTypes, TypeOK
<1> QED
  BY <1>1, Invariance, PTL

\* The map of a skill, which MCPConfig writes without a lock, is written by the calls that
\* began before any had completed it: a race needs two of those.
THEOREM RaceIsEarly == Spec => []RaceOnlyAtFirstUse
<1>1. IInv => RaceOnlyAtFirstUse
  BY DEF IInv, MapInv, TwoFirst, Stage, RaceOnlyAtFirstUse
<1> QED
  BY <1>1, Invariance, PTL

\* However Execute returns, its settings file is removed and its amp process, if it had one,
\* waited for.
THEOREM NothingIsLeft == Spec => []ReturnedLeavesNothing
<1>1. IInv => ReturnedLeavesNothing
  <2> SUFFICES ASSUME IInv, NEW c \in Calls, pc[c] \in Ended
               PROVE  ~file[c] /\ child[c] \in {"none", "reaped"}
    BY DEF ReturnedLeavesNothing
  <2> QED
    BY DEF IInv, RunTypes, Stage, WithFile, WithChild, Ended, Exited
<1> QED
  BY <1>1, Invariance, PTL

\* What Execute returns without an error is what the lines of amp amount to, up to the last
\* one or to one too long for the scanner: no line is lost in the pipe when amp ends.
THEOREM AnswerIsWhole == Spec => []AnswerIsNotLost
<1>1. IInv => AnswerIsNotLost
  BY DEF IInv, Answer, AnswerIsNotLost
<1> QED
  BY <1>1, Invariance, PTL
=============================================================================
