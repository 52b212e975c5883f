------------------------------ MODULE AmpClient ------------------------------
(***************************************************************************)
(* How a diagnosis runs Amp: MCPConfig (skill/manager.go) completes the    *)
(* environment of the skill's MCP server, and Execute (amp/client.go)      *)
(* writes the settings file, starts the amp process, reads its messages    *)
(* and waits for its end.  The calls are those of diagnoses of different   *)
(* projects, which run at the same time and share the skill.               *)
(*                                                                         *)
(* The amp process, its output and what it starts in its turn are          *)
(* external.  The deadline is that of the context: exec.CommandContext     *)
(* then kills the process that Execute started, and only that one.         *)
(*                                                                         *)
(* A definition named Slip... is the one below it as a plausible bug would *)
(* have it; the specification does not use it.                             *)
(***************************************************************************)
EXTENDS Integers, Sequences

CONSTANTS
  Calls,       \* the diagnoses, each with its call of MCPConfig and Execute
  Keys,        \* the names in skill.env of the configuration
  OwnKeys,     \* those that the skill's mcp.json has too
  NoKey,       \* no name
  PipeSize,    \* the messages that fit into the pipe
  MaxLines     \* bound: the lines that all amp processes write together

ASSUME AmpClientAssumption ==
  /\ OwnKeys \subseteq Keys /\ NoKey \notin Keys
  /\ PipeSize \in Nat \ {0}
  /\ MaxLines \in Nat

VARIABLES
  env, inside, raced, alive,   \* those of SkillEnv
  pc,          \* where each call is
  todo,        \* the keys of skill.env that its MCPConfig has not looked at
  key,         \* the one that it is to put
  file,        \* whether its settings file exists
  child,       \* its amp process
  heir,        \* whether a process that amp started has its stdout open still
  late,        \* whether its context is done
  pipe,        \* the lines written to its stdout and not read
  result,      \* the ExecuteResult
  \* History, read by the properties only, and the count for MaxLines.
  first,       \* the calls that began before any MCPConfig had returned
  merged,      \* whether one has
  said,        \* what the lines written amount to, up to one that is too long
  cut,         \* whether there was such a line
  lines

Skill == INSTANCE SkillEnv WITH Users <- Calls
mapVars == <<env, inside, raced, alive>>
process == <<child, heir, late>>
written == <<said, cut, lines>>
output == <<pipe, written>>
history == <<first, merged>>
vars == <<mapVars, pc, todo, key, file, process, output, result, history>>

-----------------------------------------------------------------------------
\* What Execute tells apart: a result with text and one without, the report of
\* an error, a line longer than the buffer of the scanner, and any other (an
\* empty one, one that does not parse, a message of another type).
Kinds == {"result", "blank", "error", "long", "other"}
Line(kind, n) == [kind |-> kind, n |-> n]

\* IsError, Result and Error; 0 is the empty text.
Nothing == [isError |-> FALSE, result |-> 0, error |-> 0]
HasText(r) == r.result # 0 \/ r.error # 0

\* What a line makes of the result.
After(r, line) ==
  CASE line.kind = "result" -> [r EXCEPT !.isError = FALSE, !.result = line.n]
    [] line.kind = "blank"  -> [r EXCEPT !.isError = FALSE, !.result = 0]
    [] line.kind = "error"  -> [r EXCEPT !.isError = TRUE, !.error = line.n]
    [] OTHER                -> r

Exited == {"success", "failure", "killed"}
Ended == {"ok", "failed"}

Init ==
  /\ Skill!MapInit
  /\ pc = [c \in Calls |-> "new"]
  /\ todo = [c \in Calls |-> {}]
  /\ key = [c \in Calls |-> NoKey]
  /\ file = [c \in Calls |-> FALSE]
  /\ child = [c \in Calls |-> "none"]
  /\ heir = [c \in Calls |-> FALSE]
  /\ late = [c \in Calls |-> FALSE]
  /\ pipe = [c \in Calls |-> <<>>]
  /\ result = [c \in Calls |-> Nothing]
  /\ first = {} /\ merged = FALSE
  /\ said = [c \in Calls |-> Nothing]
  /\ cut = [c \in Calls |-> FALSE]
  /\ lines = 0

Goto(c, place) == pc' = [pc EXCEPT ![c] = place]

\* Slip: not deferred, the removal follows a good run only.
SlipReturn(c, how) ==
  /\ Goto(c, how)
  /\ file' = [file EXCEPT ![c] = @ /\ how = "failed"]

\* The deferred os.Remove.
Return(c, how) ==
  /\ Goto(c, how)
  /\ file' = [file EXCEPT ![c] = FALSE]

-----------------------------------------------------------------------------
(* MCPConfig *)

MCPConfigBegins(c) ==
  /\ pc[c] = "new"
  /\ Goto(c, "merge")
  /\ todo' = [todo EXCEPT ![c] = Keys]
  /\ first' = IF merged THEN first ELSE first \cup {c}
  /\ UNCHANGED <<mapVars, key, file, process, output, result, merged>>

\* Slip: the configuration overrides what the map has.
SlipPuts(found) == TRUE

\* What the map has already stays.
Puts(found) == ~found

\* for k, v := range m.env { if _, exists := srv.Env[k]; !exists
LooksUp(c) ==
  /\ pc[c] = "merge"
  /\ \E k \in todo[c], found \in BOOLEAN :
       /\ Skill!Lookup(c, k, found)
       /\ todo' = [todo EXCEPT ![c] = @ \ {k}]
       /\ IF Puts(found)
          THEN Goto(c, "put") /\ key' = [key EXCEPT ![c] = k]
          ELSE UNCHANGED <<pc, key>>
  /\ UNCHANGED <<file, process, output, result, history>>

BeginsPut(c) ==
  /\ pc[c] = "put" /\ inside[c] = "out"
  /\ Skill!Enter(c, "writing")
  /\ UNCHANGED <<pc, todo, key, file, process, output, result, history>>

EndsPut(c) ==
  /\ pc[c] = "put" /\ inside[c] = "writing"
  /\ Skill!LeaveWith(c, key[c])
  /\ Goto(c, "merge")
  /\ key' = [key EXCEPT ![c] = NoKey]
  /\ UNCHANGED <<todo, file, process, output, result, history>>

MCPConfigReturns(c) ==
  /\ pc[c] = "merge" /\ todo[c] = {}
  /\ Goto(c, "create")
  /\ merged' = TRUE
  /\ UNCHANGED <<mapVars, todo, key, file, process, output, result, first>>

-----------------------------------------------------------------------------
(* writeSettingsFile *)

\* os.CreateTemp fails, or json encodes the settings, the map among them.
CreatesSettings(c) ==
  /\ pc[c] = "create"
  /\ \/ Return(c, "failed") /\ UNCHANGED mapVars
     \/ /\ Goto(c, "encode")
        /\ file' = [file EXCEPT ![c] = TRUE]
        /\ Skill!Enter(c, "reading")
  /\ UNCHANGED <<todo, key, process, output, result, history>>

EncodesSettings(c) ==
  /\ pc[c] = "encode"
  /\ Skill!Leave(c)
  /\ \/ Goto(c, "start") /\ UNCHANGED file
     \/ Return(c, "failed")
  /\ UNCHANGED <<todo, key, process, output, result, history>>

\* The runtime notices that c is in the map together with another.
DiesOfRace(c) ==
  /\ \/ pc[c] = "merge" /\ todo[c] # {} /\ Skill!Dies(c, "reading")
     \/ pc[c] = "create" /\ Skill!Dies(c, "reading")
     \/ pc[c] = "put" /\ inside[c] = "out" /\ Skill!Dies(c, "writing")
  /\ UNCHANGED <<pc, todo, key, file, process, output, result, history>>

-----------------------------------------------------------------------------
(* Execute.  The handler of engine.go returns no error, and fixer.go has     *)
(* none, nor settings: so the loop ends only when the scanner does.          *)

\* StdoutPipe or cmd.Start fails, the latter also when the context is done.
StartsAmp(c) ==
  /\ pc[c] = "start"
  /\ \/ Return(c, "failed") /\ UNCHANGED child
     \/ /\ ~late[c]
        /\ child' = [child EXCEPT ![c] = "running"]
        /\ Goto(c, "scan") /\ UNCHANGED file
  /\ UNCHANGED <<mapVars, todo, key, heir, late, output, result, history>>

\* Slip: cmd.Wait as soon as the process has ended closes the pipe.
SlipStdoutEnds(c) == child[c] \in Exited /\ ~heir[c]

\* The end of file: nothing to read and nobody to write.
StdoutEnds(c) == pipe[c] = <<>> /\ child[c] \in Exited /\ ~heir[c]

\* Slip: the error of the scanner returns at once.
SlipAfterScanError(r) == "failed"

\* After an error of the scanner: what it has will do, or it returns with the
\* deferred Kill and Wait.
AfterScanError(r) == IF HasText(r) THEN "wait" ELSE "kill"

\* One turn of for scanner.Scan(), or its end.
Scans(c) ==
  /\ pc[c] = "scan"
  /\ \/ /\ pipe[c] # <<>>
        /\ LET line == Head(pipe[c]) IN
             /\ result' = [result EXCEPT ![c] = After(@, line)]
             /\ pc' = IF line.kind # "long" THEN pc
                      ELSE [pc EXCEPT ![c] = AfterScanError(result[c])]
        /\ pipe' = [pipe EXCEPT ![c] = Tail(@)]
     \/ /\ StdoutEnds(c)
        /\ Goto(c, "wait")
        /\ UNCHANGED <<result, pipe>>
  /\ file' = [file EXCEPT ![c] = @ /\ pc'[c] # "failed"]
  /\ UNCHANGED <<mapVars, todo, key, process, written, history>>

\* cmd.Wait: the end of the process, not of its output.
Waits(c) ==
  /\ pc[c] = "wait" /\ child[c] \in Exited
  /\ Return(c, IF child[c] = "success" THEN "ok" ELSE "failed")
  /\ child' = [child EXCEPT ![c] = "reaped"]
  /\ UNCHANGED <<mapVars, todo, key, heir, late, output, result, history>>

\* The deferred function: Process.Kill and cmd.Wait.
KillsAndWaits(c) ==
  /\ pc[c] = "kill"
  /\ Return(c, "failed")
  /\ child' = [child EXCEPT ![c] = "reaped"]
  /\ UNCHANGED <<mapVars, todo, key, heir, late, output, result, history>>

-----------------------------------------------------------------------------
(* The context, and os/exec *)

DeadlinePasses(c) ==
  /\ ~late[c] /\ pc[c] \notin Ended
  /\ late' = [late EXCEPT ![c] = TRUE]
  /\ UNCHANGED <<mapVars, pc, todo, key, file, child, heir, output, result,
                 history>>

\* Slip: nobody kills a process whose output is not read.
SlipKillable(c) == child[c] = "running" /\ pc[c] = "scan"

\* Process.Kill succeeds until the process is waited for, and Wait then returns
\* the error of the context.
Killable(c) == child[c] \in {"running", "success", "failure"}

KilledAtDeadline(c) ==
  /\ late[c] /\ Killable(c)
  /\ child' = [child EXCEPT ![c] = "killed"]
  /\ UNCHANGED <<mapVars, pc, todo, key, file, heir, late, output, result,
                 history>>

-----------------------------------------------------------------------------
(* The amp process *)

AmpWrites(c) ==
  /\ child[c] = "running" /\ Len(pipe[c]) < PipeSize /\ lines < MaxLines
  /\ lines' = lines + 1
  /\ \E kind \in Kinds :
       /\ pipe' = [pipe EXCEPT ![c] = Append(@, Line(kind, lines'))]
       /\ said' = IF cut[c] THEN said
                  ELSE [said EXCEPT ![c] = After(@, Line(kind, lines'))]
       /\ cut' = [cut EXCEPT ![c] = @ \/ kind = "long"]
  /\ UNCHANGED <<mapVars, pc, todo, key, file, process, result, history>>

\* It starts a process that keeps its stdout.
AmpForks(c) ==
  /\ child[c] = "running" /\ ~heir[c]
  /\ heir' = [heir EXCEPT ![c] = TRUE]
  /\ UNCHANGED <<mapVars, pc, todo, key, file, child, late, output, result,
                 history>>

HeirEnds(c) ==
  /\ heir[c]
  /\ heir' = [heir EXCEPT ![c] = FALSE]
  /\ UNCHANGED <<mapVars, pc, todo, key, file, child, late, output, result,
                 history>>

AmpExits(c) ==
  /\ child[c] = "running"
  /\ \E how \in {"success", "failure"} : child' = [child EXCEPT ![c] = how]
  /\ UNCHANGED <<mapVars, pc, todo, key, file, heir, late, output, result,
                 history>>

-----------------------------------------------------------------------------
CallSteps(c) ==
  \/ MCPConfigBegins(c) \/ LooksUp(c) \/ BeginsPut(c) \/ EndsPut(c)
  \/ MCPConfigReturns(c) \/ CreatesSettings(c) \/ EncodesSettings(c)
  \/ StartsAmp(c) \/ Scans(c) \/ Waits(c) \/ KillsAndWaits(c)

AmpSteps(c) == AmpWrites(c) \/ AmpForks(c) \/ HeirEnds(c) \/ AmpExits(c)

Next ==
  /\ alive
  /\ \E c \in Calls :
       \/ CallSteps(c) \/ DiesOfRace(c)
       \/ DeadlinePasses(c) \/ KilledAtDeadline(c)
       \/ AmpSteps(c)

\* A call goes on, its deadline comes and the kill of it is delivered.  Amp, and
\* what it starts, may hang for ever.
Fairness ==
  \A c \in Calls :
    /\ WF_vars(alive /\ CallSteps(c))
    /\ WF_vars(alive /\ DeadlinePasses(c))
    /\ WF_vars(alive /\ KilledAtDeadline(c))

Spec == Init /\ [][Next]_vars /\ Fairness

-----------------------------------------------------------------------------
(* Properties *)

\* Types, and what each stage of a call has: a settings file from CreateTemp to
\* the return, an amp process as long as it reads or waits for one, and none
\* that is not waited for once it has returned.
TypeOK ==
  /\ env \subseteq Keys /\ raced \in BOOLEAN /\ alive \in BOOLEAN
  /\ first \subseteq Calls /\ merged \in BOOLEAN /\ lines \in 0 .. MaxLines
  /\ \A c \in Calls :
       /\ inside[c] # "out" => pc[c] \in {"put", "encode"}
       /\ todo[c] \subseteq Keys /\ (key[c] # NoKey <=> pc[c] = "put")
       /\ file[c] <=> pc[c] \in {"encode", "start", "scan", "wait", "kill"}
       /\ child[c] \in {"running"} \cup Exited <=> pc[c] \in {"scan", "wait", "kill"}
       /\ child[c] = "none" => pipe[c] = <<>> /\ ~heir[c]
       /\ Len(pipe[c]) <= PipeSize
       /\ late[c] \in BOOLEAN

\* The map that the diagnoses share is written by calls that began before any
\* had completed it, and by no other, so that a race needs two of them.
RaceOnlyAtFirstUse ==
  /\ raced \/ ~alive => \E c, d \in first : c # d
  /\ \A c \in Calls : inside[c] = "writing" => c \in first \/ raced

\* Execute leaves no settings file (which has the secrets of the environment in
\* it) and no process that it started and did not wait for.
ReturnedLeavesNothing ==
  \A c \in Calls :
    pc[c] \in Ended => ~file[c] /\ child[c] \in {"none", "reaped"}

\* What Execute returns without an error is all that amp said, down to the last
\* line of a process that has ended, or down to a line that is too long.
AnswerIsNotLost ==
  \A c \in Calls : pc[c] = "ok" => result[c] = said[c]

\* Once amp is started Execute returns, whatever amp does: whether it hangs,
\* fills the pipe or ends.  Only a process that amp left behind with its stdout
\* open can keep it, and the deadline does not help then.
ExecuteReturns ==
  \A c \in Calls :
    (pc[c] = "scan" ~> pc[c] \in Ended \/ ~alive) \/ <>[]heir[c]
=============================================================================
