------------------------------ MODULE SkillEnv ------------------------------
(***************************************************************************)
(* The Env map of one MCP server of a skill, skill/manager.go.  LoadAll    *)
(* reads it once from mcp.json; every diagnosis of a project that has the  *)
(* skill uses this one map, and there is no lock.  (Where mcp.json has no  *)
(* env, MCPConfig makes a map for each call, which nobody shares.)         *)
(*                                                                         *)
(* A write of a Go map beside another access is a data race: the runtime   *)
(* notices and ends the process, or it does not, and then the write may be *)
(* lost and a lookup may miss.  To be seen beside another access, a write  *)
(* and an iteration take two steps.                                        *)
(***************************************************************************)
CONSTANTS
  Users,     \* the diagnoses that use the skill
  OwnKeys    \* the names in skill.env that the env of mcp.json has too

VARIABLES
  env,       \* the names of skill.env that are in the map
  inside,    \* who is in the map, "reading" or "writing", or "out"
  raced,     \* a race went unnoticed
  alive      \* no race was noticed: the process is there

mapVars == <<env, inside, raced, alive>>

MapInit ==
  /\ env = OwnKeys
  /\ inside = [u \in Users |-> "out"]
  /\ raced = FALSE
  /\ alive = TRUE

Races(u, access) ==
  \E v \in Users \ {u} :
    inside[v] = "writing" \/ (inside[v] = "reading" /\ access = "writing")

\* fatal error: concurrent map writes (or read, or iteration, and write).
Dies(u, access) ==
  /\ Races(u, access)
  /\ alive' = FALSE
  /\ UNCHANGED <<env, inside, raced>>

Enter(u, access) ==
  /\ inside' = [inside EXCEPT ![u] = access]
  /\ raced' = (raced \/ Races(u, access))
  /\ UNCHANGED <<env, alive>>

Leave(u) ==
  /\ inside' = [inside EXCEPT ![u] = "out"]
  /\ UNCHANGED <<env, raced, alive>>

\* A lookup is over before anybody else moves.
Lookup(u, k, found) ==
  /\ raced' = (raced \/ Races(u, "reading"))
  /\ found = (k \in env) \/ raced'
  /\ UNCHANGED <<env, inside, alive>>

LeaveWith(u, k) ==
  /\ env' \in {env \cup {k}} \cup (IF raced THEN {env} ELSE {})
  /\ inside' = [inside EXCEPT ![u] = "out"]
  /\ UNCHANGED <<raced, alive>>
=============================================================================
