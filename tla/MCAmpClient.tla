---------------------------- MODULE MCAmpClient ----------------------------
(***************************************************************************)
(* Two diagnoses that share a skill, one of whose two names in skill.env   *)
(* mcp.json has already.                                                   *)
(***************************************************************************)
EXTENDS AmpClient
=============================================================================
