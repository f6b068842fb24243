----------------------------- MODULE MCAgentLoop -----------------------------
(***************************************************************************)
(* Two agents, with a permit for one or without a limit, for TLC.          *)
(***************************************************************************)
EXTENDS AgentLoop
=============================================================================
