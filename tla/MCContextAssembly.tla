-------------------------- MODULE MCContextAssembly --------------------------
(***************************************************************************)
(* A session of a few turns for TLC.                                       *)
(***************************************************************************)
EXTENDS ContextAssembly
=============================================================================
