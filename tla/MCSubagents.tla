----------------------------- MODULE MCSubagents -----------------------------
(* Subagents of sessions on one repository, for TLC.                          *)
EXTENDS Subagents, TLC

\* Calls are treated alike, and no property is temporal.
CallSymmetry == Permutations(Calls)
=============================================================================
