----------------------------- MODULE MCToolCycle -----------------------------
(***************************************************************************)
(* Tools for TLC, one of a kind: a search that may be replayed, a deploy   *)
(* that has to be approved and ends the turn, a rename that has to be      *)
(* approved and that a pattern has among what may be replayed, one the     *)
(* hooks deny, and one at which they abort and whose interruption a human  *)
(* has to look into.                                                       *)
(***************************************************************************)
EXTENDS ToolCycle

FewTools == {"search", "deploy", "rename", "remove", "halt"}
FewVerdicts == [search |-> "allow", deploy |-> "ask", rename |-> "ask",
                remove |-> "deny", halt |-> "abort"]
FewPolicies == [search |-> "replay", deploy |-> "report", rename |-> "replay",
                remove |-> "report", halt |-> "fail"]
=============================================================================
