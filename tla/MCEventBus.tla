----------------------------- MODULE MCEventBus -----------------------------
(***************************************************************************)
(* A small bus for TLC: tasks and receivers are interchangeable.           *)
(***************************************************************************)
EXTENDS EventBus, TLC

Interchangeable == Permutations(Callers)
=============================================================================
