--------------------------- MODULE MCBusPersistence ---------------------------
(***************************************************************************)
(* A session of a few events that is opened again, for TLC: two tasks roll *)
(* back, and the exporter is the only subscriber.  What becomes durable is *)
(* a liveness property, so the tasks are not made interchangeable.         *)
(***************************************************************************)
EXTENDS BusPersistence
=============================================================================
