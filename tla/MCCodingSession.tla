--------------------------- MODULE MCCodingSession ---------------------------
(***************************************************************************)
(* Two requests at a time, a file that is there at the start and one that  *)
(* is not, for TLC.                                                        *)
(***************************************************************************)
EXTENDS CodingSession

CONSTANTS f1, f2

OneFile == {[f \in Files |-> IF f = f1 THEN 1 ELSE 0]}
=============================================================================
