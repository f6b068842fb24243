------------------------------ MODULE Filtering ------------------------------
(***************************************************************************)
(* What a filter over a list leaves, said by places and not by recursion,  *)
(* so that the provers can reason about it.                                *)
(***************************************************************************)
EXTENDS Integers, Sequences, FiniteSets, Functions

\* What a filter leaves of a list: what it has at `places`, in its order.  So are the
\* components `reconcile` looks at chosen, `remove` cuts the order of loading, and a
\* session that resumes collects its checkpoints.
Filtered(list, places) ==
    {[k \in DOMAIN f |-> list[f[k]]] :
        f \in {g \in Bijection(1..Cardinality(places), places) :
                \A j, k \in DOMAIN g : j < k => g[j] < g[k]}}
=============================================================================
