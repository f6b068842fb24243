-------------------------------- MODULE BusLog --------------------------------
(***************************************************************************)
(* What the event bus promises to those who read it, and nothing of how:   *)
(* a log that grows at its end by events nobody has seen before, and that  *)
(* a rollback cuts back.  What a cut takes off is kept as a branch until   *)
(* it is forgotten, oldest branch first, and the cut is owed a tombstone,  *)
(* which a rollback that is dropped on its way never pays.                 *)
(*                                                                         *)
(* EventBus implements this specification (BusProofs).                     *)
(***************************************************************************)
EXTENDS Naturals, Sequences, Functions

CONSTANT Callers  \* the tasks that may be inside `rollback` at one time

VARIABLES
    log,       \* EventBus::log
    used,      \* every event that was ever on the log
    branches,  \* EventBus::all_rejected_branches
    owed       \* for each caller, the events its tombstone is to name

busVars == <<log, used, branches, owed>>

LogInit ==
    /\ log = <<>>
    /\ used = {}
    /\ branches = <<>>
    /\ owed = [c \in Callers |-> {}]

Grow(e) ==
    /\ e \notin used
    /\ log' = Append(log, e)
    /\ used' = used \cup {e}
    /\ UNCHANGED branches

Publish(e) == Grow(e) /\ UNCHANGED owed

\* A cut takes off the checkpoint and everything after it.
Cut(c, pos) ==
    /\ owed[c] = {}
    /\ log' = SubSeq(log, 1, pos - 1)
    /\ branches' = Append(branches, SubSeq(log, pos, Len(log)))
    /\ owed' = [owed EXCEPT ![c] = Range(SubSeq(log, pos, Len(log)))]
    /\ UNCHANGED used

Forget(n) ==
    /\ branches' = SubSeq(branches, n + 1, Len(branches))
    /\ UNCHANGED <<log, used, owed>>

\* The tombstone is itself an event of the log.
Announce(c, e) ==
    /\ owed[c] # {}
    /\ Grow(e)
    /\ owed' = [owed EXCEPT ![c] = {}]

Abandon(c) ==
    /\ owed' = [owed EXCEPT ![c] = {}]
    /\ UNCHANGED <<log, used, branches>>

\* Any value may be an event: the new one is the last of the log it leads to.
LogNext ==
    \/ \E e \in Range(log') : Publish(e)
    \/ \E c \in Callers, e \in Range(log') : Announce(c, e)
    \/ \E c \in Callers, pos \in DOMAIN log : Cut(c, pos)
    \/ \E c \in Callers : Abandon(c)
    \/ \E n \in DOMAIN branches : Forget(n)

LogSpec == LogInit /\ [][LogNext]_busVars

-----------------------------------------------------------------------------
(* Properties.                                                             *)

\* What is not on the log after it was published never comes back to it: a
\* reader that forgot a rolled away event need not ask about it again.
NeverBack == [][Range(log') \cap used \subseteq Range(log)]_busVars
=============================================================================
