---------------------------- MODULE BusPersistence ----------------------------
(***************************************************************************)
(* A session that outlives its process: the bus, the observer that exports *)
(* what the bus streams, and the store that `restore_from` rebuilds from   *)
(* the exported file when the session is opened again.                     *)
(*                                                                         *)
(* The exporter is one of the bus's subscribers.  The process may stop at  *)
(* any step, taking with it the store, every rollback under way and what   *)
(* the exporter had not yet written; the file is what remains.             *)
(*                                                                         *)
(* A definition marked "Slip" is a way to get the one after it wrong.      *)
(***************************************************************************)
EXTENDS EventBus

CONSTANTS
    Exporter,     \* the observer's receiver
    MaxFailures,  \* bound: exports that fail
    MaxRestarts   \* bound: times the session is opened again

ASSUME ExporterAssumption == Exporter \in Subs

VARIABLES
    file,      \* what the exporter has written, in order
    failures,  \* BusObserver::failures
    restarts

pvars == <<vars, file, failures, restarts>>

-----------------------------------------------------------------------------
(* restore_from.                                                           *)

Store == [path : Seq(Id), branches : Seq(Branch), nodes : SUBSET Id]

EmptyStore == [path |-> <<>>, branches |-> <<>>, nodes |-> {}]

\* Slip: a rollback is replayed by cutting the path short.
Off_CutShort(ids, set) ==
    LET hits == {i \in DOMAIN ids : ids[i] \in set}
    IN  IF hits = {} THEN ids
        ELSE SubSeq(ids, 1, (CHOOSE i \in hits : \A j \in hits : i <= j) - 1)

\* `filter` and `retain`: what is in the set, in its order, and what is not.
On(ids, set) ==
    LET kept[n \in 0..Len(ids)] ==
            IF n = 0 THEN <<>>
            ELSE IF ids[n] \in set THEN Append(kept[n - 1], ids[n])
            ELSE kept[n - 1]
    IN  kept[Len(ids)]

Off(ids, set) == On(ids, Range(ids) \ set)

\* Slip: a tombstone is an event like any other.
Unroll_Ignored(st, e) == st

\* Slip: the branch is taken to hang from what is now the end of the path.
Unroll_FromTip(st, e) ==
    IF e.kind = Rollback /\ e.rejected # {}
    THEN LET kept == Off(st.path, e.rejected)
         IN  [st EXCEPT !.path = kept,
                        !.branches = Append(@, [parent |-> ActiveTip(kept),
                                                ids |-> On(st.path, e.rejected)])]
    ELSE st

\* A tombstone moves what it rejected onto a branch of its own, even if none of
\* it is on the path.
Unroll(st, e) ==
    IF e.kind = Rollback /\ e.rejected # {}
    THEN [st EXCEPT !.path = Off(@, e.rejected),
                    !.branches = Append(@, [parent |-> e.cut,
                                            ids |-> On(st.path, e.rejected)])]
    ELSE st

Settle(st, id) == [st EXCEPT !.path = Append(@, id), !.nodes = @ \cup {id}]

\* The body of the loop: what was only fanned out is skipped, and a tombstone
\* takes its place on the path after its rollback has been replayed.
RestoreStep(events, st, item) ==
    IF item = Ephemeral THEN st ELSE Settle(Unroll(st, events[item]), item)

\* The loop over the items of a file, each with the event it names.
RestoreFrom(events, items) ==
    LET st[n \in 0..Len(items)] ==
            IF n = 0 THEN EmptyStore ELSE RestoreStep(events, st[n - 1], items[n])
    IN  st[Len(items)]

-----------------------------------------------------------------------------
(* The observer and the process.                                           *)

Persisted == <<file, failures, restarts>>

Export ==
    /\ Recv(Exporter)
    /\ file' = Append(file, Head(chan[Exporter].q))
    /\ UNCHANGED <<failures, restarts>>

\* The event is not offered again: the loop logs the error and goes on.
ExportFails ==
    /\ failures < MaxFailures
    /\ Recv(Exporter)
    /\ failures' = failures + 1
    /\ UNCHANGED <<file, restarts>>

Attached == [s \in Subs |-> [state |-> IF s = Exporter THEN "open" ELSE "off",
                             q     |-> <<>>]]

\* The process stops and the session is opened again: restore, then subscribe
\* the exporter, whose file is the one that was read.
Restart ==
    /\ restarts < MaxRestarts
    /\ LET st == RestoreFrom(history, file)
       IN  /\ active_path' = st.path
           /\ rejected_branches' = st.branches
           /\ nodes' = st.nodes
    /\ call' = [c \in Callers |-> Idle]
    /\ chan' = Attached
    /\ restarts' = restarts + 1
    /\ failures' = 0
    /\ UNCHANGED <<history, handed, file>>

PInit ==
    /\ InitStore
    /\ chan = Attached
    /\ file = <<>>
    /\ failures = 0
    /\ restarts = 0

BusStep ==
    /\ Client \/ Close \/ \E c \in Callers : Rolling(c)
    /\ UNCHANGED Persisted

PNext == BusStep \/ Export \/ ExportFails \/ Restart

PSpec == PInit /\ [][PNext]_pvars

\* The runtime runs every task that is ready and the store lock is granted in
\* the order it is asked for, so a rollback that has begun goes on and a queued
\* event is received; nothing says that a client publishes, or that a process
\* restarts.
PFairness ==
    /\ WF_pvars(Export)
    /\ \A c \in Callers :
         WF_pvars((RollbackEvict(c) \/ RollbackAnnounce(c) \/ RollbackTombstone(c))
                  /\ UNCHANGED Persisted)

PFairSpec == PSpec /\ PFairness

-----------------------------------------------------------------------------
(* Properties.                                                             *)

\* The types of EventBus still hold after a restart, and the file holds events
\* that were published.
PTypeOK ==
    /\ TypeOK
    /\ file \in Seq(Published \cup {Ephemeral})
    /\ failures \in 0..MaxFailures
    /\ restarts \in 0..MaxRestarts

Stream == file \o chan[Exporter].q

\* What rollbacks have taken off the path without a tombstone to say so: those
\* under way, and those whose task was dropped.
Unsettled == UNION {call[c].rejected : c \in Callers}

\* The exporter has been offered everything and has written all it was given:
\* an observer whose queue may be full misses events without being told.
Whole == failures = 0 /\ chan[Exporter].state = "open" /\ Capacity = UsizeMax

\* What was streamed to the exporter always rebuilds the active path, except
\* that rollbacks not yet recorded by a tombstone are undone.  Once they have
\* settled it is the path exactly, whatever restarts and concurrent rollbacks
\* came before.
RestoreIsFaithful ==
    Whole => Off(RestoreFrom(history, Stream).path, Unsettled) = active_path

\* A session opened again knows every rejected branch the bus still holds, with
\* the same parent and the same events in the same order, although tombstones
\* may be logged in another order than their branches were sealed in.
RestoreKeepsBranches ==
    Whole /\ Unsettled = {} =>
        Range(rejected_branches) \subseteq Range(RestoreFrom(history, Stream).branches)

\* No exported event is dropped by the replay: each is on the restored path or
\* on a restored branch, and in one place only.
RestoreKeepsEvents ==
    LET st == RestoreFrom(history, file)
    IN  /\ Reachable(st.path, st.branches) = Range(file) \ {Ephemeral}
        /\ Range(st.path) \cap IdsOf(st.branches) = {}
        /\ NoRepeats(st.path)

\* If clients stop, the file of an exporter that lost nothing comes to rebuild
\* the path exactly, unless a rollback was dropped on its way.
EventuallyDurable ==
    <>[](Whole /\ (\A c \in Callers : call[c].phase # "aborted")
           => RestoreFrom(history, file).path = active_path)

-----------------------------------------------------------------------------
(* What does not hold; no configuration checks it. See the README.         *)

\* "a restored session never resurrects trajectories that were rolled away":
\* reopening a session that had written its whole stream and had no rollback
\* running puts no event of a rejected branch back on the path.
RestartNeverResurrects ==
    [][Restart /\ Whole /\ chan[Exporter].q = <<>>
         /\ (\A c \in Callers : ~InFlight(c))
       => IdsOf(rejected_branches) \cap Range(active_path') = {}]_pvars
=============================================================================
