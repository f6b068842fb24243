------------------------------- MODULE EventBus -------------------------------
(***************************************************************************)
(* The in-process event bus of src/bus.rs: a log of events that can be cut *)
(* back to a checkpoint, the rejected branches the cuts leave behind, the  *)
(* registry both point into, and one channel per subscriber.               *)
(*                                                                         *)
(* `publish` is one step: it holds the store lock from the link to the     *)
(* parent until the last subscriber has been offered the event.  `rollback`*)
(* is four steps, because it gives the lock back three times on its way:   *)
(* it seals the branch, evicts what exceeds the limit, tells the           *)
(* subscribers, and publishes a tombstone.  Any other task may run between *)
(* two of them, and the rolling task may be dropped at each await.         *)
(*                                                                         *)
(* An event is named by its place in `history`, the sequence of everything *)
(* ever published: names are fresh, as the UUIDs of the code are, and a    *)
(* smaller name was published earlier.  Payloads, timestamps and metadata  *)
(* are left out; so are the publish transforms, which rewrite payloads.    *)
(*                                                                         *)
(* A definition marked "Slip" is not part of the model: it is a way to get *)
(* the definition after it wrong, kept to show that a property notices.    *)
(***************************************************************************)
EXTENDS Integers, Sequences, FiniteSets, Functions

CONSTANTS
    Callers,      \* the tasks that may be inside `rollback` at one time
    Subs,         \* the receivers handed out by `subscribe`
    Kinds,        \* the kinds of event clients publish
    ReplyTo,      \* the events a client may name with `Event::with_parent`
    MaxRetained,  \* BusConfig::max_retained_branches
    Capacity,     \* BusConfig::subscriber_capacity
    UsizeMax,     \* usize::MAX, which as a capacity means "unbounded"
    MaxEvents,    \* bound: how many events are ever published
    MaxQueue      \* bound: no broadcast while a queue is this long

ASSUME LimitsAssumption ==
    /\ MaxRetained \in Nat
    /\ Capacity \in Nat \ {0}
    /\ UsizeMax \in Nat
    /\ MaxEvents \in Nat
    /\ MaxQueue \in Nat

ASSUME TasksAssumption == IsFiniteSet(Callers)

Rollback == "system.rollback"

ASSUME KindsAssumption == Rollback \notin Kinds

VARIABLES
    history,            \* every event ever published, in order of publication
    nodes,              \* DagStore::nodes: the events still in the registry
    active_path,        \* DagStore::active_path
    rejected_branches,  \* DagStore::rejected_branches, oldest first
    handed,             \* the events on_evict has been given
    call,               \* where each caller is inside `rollback`
    chan                \* BusInner::subs and the queue of each receiver

store == <<history, nodes, active_path, rejected_branches, handed>>
vars == <<store, call, chan>>

-----------------------------------------------------------------------------
(* Events, branches and channels.                                          *)

Id == Nat \ {0}
None == 0        \* Option::None, for a parent
Ephemeral == 0   \* what a subscriber sees of an event that was only fanned out

\* A message has nothing rejected; a tombstone carries the parent of the branch
\* it records and the events that were on it.
Event == [kind     : Kinds \cup {Rollback},
          parent   : Id \cup {None},
          cut      : Id \cup {None},
          rejected : SUBSET Id]

\* The UUID of a branch is left out: no two branches share an event.
Branch == [parent : Id \cup {None}, ids : Seq(Id)]

Phases == {"idle", "sealed", "evicted", "announced", "aborted"}

\* The locals of a rollback that outlive its first critical section.
Call == [phase    : Phases,
         cut      : Id \cup {None},
         rejected : SUBSET Id,
         pruned   : BOOLEAN]

Idle == [phase |-> "idle", cut |-> None, rejected |-> {}, pruned |-> FALSE]

InFlight(c) == call[c].phase \in {"sealed", "evicted", "announced"}

Channel == [state : {"off", "open", "gone"}, q : Seq(Id \cup {Ephemeral})]

\* Every caller inside a rollback still has a tombstone to publish.
Room == Len(history) + Cardinality({c \in Callers : InFlight(c)}) < MaxEvents

-----------------------------------------------------------------------------
(* Delivery.                                                               *)

\* Slip: the sentinel for an unbounded queue is not recognised.
Full_OneSlot(ch) == Len(ch.q) >= 1

Full(ch) == Capacity # UsizeMax /\ Len(ch.q) >= Capacity

\* SenderInner::try_deliver and the `retain` around it: a full queue loses the
\* event and keeps its sender, a dropped receiver loses its sender.
TryDeliver(ch, item) ==
    CASE ch.state = "open" /\ ~Full(ch) -> [ch EXCEPT !.q = Append(@, item)]
      [] ch.state = "gone"              -> [ch EXCEPT !.state = "off"]
      [] OTHER                          -> ch

FanOut(chs, item) == [s \in Subs |-> TryDeliver(chs[s], item)]

-----------------------------------------------------------------------------
(* Publishing and subscribing.                                             *)

\* Slip: a new event is linked to the last one published, not to the tip.
ActiveTip_LastPublished(path) == Len(history)

ActiveTip(path) == IF path = <<>> THEN None ELSE path[Len(path)]

\* The critical section of `publish`.
Commit(event) ==
    LET id == Len(history) + 1
        parent == IF event.parent = None THEN ActiveTip(active_path)
                                         ELSE event.parent
    IN  /\ history' = Append(history, [event EXCEPT !.parent = parent])
        /\ nodes' = nodes \cup {id}
        /\ active_path' = Append(active_path, id)
        /\ chan' = FanOut(chan, id)
        /\ UNCHANGED <<rejected_branches, handed>>

Message(k, p) == [kind |-> k, parent |-> p, cut |-> None, rejected |-> {}]

Publish(k, p) ==
    /\ Room
    /\ Commit(Message(k, p))
    /\ UNCHANGED call

\* `broadcast`: the subscribers hear of the event, the store does not.
Broadcast ==
    /\ \A s \in Subs : Len(chan[s].q) < MaxQueue
    /\ chan' = FanOut(chan, Ephemeral)
    /\ UNCHANGED <<store, call>>

Subscribe(s) ==
    /\ chan[s] = [state |-> "off", q |-> <<>>]
    /\ chan' = [chan EXCEPT ![s].state = "open"]
    /\ UNCHANGED <<store, call>>

Recv(s) ==
    /\ chan[s].q # <<>>
    /\ chan' = [chan EXCEPT ![s].q = Tail(@)]
    /\ UNCHANGED <<store, call>>

\* The receiver is dropped; its sender stays in `subs` until the next fan-out.
DropReceiver(s) ==
    /\ chan[s].state = "open" \/ chan[s].q # <<>>
    /\ chan' = [chan EXCEPT ![s] =
                  [state |-> IF @.state = "open" THEN "gone" ELSE @.state,
                   q     |-> <<>>]]
    /\ UNCHANGED <<store, call>>

\* `close` drops the senders; what is queued can still be received.
Close ==
    /\ chan' = [s \in Subs |-> [chan[s] EXCEPT !.state = "off"]]
    /\ UNCHANGED <<store, call>>

-----------------------------------------------------------------------------
(* Rollback.                                                               *)

ParentAt(path, pos) == IF pos > 1 THEN path[pos - 1] ELSE None

\* Slip: the checkpoint itself stays on the path.
Before_WithCheckpoint(path, pos) == SubSeq(path, 1, pos)

\* `truncate(pos)` and `[pos..]`, counted from one.
Before(path, pos) == SubSeq(path, 1, pos - 1)

\* Slip: the checkpoint goes with neither side.
From_AfterCheckpoint(path, pos) == SubSeq(path, pos + 1, Len(path))

From(path, pos) == SubSeq(path, pos, Len(path))

\* First critical section.  A checkpoint that is not on the path makes the call
\* return CheckpointNotFound with nothing changed, which is a stuttering step.
RollbackSeal(c, pos) ==
    LET cut == ParentAt(active_path, pos)
        ids == From(active_path, pos)
    IN  /\ call[c].phase = "idle"
        /\ Room
        /\ rejected_branches' =
               Append(rejected_branches, [parent |-> cut, ids |-> ids])
        /\ active_path' = Before(active_path, pos)
        /\ call' = [call EXCEPT ![c] = [phase    |-> "sealed",
                                        cut      |-> cut,
                                        rejected |-> Range(ids),
                                        pruned   |-> FALSE]]
        /\ UNCHANGED <<history, nodes, handed, chan>>

\* Slip: one branch too many is tolerated.
Excess_OffByOne(branches) ==
    IF Len(branches) > MaxRetained + 1 THEN Len(branches) - MaxRetained ELSE 0

Excess(branches) ==
    IF Len(branches) > MaxRetained THEN Len(branches) - MaxRetained ELSE 0

\* Slip: the newest branches are evicted.
Retained_Oldest(branches) == SubSeq(branches, 1, Len(branches) - Excess(branches))

\* DagStore::evict_excess_branches drains the oldest branches ...
Retained(branches) == SubSeq(branches, Excess(branches) + 1, Len(branches))
Drained(branches) == SubSeq(branches, 1, Excess(branches))

IdsOf(branches) == UNION {Range(branches[i].ids) : i \in DOMAIN branches}

Reachable(path, branches) == Range(path) \cup IdsOf(branches)

\* Slip: the collector looks at the path only.
Collect_PathOnly(ns, path, branches) ==
    IF Excess(branches) = 0 THEN ns ELSE ns \cap Range(path)

\* ... and collects the nodes that neither the path nor a branch refers to.
Collect(ns, path, branches) ==
    IF Excess(branches) = 0 THEN ns ELSE ns \cap Reachable(path, Retained(branches))

\* Second critical section.
RollbackEvict(c) ==
    /\ call[c].phase = "sealed"
    /\ rejected_branches' = Retained(rejected_branches)
    /\ handed' = handed \cup (IdsOf(Drained(rejected_branches)) \cap nodes)
    /\ nodes' = Collect(nodes, active_path, rejected_branches)
    /\ call' = [call EXCEPT ![c] =
                  [@ EXCEPT !.phase = "evicted",
                            !.pruned = Excess(rejected_branches) > 0]]
    /\ UNCHANGED <<history, active_path, chan>>

\* `system.branch_sealed`, and `system.pruned` if anything was evicted; they
\* bypass the store, so only the subscribers' lock is taken.
RollbackAnnounce(c) ==
    /\ call[c].phase = "evicted"
    /\ LET sealed == FanOut(chan, Ephemeral)
       IN  chan' = IF call[c].pruned THEN FanOut(sealed, Ephemeral) ELSE sealed
    /\ call' = [call EXCEPT ![c].phase = "announced"]
    /\ UNCHANGED store

\* Slip: what was rejected is worked out when the tombstone is written.
Tombstone_Recomputed(c) ==
    [kind     |-> Rollback,
     parent   |-> None,
     cut      |-> call[c].cut,
     rejected |-> {id \in DOMAIN history : id > call[c].cut}]

Tombstone(c) == [kind     |-> Rollback,
                 parent   |-> None,
                 cut      |-> call[c].cut,
                 rejected |-> call[c].rejected]

\* Slip: the locals of the call are not given up with it.
RollbackTombstone_KeepsLocals(c) ==
    /\ call[c].phase = "announced"
    /\ Commit(Tombstone(c))
    /\ call' = [call EXCEPT ![c].phase = "idle"]

RollbackTombstone(c) ==
    /\ call[c].phase = "announced"
    /\ Commit(Tombstone(c))
    /\ call' = [call EXCEPT ![c] = Idle]

\* The future is dropped where it awaits the store lock: before the eviction,
\* or inside the last `publish`.  Between those two there is no await.
Abort(c) ==
    /\ call[c].phase \in {"sealed", "announced"}
    /\ call' = [call EXCEPT ![c].phase = "aborted"]
    /\ UNCHANGED <<store, chan>>

-----------------------------------------------------------------------------

InitStore ==
    /\ history = <<>>
    /\ nodes = {}
    /\ active_path = <<>>
    /\ rejected_branches = <<>>
    /\ handed = {}
    /\ call = [c \in Callers |-> Idle]

Init ==
    /\ InitStore
    /\ chan = [s \in Subs |-> [state |-> "off", q |-> <<>>]]

\* A client can name an event as a parent once it has been published.
Client ==
    \/ \E k \in Kinds : Publish(k, None)
    \/ \E k \in Kinds, p \in ReplyTo \cap DOMAIN history : Publish(k, p)
    \/ Broadcast

Subscription ==
    \/ \E s \in Subs : Subscribe(s) \/ Recv(s) \/ DropReceiver(s)
    \/ Close

\* `position` finds the first occurrence of the checkpoint; any event on the
\* path will do as one.
Rolling(c) ==
    \/ \E pos \in DOMAIN active_path :
         /\ \A i \in 1..(pos - 1) : active_path[i] # active_path[pos]
         /\ RollbackSeal(c, pos)
    \/ RollbackEvict(c)
    \/ RollbackAnnounce(c)
    \/ RollbackTombstone(c)
    \/ Abort(c)

Next == Client \/ Subscription \/ \E c \in Callers : Rolling(c)

Spec == Init /\ [][Next]_vars

-----------------------------------------------------------------------------
(* Properties.                                                             *)

Published == DOMAIN history

\* Every variable has its type, names only published events, and a caller
\* outside `rollback` holds none of a rollback's locals.
TypeOK ==
    /\ history \in Seq(Event)
    /\ nodes \subseteq Published
    /\ active_path \in Seq(Published)
    /\ rejected_branches \in Seq([parent : Published \cup {None},
                                   ids    : Seq(Published)])
    /\ handed \subseteq Published
    /\ call \in [Callers -> [phase    : Phases,
                             cut      : Published \cup {None},
                             rejected : SUBSET Published,
                             pruned   : BOOLEAN]]
    /\ \A c \in Callers : call[c].phase = "idle" => call[c] = Idle
    /\ chan \in [Subs -> [state : {"off", "open", "gone"},
                          q     : Seq(Published \cup {Ephemeral})]]

\* The collector never frees an event that the path or a retained branch still
\* names, whichever rollback runs it and whatever others have sealed since:
\* `log` and `all_rejected_branches` look events up with `filter_map`, so a
\* freed one would vanish from them without an error.
NodesRetained == Reachable(active_path, rejected_branches) \subseteq nodes

NoRepeats(ids) == \A i, j \in DOMAIN ids : ids[i] = ids[j] => i = j

\* An event has one place: it is on the path once, or on one rejected branch
\* once, never on two of them.  Two callers rolling back across each other must
\* not both seal it.
OnePlace ==
    /\ NoRepeats(active_path)
    /\ \A i \in DOMAIN rejected_branches :
         /\ NoRepeats(rejected_branches[i].ids)
         /\ Range(rejected_branches[i].ids) \cap Range(active_path) = {}
    /\ \A i, j \in DOMAIN rejected_branches :
         i # j => Range(rejected_branches[i].ids)
                    \cap Range(rejected_branches[j].ids) = {}

\* Nothing published is lost: an event is on the path, on a retained branch, or
\* was given to `on_evict` with its branch before its memory was reclaimed.
NoEventLost ==
    Published \subseteq Reachable(active_path, rejected_branches) \cup handed

\* The event a retained branch hangs from is still in the registry, so
\* `rejected_branches_from` has an anchor to be asked about.  It may itself
\* have been rolled away since; what keeps it is that branches are evicted
\* oldest first.
AnchorsResolve ==
    \A i \in DOMAIN rejected_branches :
        rejected_branches[i].parent \in nodes \cup {None}

\* More branches than `max_retained_branches` are held only while a rollback is
\* between its seal and its eviction, one for each (a caller dropped there
\* leaves its excess to the next rollback).
BoundedRetention ==
    Len(rejected_branches) <=
        MaxRetained
        + Cardinality({c \in Callers : call[c].phase \in {"sealed", "aborted"}})

\* The events of a path or branch are linked one to the next and the first to
\* the root, except where a client chose the parent.
Chained(ids, root) ==
    \A i \in DOMAIN ids :
        history[ids[i]].parent \in
            {IF i = 1 THEN root ELSE ids[i - 1]} \cup ReplyTo

\* The links the events carry agree with the path and the branches they are on,
\* however publishes and rollbacks of other tasks interleave.
ChainIntact ==
    /\ Chained(active_path, None)
    /\ \A i \in DOMAIN rejected_branches :
         Chained(rejected_branches[i].ids, rejected_branches[i].parent)

\* No event on the path has been rejected by a tombstone that is on the path
\* with it, nor by a rollback whose tombstone is still to come: replaying the
\* log gives the log back.
TombstonesHonoured ==
    /\ \A id \in Range(active_path) :
         history[id].rejected \cap Range(active_path) = {}
    /\ \A c \in Callers : call[c].rejected \cap Range(active_path) = {}

\* Events that were stored come by in the order they were, and no later one is passed over.
InOrder(q) ==
    \A i, j \in DOMAIN q : i < j /\ Ephemeral \notin {q[i], q[j]} => q[i] < q[j]
NoGap(q, ids) ==
    \A i \in DOMAIN q : q[i] # Ephemeral =>
        \A id \in ids : q[i] <= id => \E j \in DOMAIN q : q[j] = id

\* What waits in a subscriber's queue comes in the order of the log; if the
\* queue is unbounded and still fed, it is the end of the log with no gap.
StreamMatchesLog ==
    \A s \in Subs :
        /\ InOrder(chan[s].q)
        /\ chan[s].state = "open" /\ Capacity = UsizeMax => NoGap(chan[s].q, Published)

-----------------------------------------------------------------------------
(* The bus as its readers see it.                                          *)

\* The tombstone a caller still has to publish.
Owed == [c \in Callers |-> IF InFlight(c) THEN call[c].rejected ELSE {}]

Promise ==
    INSTANCE BusLog WITH
        log <- active_path,
        used <- Published,
        branches <- [i \in DOMAIN rejected_branches |-> rejected_branches[i].ids],
        owed <- Owed

\* Seen from outside, through all the steps of concurrent rollbacks, their
\* evictions and their dropped futures, the bus is a log that grows by fresh
\* events and is cut: no step loses, invents, moves or revives an event.
ImplementsBusLog == Promise!LogSpec

=============================================================================
