--------------------------------- MODULE Mesh ---------------------------------
(***************************************************************************)
(* Buses joined: distributed.rs between processes, bridge.rs within one.   *)
(*                                                                         *)
(* A DistributedBus has two tasks: the outbound one sends what its own bus *)
(* publishes to the peers of its TcpTransport, the inbound one publishes   *)
(* what comes from them. A BusBridge is a worker that publishes the events *)
(* of one bus on another. An event keeps its id wherever it goes; what it  *)
(* gains on the way is the node it came from and a count of bridges.       *)
(*                                                                         *)
(* The filters by kind are left out (every event is shared), and so are    *)
(* frames that do not parse. So are rollbacks, which would take events off *)
(* a bus's active path but not off what was published there, and the       *)
(* broadcasts of EventBus: they are on no path of their own bus, a node    *)
(* forwards them all the same, and its peers publish them for good.        *)
(*                                                                         *)
(* A connection delivers in order until it is lost; nothing in             *)
(* distributed.rs makes a new one.                                         *)
(*                                                                         *)
(* A definition marked "Slip" is not part of the model: it is a way to get *)
(* the definition after it wrong, kept to show that a property notices.    *)
(***************************************************************************)
EXTENDS Integers, Sequences, FiniteSets, SequencesExt

CONSTANTS
    Buses,       \* the buses
    Links,       \* the connections between two buses: sets of two
    Bridges,     \* pairs of a bus and the bus a BusBridge forwards it to
    MaxHops,     \* BusBridge::max_hops
    Memory,      \* SEEN_CAPACITY
    MaxEvents,   \* bound: how many events are published in all
    MaxLosses    \* bound: connections lost

Nobody == "nobody"

ASSUME MeshAssumption ==
    /\ Nobody \notin Buses
    /\ \A l \in Links : l \subseteq Buses /\ Cardinality(l) = 2
    /\ Bridges \subseteq Buses \X Buses
    /\ MaxHops \in Nat \ {0}
    /\ Memory \in Nat \ {0}
    /\ {MaxEvents, MaxLosses} \subseteq Nat

Wires == {w \in Buses \X Buses : {w[1], w[2]} \in Links}
Nodes == UNION Links

VARIABLES
    log,      \* the stream of each bus: all that was published there, in order
    made,     \* history: the events first published on each bus, in order
    state,    \* each node's DistributedBus: not yet run, running, ended
    sub,      \* the subscription of each outbound task
    seen,     \* SeenEvents::order of each node
    wire,     \* what is under way from one node to another: writer queue and socket
    inbox,    \* TcpTransport::inbound of each node
    held,     \* the event each inbound task has marked and not yet published
    up,       \* the connections that are not lost
    crossing, \* the subscription of each bridge
    since     \* history: how many events each bus had made when the last node started

vars == <<log, made, state, sub, seen, wire, inbox, held, up, crossing, since>>

-----------------------------------------------------------------------------
(* The buses.                                                              *)

Event(id) == [id |-> id, origin |-> Nobody, hops |-> 0]
IdsOf(stream) == {stream[i].id : i \in DOMAIN stream}

\* EventBus::publish, the one way into a stream here.
Publish(n, e) ==
    /\ log' = [log EXCEPT ![n] = Append(@, e)]
    /\ crossing' = [b \in Bridges |-> IF b[1] = n THEN Append(crossing[b], e) ELSE crossing[b]]

\* The queue of the outbound task after e is published, if it has subscribed.
Heard(n, e) == IF n \in Nodes /\ state[n] = "running" THEN Append(sub[n], e) ELSE sub[n]

Made == {id \in Buses \X (1..MaxEvents) : id[2] <= Len(made[id[1]])}

Local(n) ==
    LET e == Event(<<n, Len(made[n]) + 1>>) IN
    /\ Cardinality(Made) < MaxEvents
    /\ made' = [made EXCEPT ![n] = Append(@, e.id)]
    /\ Publish(n, e)
    /\ sub' = [sub EXCEPT ![n] = Heard(n, e)]
    /\ UNCHANGED <<state, seen, wire, inbox, held, up, since>>

-----------------------------------------------------------------------------
(* DistributedBus::run.                                                    *)

Start(n) ==
    /\ state[n] = "new"
    /\ state' = [state EXCEPT ![n] = "running"]
    /\ since' = [m \in Buses |-> Len(made[m])]
    /\ UNCHANGED <<log, made, sub, seen, wire, inbox, held, up, crossing>>

\* SeenEvents::insert: a ring.
Remember(ids, id) ==
    LET longer == Append(ids, id) IN
    IF Len(longer) > Memory THEN Tail(longer) ELSE longer

\* Slip: only what is remembered is not sent on.
Foreign_Never(n, e) == FALSE
\* Slip: an event without the marker counts as another node's.
Foreign_Unmarked(n, e) == e.origin # n
Foreign(n, e) == e.origin \notin {n, Nobody}

\* TcpTransport::send: to every peer that has not gone.
SendAll(n, e) ==
    wire' = [w \in Wires |-> IF w[1] = n /\ {w[1], w[2]} \in up THEN Append(wire[w], e) ELSE wire[w]]

Outbound(n) ==
    /\ state[n] = "running"
    /\ sub[n] # <<>>
    /\ sub' = [sub EXCEPT ![n] = Tail(@)]
    /\ LET e == Head(sub[n]) IN
       IF Foreign(n, e) \/ e.id \in ToSet(seen[n])
         THEN UNCHANGED <<seen, wire>>
         ELSE /\ seen' = [seen EXCEPT ![n] = Remember(@, e.id)]
              /\ SendAll(n, [e EXCEPT !.origin = n])
    /\ UNCHANGED <<log, made, state, inbox, held, up, crossing, since>>

\* The reader task of one connection; it reads what had been sent before the loss.
Read(w) ==
    /\ wire[w] # <<>>
    /\ wire' = [wire EXCEPT ![w] = Tail(@)]
    /\ inbox' = [inbox EXCEPT ![w[2]] = Append(@, Head(wire[w]))]
    /\ UNCHANGED <<log, made, state, sub, seen, held, up, crossing, since>>

\* Slip: the task does not wait for the publish before.
Take_NoWait(n) ==
    /\ state[n] = "running"
    /\ inbox[n] # <<>>
    /\ inbox' = [inbox EXCEPT ![n] = Tail(@)]
    /\ LET e == Head(inbox[n]) IN
       IF e.id \in ToSet(seen[n])
         THEN UNCHANGED <<seen, held>>
         ELSE /\ seen' = [seen EXCEPT ![n] = Remember(@, e.id)]
              /\ held' = [held EXCEPT ![n] = <<e>>]
    /\ UNCHANGED <<log, made, state, sub, wire, up, crossing, since>>

\* The inbound task takes an event and marks it; publishing it is a step of its own.
Take(n) ==
    /\ state[n] = "running"
    /\ held[n] = <<>>
    /\ inbox[n] # <<>>
    /\ inbox' = [inbox EXCEPT ![n] = Tail(@)]
    /\ LET e == Head(inbox[n]) IN
       IF e.id \in ToSet(seen[n])
         THEN UNCHANGED <<seen, held>>
         ELSE /\ seen' = [seen EXCEPT ![n] = Remember(@, e.id)]
              /\ held' = [held EXCEPT ![n] = <<e>>]
    /\ UNCHANGED <<log, made, state, sub, wire, up, crossing, since>>

Inbound(n) ==
    /\ state[n] = "running"
    /\ held[n] # <<>>
    /\ held' = [held EXCEPT ![n] = <<>>]
    /\ Publish(n, held[n][1])
    /\ sub' = [sub EXCEPT ![n] = Heard(n, held[n][1])]
    /\ UNCHANGED <<made, state, seen, wire, inbox, up, since>>

\* Frames that are still in the writer's queue when the connection goes are lost.
Lose(l) ==
    /\ l \in up
    /\ Cardinality(Links \ up) < MaxLosses
    /\ up' = up \ {l}
    /\ \E sent \in [{w \in Wires : {w[1], w[2]} = l} -> 0..MaxEvents] :
           /\ \A w \in DOMAIN sent : sent[w] <= Len(wire[w])
           /\ wire' = [w \in Wires |-> IF w \in DOMAIN sent THEN SubSeq(wire[w], 1, sent[w]) ELSE wire[w]]
    /\ UNCHANGED <<log, made, state, sub, seen, inbox, held, crossing, since>>

\* The bus is closed and the outbound task has emptied its subscription: it ends, and
\* aborts the inbound one wherever that is.
Stop(n) ==
    /\ state[n] = "running"
    /\ sub[n] = <<>>
    /\ state' = [state EXCEPT ![n] = "ended"]
    /\ held' = [held EXCEPT ![n] = <<>>]
    /\ inbox' = [inbox EXCEPT ![n] = <<>>]
    /\ UNCHANGED <<log, made, sub, seen, wire, up, crossing, since>>

-----------------------------------------------------------------------------
(* BusBridge::handle.                                                      *)

MayCross(e) == e.hops < MaxHops

Forward(b) ==
    /\ crossing[b] # <<>>
    /\ LET e == Head(crossing[b])
           forwarded == [e EXCEPT !.hops = @ + 1]
           rest == [crossing EXCEPT ![b] = Tail(@)]
       IN
       IF MayCross(e)
         THEN /\ log' = [log EXCEPT ![b[2]] = Append(@, forwarded)]
              /\ crossing' = [c \in Bridges |-> IF c[1] = b[2] THEN Append(rest[c], forwarded) ELSE rest[c]]
              /\ sub' = [sub EXCEPT ![b[2]] = Heard(b[2], forwarded)]
         ELSE /\ crossing' = rest
              /\ UNCHANGED <<log, sub>>
    /\ UNCHANGED <<made, state, seen, wire, inbox, held, up, since>>

-----------------------------------------------------------------------------
Init ==
    /\ log = [n \in Buses |-> <<>>]
    /\ made = [n \in Buses |-> <<>>]
    /\ state = [n \in Nodes |-> "new"]
    /\ sub = [n \in Buses |-> <<>>]
    /\ seen = [n \in Nodes |-> <<>>]
    /\ wire = [w \in Wires |-> <<>>]
    /\ inbox = [n \in Nodes |-> <<>>]
    /\ held = [n \in Nodes |-> <<>>]
    /\ up = Links
    /\ crossing = [b \in Bridges |-> <<>>]
    /\ since = [n \in Buses |-> 0]

Next ==
    \/ \E n \in Buses : Local(n)
    \/ \E n \in Nodes : Start(n) \/ Outbound(n) \/ Take(n) \/ Inbound(n) \/ Stop(n)
    \/ \E w \in Wires : Read(w)
    \/ \E l \in Links : Lose(l)
    \/ \E b \in Bridges : Forward(b)

\* Tasks that can go on are polled; readers read what arrives.
Fairness ==
    /\ \A n \in Nodes : WF_vars(Outbound(n)) /\ WF_vars(Take(n)) /\ WF_vars(Inbound(n))
    /\ \A w \in Wires : WF_vars(Read(w))
    /\ \A b \in Bridges : WF_vars(Forward(b))

Spec == Init /\ [][Next]_vars /\ Fairness

-----------------------------------------------------------------------------
(* Properties.                                                             *)

\* No event comes to a bus twice, however short the memory, where there is one way from a
\* bus to another and the bridges allow one hop (distributed.rs 33-34, bridge.rs 36-42).
NoEcho == \A n \in Buses : \A i, j \in DOMAIN log[n] : log[n][i].id = log[n][j].id => i = j

\* What a bus holds of another's events it holds in the order they were made, and without
\* a gap: it may miss the first, from before its node ran, and the last, from after a
\* connection was lost, and nothing between (distributed.rs 35-42).
InOrder ==
    \A n \in Buses : \A i, j \in DOMAIN log[n] :
        LET Maker(h) == log[n][h].id[1] IN
        /\ i < j
        /\ Maker(i) = Maker(j)
        /\ \A h \in i + 1..j - 1 : Maker(h) # Maker(i)
        => log[n][j].id[2] = log[n][i].id[2] + 1

\* Whatever is made on a node once all run comes to every node connected to it that still
\* runs: each of them catches up, again and again.
Due(m) == {<<m, k>> : k \in since[m] + 1..Len(made[m])}
CaughtUp(m, n) ==
    {m, n} \in up /\ state[m] = "running" /\ state[n] = "running" => Due(m) \subseteq IdsOf(log[n])
Delivered == []<>(\A w \in Wires : CaughtUp(w[1], w[2]))

-----------------------------------------------------------------------------
(* One way from a bus to another.                                          *)

\* What the maker's events are marked with on a bus that they come to is known from the
\* way they take: way[<<m, n>>] is the node they came from and the bridges they crossed.
\* A node sends them on if they came from nobody, a bridge if they crossed few enough.
SendsOn(way, m, n) == <<m, n>> \in DOMAIN way /\ way[<<m, n>>].origin \in {n, Nobody}
Crosses(way, m, b) == <<m, b[1]>> \in DOMAIN way /\ way[<<m, b[1]>>].hops < MaxHops

\* The events of no maker come back to it, nor to any bus by two connections or bridges.
OneWay(way) ==
    /\ DOMAIN way \subseteq Buses \X Buses
    /\ \A p \in DOMAIN way : way[p] \in [origin : Buses \cup {Nobody}, hops : 0..MaxHops]
    /\ \A m \in Buses :
           /\ <<m, m>> \in DOMAIN way /\ way[<<m, m>>] = [origin |-> Nobody, hops |-> 0]
           /\ \A w \in Wires : SendsOn(way, m, w[1]) =>
                  /\ w[2] # m
                  /\ <<m, w[2]>> \in DOMAIN way
                  /\ way[<<m, w[2]>>] = [way[<<m, w[1]>>] EXCEPT !.origin = w[1]]
                  /\ \A v \in Wires : SendsOn(way, m, v[1]) /\ v[2] = w[2] => v = w
           /\ \A b \in Bridges : Crosses(way, m, b) =>
                  /\ b[2] # m
                  /\ <<m, b[2]>> \in DOMAIN way
                  /\ way[<<m, b[2]>>] = [way[<<m, b[1]>>] EXCEPT !.hops = @ + 1]
                  /\ \A c \in Bridges : Crosses(way, m, c) /\ c[2] = b[2] => c = b
                  /\ \A w \in Wires : SendsOn(way, m, w[1]) => w[2] # b[2]

-----------------------------------------------------------------------------
(* What does not hold; no configuration checks it. See the README.         *)

\* distributed.rs 5-7: "every participant converges on the same event stream". When all
\* nodes run, no connection is lost and nothing is under way, what was made since is on all
\* of them. It is not when two nodes are joined only by a third, which passes nothing on.
Quiet ==
    /\ \A n \in Nodes : sub[n] = <<>> /\ inbox[n] = <<>> /\ held[n] = <<>>
    /\ \A w \in Wires : wire[w] = <<>>
    /\ \A b \in Bridges : crossing[b] = <<>>
Converges ==
    Quiet /\ up = Links /\ (\A n \in Nodes : state[n] = "running") =>
        \A m, n \in Nodes : Due(m) \subseteq IdsOf(log[n])

=============================================================================
