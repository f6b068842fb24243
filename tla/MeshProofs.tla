------------------------------ MODULE MeshProofs ------------------------------
(***************************************************************************)
(* What joined buses hold of each other's events, for every number of      *)
(* buses, connections, bridges and events and every length of the memory,  *)
(* where there is one way from a bus to another: nothing comes twice, and  *)
(* everything comes in order.                                              *)
(*                                                                         *)
(* An event is its maker and its number, so a queue is known by the        *)
(* numbers it holds of each maker, and the invariant is about these sets   *)
(* of numbers along each connection (Flow) and over each bridge (Span).    *)
(***************************************************************************)
EXTENDS Mesh, FiniteSetTheorems, TLAPS

-----------------------------------------------------------------------------
(* Numbers of a maker's events.                                            *)

Number == Nat \ {0}
Ids == Buses \X Number
Copy == [id : Ids, origin : Buses \cup {Nobody}, hops : Nat]

\* The numbers of m's events in a queue.
Nums(q, m) == {k \in Number : \E i \in DOMAIN q : q[i].id[1] = m /\ q[i].id[2] = k}

Under(S, T) == \A x \in S, y \in T : x < y
Unbroken(S) == \A x, y \in S : \A z \in Number : x < z /\ z < y => z \in S

\* Each maker's events are in a queue in the order of their numbers.
Rising(q) ==
    \A i, j \in DOMAIN q : i < j /\ q[i].id[1] = q[j].id[1] => q[i].id[2] < q[j].id[2]

\* Numbers are numbers.
LEMMA NumsAreNumbers ==
    ASSUME NEW q, NEW m
    PROVE  Nums(q, m) \subseteq Number
BY DEF Nums

\* Nothing is in an empty queue.
LEMMA NumsOfNone ==
    ASSUME NEW m
    PROVE  Nums(<<>>, m) = {}
<1>1. DOMAIN <<>> = {}
  OBVIOUS
<1> QED
  BY <1>1 DEF Nums

\* Publishing, sending and reading put one event at the end of a queue.
LEMMA NumsOfAppend ==
    ASSUME NEW q \in Seq(Copy), NEW e \in Copy, NEW m, NEW k, m = e.id[1], k = e.id[2]
    PROVE  /\ Nums(Append(q, e), m) = Nums(q, m) \cup {k}
           /\ \A o \in Buses : o # m => Nums(Append(q, e), o) = Nums(q, o)
<1> DEFINE r == Append(q, e)
<1>1. /\ DOMAIN r = 1..Len(q) + 1 /\ DOMAIN q = 1..Len(q) /\ Len(q) \in Nat
      /\ \A i \in 1..Len(q) : r[i] = q[i]
      /\ r[Len(q) + 1] = e
  OBVIOUS
<1>2. k \in Number
  BY DEF Copy, Ids
<1>3. ASSUME NEW o, NEW x \in Number
      PROVE  (\E i \in DOMAIN r : r[i].id[1] = o /\ r[i].id[2] = x) <=>
             (\E i \in DOMAIN q : q[i].id[1] = o /\ q[i].id[2] = x) \/ (o = m /\ x = k)
  <2>1. ASSUME NEW i \in DOMAIN r, r[i].id[1] = o /\ r[i].id[2] = x
        PROVE  (\E h \in DOMAIN q : q[h].id[1] = o /\ q[h].id[2] = x) \/ (o = m /\ x = k)
    <3>1. CASE i = Len(q) + 1
      BY <2>1, <3>1, <1>1, <1>2
    <3>2. CASE i \in 1..Len(q)
      BY <2>1, <3>2, <1>1
    <3> QED
      BY <2>1, <3>1, <3>2, <1>1
  <2>2. ASSUME NEW i \in DOMAIN q, q[i].id[1] = o /\ q[i].id[2] = x
        PROVE  \E h \in DOMAIN r : r[h].id[1] = o /\ r[h].id[2] = x
    BY <2>2, <1>1
  <2>3. ASSUME o = m, x = k
        PROVE  \E h \in DOMAIN r : r[h].id[1] = o /\ r[h].id[2] = x
    BY <2>3, <1>1, <1>2
  <2> QED
    BY <2>1, <2>2, <2>3
<1>4. Nums(r, m) = Nums(q, m) \cup {k}
  <2>1. \A x \in Number : x \in Nums(r, m) <=> x \in Nums(q, m) \/ x = k
    <3> HIDE DEF r
    <3> QED
      BY <1>3 DEF Nums
  <2>2. Nums(r, m) \subseteq Number /\ Nums(q, m) \subseteq Number
    BY NumsAreNumbers
  <2> HIDE DEF r
  <2> QED
    BY <1>2, <2>1, <2>2
<1>5. ASSUME NEW o \in Buses, o # m
      PROVE  Nums(r, o) = Nums(q, o)
  BY <1>3, <1>5 DEF Nums
<1> QED
  BY <1>4, <1>5

\* Taking the head of a queue takes the lowest of its maker's numbers from it.
LEMMA NumsOfTail ==
    ASSUME NEW q \in Seq(Copy), q # <<>>, Rising(q), NEW m, NEW k, m = Head(q).id[1], k = Head(q).id[2]
    PROVE  /\ k \in Nums(q, m)
           /\ Nums(Tail(q), m) = Nums(q, m) \ {k}
           /\ Under({k}, Nums(Tail(q), m))
           /\ \A o \in Buses : o # m => Nums(Tail(q), o) = Nums(q, o)
<1> DEFINE r == Tail(q)
<1>1. /\ DOMAIN r = 1..Len(q) - 1 /\ DOMAIN q = 1..Len(q) /\ Len(q) \in Number
      /\ \A i \in 1..Len(q) - 1 : r[i] = q[i + 1]
      /\ q[1] = Head(q)
  BY DEF Number
<1>2. k \in Number
  <2>1. Head(q) \in Copy
    OBVIOUS
  <2> QED
    BY <2>1 DEF Copy, Ids
<1>3. k \in Nums(q, m)
  BY <1>1, <1>2 DEF Nums, Number
<1>4. ASSUME NEW o, NEW x \in Number
      PROVE  x \in Nums(q, o) <=> x \in Nums(r, o) \/ (o = m /\ x = k)
  <2>1. ASSUME NEW i \in DOMAIN q, q[i].id[1] = o /\ q[i].id[2] = x
        PROVE  (\E h \in DOMAIN r : r[h].id[1] = o /\ r[h].id[2] = x) \/ (o = m /\ x = k)
    <3>1. CASE i = 1
      BY <2>1, <3>1, <1>1, <1>2
    <3>2. CASE i # 1
      <4>1. i - 1 \in DOMAIN r /\ r[i - 1] = q[i]
        BY <2>1, <3>2, <1>1 DEF Number
      <4> QED
        BY <4>1, <2>1
    <3> QED
      BY <3>1, <3>2
  <2>2. ASSUME NEW i \in DOMAIN r, r[i].id[1] = o /\ r[i].id[2] = x
        PROVE  \E h \in DOMAIN q : q[h].id[1] = o /\ q[h].id[2] = x
    <3>1. i + 1 \in DOMAIN q /\ q[i + 1] = r[i]
      BY <2>2, <1>1 DEF Number
    <3> QED
      BY <3>1, <2>2
  <2>3. ASSUME o = m, x = k
        PROVE  \E h \in DOMAIN q : q[h].id[1] = o /\ q[h].id[2] = x
    BY <2>3, <1>1, <1>2 DEF Number
  <2> HIDE DEF r
  <2> QED
    BY <2>1, <2>2, <2>3 DEF Nums
<1>5. ASSUME NEW x \in Nums(r, m)
      PROVE  k < x
  <2>1. PICK i \in DOMAIN r : r[i].id[1] = m /\ r[i].id[2] = x
    BY DEF Nums
  <2>2. i + 1 \in DOMAIN q /\ 1 \in DOMAIN q /\ 1 < i + 1 /\ q[i + 1].id[1] = m /\ q[i + 1].id[2] = x
    BY <2>1, <1>1 DEF Number
  <2>3. q[1].id[1] = m /\ q[1].id[2] = k /\ q[i + 1].id[1] = m /\ q[i + 1].id[2] = x
    BY <2>2, <1>1
  <2> QED
    BY <2>2, <2>3 DEF Rising
<1>6. Nums(r, m) = Nums(q, m) \ {k}
  <2>1. k \notin Nums(r, m)
    BY <1>5, <1>2 DEF Number
  <2>2. \A x \in Number : x \in Nums(q, m) <=> x \in Nums(r, m) \/ x = k
    BY <1>4
  <2>3. Nums(r, m) \subseteq Number /\ Nums(q, m) \subseteq Number
    BY NumsAreNumbers
  <2> HIDE DEF r
  <2> QED
    BY <1>2, <2>1, <2>2, <2>3
<1>7. ASSUME NEW o \in Buses, o # m
      PROVE  Nums(r, o) = Nums(q, o)
  <2>1. Nums(r, o) \subseteq Number /\ Nums(q, o) \subseteq Number
    BY NumsAreNumbers
  <2> HIDE DEF r
  <2>2. \A x : x \in Nums(r, o) <=> x \in Nums(q, o)
    BY <1>4, <1>7, <2>1
  <2> QED
    BY <2>2
<1> QED
  BY <1>3, <1>5, <1>6, <1>7 DEF Under

\* What is lost of a queue is the end of it.
LEMMA NumsOfPrefix ==
    ASSUME NEW q \in Seq(Copy), Rising(q), NEW n \in 0..Len(q), NEW m
    PROVE  /\ Nums(SubSeq(q, 1, n), m) \subseteq Nums(q, m)
           /\ Under(Nums(SubSeq(q, 1, n), m), Nums(q, m) \ Nums(SubSeq(q, 1, n), m))
           /\ Rising(SubSeq(q, 1, n))
<1> DEFINE r == SubSeq(q, 1, n)
<1>1. /\ DOMAIN r = 1..n /\ DOMAIN q = 1..Len(q) /\ Len(q) \in Nat
      /\ \A i \in 1..n : r[i] = q[i]
  OBVIOUS
<1>2. Nums(r, m) \subseteq Nums(q, m)
  BY <1>1 DEF Nums
<1>3. ASSUME NEW x \in Nums(r, m), NEW y \in Nums(q, m) \ Nums(r, m)
      PROVE  x < y
  <2>1. PICK i \in 1..n : q[i].id[1] = m /\ q[i].id[2] = x
    BY <1>1 DEF Nums
  <2>2. PICK j \in DOMAIN q : q[j].id[1] = m /\ q[j].id[2] = y
    BY DEF Nums
  <2>3. j \notin 1..n
    BY <2>2, <1>1, <1>3 DEF Nums
  <2>4. i < j /\ i \in DOMAIN q
    BY <2>3, <1>1
  <2>5. q[i].id[1] = m /\ q[i].id[2] = x /\ q[j].id[1] = m /\ q[j].id[2] = y
    BY <2>1, <2>2
  <2> QED
    BY <2>4, <2>5 DEF Rising
<1>4. Rising(r)
  BY <1>1 DEF Rising
<1> QED
  BY <1>2, <1>3, <1>4 DEF Under

\* A queue stays in order when what comes is later than what is there.
LEMMA RisingAppend ==
    ASSUME NEW q \in Seq(Copy), Rising(q), NEW e \in Copy, NEW m, NEW k, m = e.id[1], k = e.id[2],
           Under(Nums(q, m), {k})
    PROVE  Rising(Append(q, e))
<1> DEFINE r == Append(q, e)
<1>1. /\ DOMAIN r = 1..Len(q) + 1 /\ DOMAIN q = 1..Len(q) /\ Len(q) \in Nat
      /\ \A i \in 1..Len(q) : r[i] = q[i] /\ q[i] \in Copy
      /\ r[Len(q) + 1] = e
  OBVIOUS
<1> SUFFICES ASSUME NEW i \in DOMAIN r, NEW j \in DOMAIN r, i < j, r[i].id[1] = r[j].id[1]
             PROVE  r[i].id[2] < r[j].id[2]
  BY DEF Rising
<1>2. CASE j \in 1..Len(q)
  <2>1. i \in DOMAIN q /\ j \in DOMAIN q /\ r[i] = q[i] /\ r[j] = q[j]
    BY <1>1, <1>2
  <2> QED
    BY <2>1 DEF Rising
<1>3. CASE j = Len(q) + 1
  <2>1. i \in DOMAIN q /\ r[i] = q[i] /\ r[j] = e /\ q[i] \in Copy
    BY <1>1, <1>3
  <2>2. q[i].id = <<m, q[i].id[2]>> /\ q[i].id[2] \in Number
    BY <2>1 DEF Copy, Ids
  <2>3. q[i].id[2] \in Nums(q, m)
    BY <2>1, <2>2 DEF Nums
  <2> QED
    BY <2>1, <2>3 DEF Under
<1> QED
  BY <1>1, <1>2, <1>3

\* And when its head is taken.
LEMMA RisingTail ==
    ASSUME NEW q \in Seq(Copy), q # <<>>, Rising(q)
    PROVE  Rising(Tail(q))
<1>1. /\ DOMAIN Tail(q) = 1..Len(q) - 1 /\ DOMAIN q = 1..Len(q) /\ Len(q) \in Nat
      /\ \A i \in 1..Len(q) - 1 : Tail(q)[i] = q[i + 1]
  OBVIOUS
<1> SUFFICES ASSUME NEW i \in DOMAIN Tail(q), NEW j \in DOMAIN Tail(q), i < j,
                    Tail(q)[i].id[1] = Tail(q)[j].id[1]
             PROVE  Tail(q)[i].id[2] < Tail(q)[j].id[2]
  BY DEF Rising
<1>2. i + 1 \in DOMAIN q /\ j + 1 \in DOMAIN q /\ i + 1 < j + 1
  BY <1>1
<1> QED
  BY <1>1, <1>2 DEF Rising

\* A queue of one event.
LEMMA One ==
    ASSUME NEW e \in Copy, NEW m, NEW k, m = e.id[1], k = e.id[2]
    PROVE  /\ Nums(<<e>>, m) = {k}
           /\ \A o \in Buses : o # m => Nums(<<e>>, o) = {}
           /\ Rising(<<e>>)
<1>1. DOMAIN <<e>> = {1} /\ <<e>>[1] = e
  OBVIOUS
<1>2. k \in Number
  BY DEF Copy, Ids
<1>3. ASSUME NEW o, NEW x \in Number
      PROVE  (\E i \in DOMAIN <<e>> : <<e>>[i].id[1] = o /\ <<e>>[i].id[2] = x) <=> o = m /\ x = k
  BY <1>1, <1>2
<1> QED
  BY <1>1, <1>2, <1>3 DEF Nums, Rising

\* What is remembered is what was and what is new.
LEMMA Remembered ==
    ASSUME NEW S, NEW ids \in Seq(S), NEW id \in S
    PROVE  /\ Remember(ids, id) \in Seq(S)
           /\ ToSet(Remember(ids, id)) \subseteq ToSet(ids) \cup {id}
<1> DEFINE r == Append(ids, id)
<1>1. /\ DOMAIN r = 1..Len(ids) + 1 /\ DOMAIN ids = 1..Len(ids) /\ Len(ids) \in Nat
      /\ \A i \in 1..Len(ids) : r[i] = ids[i]
      /\ r[Len(ids) + 1] = id
      /\ r \in Seq(S) /\ Len(r) = Len(ids) + 1 /\ r # <<>>
  OBVIOUS
<1>2. ToSet(r) \subseteq ToSet(ids) \cup {id}
  <2> SUFFICES ASSUME NEW i \in DOMAIN r PROVE r[i] \in ToSet(ids) \cup {id}
    BY DEF ToSet
  <2>1. CASE i = Len(ids) + 1
    BY <1>1, <2>1
  <2>2. CASE i \in 1..Len(ids)
    BY <1>1, <2>2 DEF ToSet
  <2> QED
    BY <1>1, <2>1, <2>2
<1>3. /\ DOMAIN Tail(r) = 1..Len(r) - 1 /\ DOMAIN r = 1..Len(r) /\ Len(r) \in Nat
      /\ \A i \in 1..Len(r) - 1 : Tail(r)[i] = r[i + 1]
      /\ Tail(r) \in Seq(S)
  BY <1>1
<1>4. ToSet(Tail(r)) \subseteq ToSet(r)
  <2> SUFFICES ASSUME NEW i \in DOMAIN Tail(r) PROVE Tail(r)[i] \in ToSet(r)
    BY DEF ToSet
  <2>1. i + 1 \in DOMAIN r /\ Tail(r)[i] = r[i + 1]
    BY <1>3
  <2> QED
    BY <2>1 DEF ToSet
<1>5. Remember(ids, id) = Tail(r) \/ Remember(ids, id) = r
  BY DEF Remember
<1> QED
  BY <1>1, <1>2, <1>3, <1>4, <1>5

-----------------------------------------------------------------------------
(* The invariant.                                                          *)

Places == {"new", "running", "ended"}

\* The copies that may be on a bus, under way on a connection, or read by a node.
Here(way, n) ==
    {e \in Copy : /\ <<e.id[1], n>> \in DOMAIN way
                  /\ e.origin = way[<<e.id[1], n>>].origin
                  /\ e.hops = way[<<e.id[1], n>>].hops}
Over(way, w) == {e \in Here(way, w[2]) : SendsOn(way, e.id[1], w[1])}
Into(way, n) == {e \in Here(way, n) : \E w \in Wires : w[2] = n /\ SendsOn(way, e.id[1], w[1])}

Kinds(way) ==
    /\ log \in [Buses -> Seq(Copy)] /\ \A n \in Buses : log[n] \in Seq(Here(way, n))
    /\ sub \in [Buses -> Seq(Copy)] /\ \A n \in Buses : sub[n] \in Seq(Here(way, n))
    /\ crossing \in [Bridges -> Seq(Copy)] /\ \A b \in Bridges : crossing[b] \in Seq(Here(way, b[1]))
    /\ wire \in [Wires -> Seq(Copy)] /\ \A w \in Wires : wire[w] \in Seq(Over(way, w))
    /\ inbox \in [Nodes -> Seq(Copy)] /\ \A n \in Nodes : inbox[n] \in Seq(Into(way, n))
    /\ held \in [Nodes -> Seq(Copy)] /\ \A n \in Nodes : held[n] \in Seq(Into(way, n))
    /\ seen \in [Nodes -> Seq(Ids)]
    /\ state \in [Nodes -> Places]
    /\ made \in [Buses -> Seq(Ids)]
    /\ up \subseteq Links

\* Queues are in order.
Orders ==
    /\ \A n \in Buses : Rising(log[n]) /\ Rising(sub[n])
    /\ \A b \in Bridges : Rising(crossing[b])
    /\ \A w \in Wires : Rising(wire[w])
    /\ \A n \in Nodes : Rising(inbox[n]) /\ Rising(held[n]) /\ Len(held[n]) <= 1

\* A bus holds an unbroken piece of what each maker made, and all of what it made itself;
\* what its readers have not yet read it holds.
Paths ==
    \A n, m \in Buses :
        /\ Unbroken(Nums(log[n], m))
        /\ n = m => Nums(log[n], m) = {k \in Number : k <= Len(made[m])}
        /\ Nums(sub[n], m) \subseteq Nums(log[n], m)
        /\ \A b \in Bridges : b[1] = n => Nums(crossing[b], m) \subseteq Nums(log[n], m)

\* What one node has of a maker (A) and still has to send (S), and what another has published
\* (L), marked (H), read (I) and not yet read (W) of it. What comes later is further back;
\* nothing is missing in what the other has as long as it runs, nor between that and what is
\* still to be sent as long as the connection stands.
Flow(A, S, L, H, I, W, from, to, on) ==
    LET got == L \cup H \cup I \cup W IN
    /\ got \subseteq A
    /\ S \subseteq A
    /\ Under(L, H \cup I \cup W) /\ Under(H, I \cup W) /\ Under(I, W) /\ Under(got, S)
    /\ to # "ended" => Unbroken(got)
    /\ from = "new" => got = {} /\ S = {}
    /\ from = "running" => \A k \in S, j \in A : k < j => j \in S
    /\ from = "running" /\ to # "ended" /\ on => \A k \in got, j \in A : k < j => j \in got \cup S

FlowOf(w, m) ==
    Flow(Nums(log[w[1]], m), Nums(sub[w[1]], m), Nums(log[w[2]], m), Nums(held[w[2]], m),
         Nums(inbox[w[2]], m), Nums(wire[w], m), state[w[1]], state[w[2]], {w[1], w[2]} \in up)
Flows(way) == \A m \in Buses, w \in Wires : SendsOn(way, m, w[1]) => FlowOf(w, m)

\* A bridge has passed on what it does not still have to pass on.
Span(A, C, L) == A = L \cup C /\ Under(L, C)
SpanOf(b, m) == Span(Nums(log[b[1]], m), Nums(crossing[b], m), Nums(log[b[2]], m))
Spans(way) == \A m \in Buses, b \in Bridges : Crosses(way, m, b) => SpanOf(b, m)

\* What a node remembers is on its bus or about to be, and it is not about to send it.
Memories(way) ==
    \A n \in Nodes : state[n] # "ended" => \A m \in Buses, k \in Number :
        <<m, k>> \in ToSet(seen[n]) =>
            /\ k \in Nums(log[n], m) \cup Nums(held[n], m)
            /\ SendsOn(way, m, n) => k \notin Nums(sub[n], m)

MeshInv(way) ==
    Kinds(way) /\ Orders /\ Paths /\ Flows(way) /\ Spans(way) /\ Memories(way)

-----------------------------------------------------------------------------
(* One connection and one maker, in sets of numbers.                       *)

\* The first node publishes one more.
LEMMA FlowPublished ==
    ASSUME NEW A \in SUBSET Number, NEW S, NEW L, NEW H, NEW I, NEW W,
           NEW from, NEW to, NEW on, NEW T, NEW k \in Number,
           Flow(A, S, L, H, I, W, from, to, on), Under(A, {k}),
           T = IF from = "running" THEN S \cup {k} ELSE S
    PROVE  Flow(A \cup {k}, T, L, H, I, W, from, to, on)
<1> DEFINE got == L \cup H \cup I \cup W
           B == A \cup {k}
<1>1. /\ S \subseteq T /\ T \subseteq S \cup {k} /\ T \subseteq B /\ got \subseteq B
      /\ got \subseteq A /\ \A j \in A : j < k
  BY DEF Flow, Under
<1>2. /\ Under(L, H \cup I \cup W) /\ Under(H, I \cup W) /\ Under(I, W)
      /\ Under(got, T)
      /\ to # "ended" => Unbroken(got)
  BY <1>1 DEF Flow, Under
<1>3. from = "new" => got = {} /\ T = {}
  BY DEF Flow
<1>4. ASSUME from = "running", NEW x \in T, NEW j \in B, x < j
      PROVE  j \in T
  BY <1>1, <1>4 DEF Flow, Number
<1>5. ASSUME from = "running", to # "ended", on, NEW x \in got, NEW j \in B, x < j
      PROVE  j \in got \cup T
  BY <1>1, <1>5 DEF Flow, Number
<1> QED
  BY <1>1, <1>2, <1>3, <1>4, <1>5 DEF Flow

\* It sends one.
LEMMA FlowSent ==
    ASSUME NEW A \in SUBSET Number, NEW S, NEW L, NEW H, NEW I, NEW W,
           NEW to, NEW on \in BOOLEAN, NEW V, NEW k \in S,
           Flow(A, S, L, H, I, W, "running", to, on), Unbroken(A), Under({k}, S \ {k}),
           V = IF on THEN W \cup {k} ELSE W
    PROVE  Flow(A, S \ {k}, L, H, I, V, "running", to, on)
<1> DEFINE got == L \cup H \cup I \cup W
           more == L \cup H \cup I \cup V
           T == S \ {k}
<1>1. /\ more \subseteq A /\ T \subseteq A /\ k \in A /\ got \subseteq more
      /\ more \subseteq got \cup {k} /\ \A x \in got : x < k
      /\ \A x \in T : k < x
      /\ V \subseteq W \cup {k}
      /\ on => k \in V
      /\ ~on => V = W
  BY DEF Flow, Under
<1>2. Under(L, H \cup I \cup V) /\ Under(H, I \cup V) /\ Under(I, V)
  BY <1>1 DEF Flow, Under
<1>3. Under(more, T)
  BY <1>1 DEF Flow, Under
<1>4. ASSUME NEW x \in S, NEW j \in A, x < j
      PROVE  j \in S
  BY <1>4 DEF Flow
<1>5. ASSUME NEW x \in T, NEW j \in A, x < j
      PROVE  j \in T
  BY <1>1, <1>4, <1>5 DEF Number
<1>6. ASSUME to # "ended", on, NEW x \in more, NEW j \in A, x < j
      PROVE  j \in more \cup T
  <2>1. CASE x \in got
    <3>1. j \in got \cup S
      BY <1>6, <2>1 DEF Flow
    <3> QED
      BY <3>1, <1>6, <1>1
  <2>2. CASE x = k
    BY <1>4, <1>6, <2>2, <1>1
  <2> QED
    BY <1>1, <2>1, <2>2
<1>7. ASSUME to # "ended" PROVE Unbroken(more)
  <2>1. Unbroken(got)
    BY <1>7 DEF Flow
  <2>2. CASE ~on
    BY <1>1, <2>1, <2>2
  <2>3. CASE on
    <3> SUFFICES ASSUME NEW x \in more, NEW y \in more, NEW z \in Number, x < z, z < y
                 PROVE  z \in more
      BY DEF Unbroken
    <3>1. z \in A
      BY <1>1 DEF Unbroken
    <3>2. z \in more \cup T
      BY <1>6, <1>7, <2>3, <3>1
    <3>3. \A u \in T : y < u
      BY <1>3 DEF Under
    <3>5. y \in Nat /\ z \in Nat
      BY <1>1 DEF Number
    <3>4. z \notin T
      <4> HIDE DEF T
      <4> QED
        BY <3>3, <3>5
    <3> QED
      BY <3>2, <3>4
  <2> QED
    BY <2>2, <2>3
<1> QED
  BY <1>1, <1>2, <1>3, <1>5, <1>6, <1>7 DEF Flow

\* The other reads one.
LEMMA FlowRead ==
    ASSUME NEW A \in SUBSET Number, NEW S, NEW L, NEW H, NEW I, NEW W,
           NEW from, NEW to, NEW on, NEW k \in W,
           Flow(A, S, L, H, I, W, from, to, on), Under({k}, W \ {k})
    PROVE  Flow(A, S, L, H, I \cup {k}, W \ {k}, from, to, on)
BY DEF Flow, Under, Unbroken, Number

\* It takes and marks one.
LEMMA FlowTaken ==
    ASSUME NEW A \in SUBSET Number, NEW S, NEW L, NEW I, NEW W,
           NEW from, NEW to, NEW on, NEW k \in I,
           Flow(A, S, L, {}, I, W, from, to, on), Under({k}, I \ {k})
    PROVE  Flow(A, S, L, {k}, I \ {k}, W, from, to, on)
BY DEF Flow, Under, Unbroken, Number

\* It publishes what it has marked.
LEMMA FlowDone ==
    ASSUME NEW A \in SUBSET Number, NEW S, NEW L, NEW H, NEW I, NEW W,
           NEW from, NEW to, NEW on,
           Flow(A, S, L, H, I, W, from, to, on)
    PROVE  Flow(A, S, L \cup H, {}, I, W, from, to, on)
BY DEF Flow, Under, Unbroken, Number

\* The connection goes, with the end of what is under way.
LEMMA FlowLost ==
    ASSUME NEW A \in SUBSET Number, NEW S, NEW L, NEW H, NEW I, NEW W,
           NEW from, NEW to, NEW on, NEW V \in SUBSET W,
           Flow(A, S, L, H, I, W, from, to, on), Under(V, W \ V)
    PROVE  Flow(A, S, L, H, I, V, from, to, FALSE)
<1> DEFINE got == L \cup H \cup I \cup W
           less == L \cup H \cup I \cup V
<1>1. less \subseteq got /\ less \subseteq A /\ S \subseteq A /\ W \subseteq Number
  BY DEF Flow
<1>2. /\ Under(L, H \cup I \cup V) /\ Under(H, I \cup V) /\ Under(I, V)
      /\ Under(less, S)
  BY <1>1 DEF Flow, Under
<1>3. ASSUME to # "ended", NEW x \in less, NEW y \in less, NEW z \in Number, x < z, z < y
      PROVE  z \in less
  <2>1. z \in got
    BY <1>1, <1>3 DEF Flow, Unbroken
  <2>2. ASSUME z \in W \ V PROVE FALSE
    <3>1. CASE y \in V
      BY <2>2, <3>1, <1>3, <1>1 DEF Under, Number
    <3>2. CASE y \in L \cup H \cup I
      <4>1. \A u \in W : y < u
        BY <3>2 DEF Flow, Under
      <4>2. y \in Nat /\ z \in Nat /\ y < z
        BY <4>1, <2>2, <1>1 DEF Number
      <4> QED
        BY <4>2, <1>3
    <3> QED
      BY <3>1, <3>2
  <2> QED
    BY <2>1, <2>2
<1>4. from = "new" => less = {} /\ S = {}
  BY DEF Flow
<1>5. from = "running" => \A x \in S, j \in A : x < j => j \in S
  BY DEF Flow
<1> QED
  BY <1>1, <1>2, <1>3, <1>4, <1>5 DEF Flow, Unbroken

\* The other node ends.
LEMMA FlowEnded ==
    ASSUME NEW A \in SUBSET Number, NEW S, NEW L, NEW H, NEW I, NEW W,
           NEW from, NEW to, NEW on,
           Flow(A, S, L, H, I, W, from, to, on)
    PROVE  Flow(A, S, L, {}, {}, W, from, "ended", on)
BY DEF Flow, Under, Unbroken, Number

-----------------------------------------------------------------------------
(* Ways.                                                                   *)

\* A connection joins two buses.
LEMMA TwoEnds ==
    ASSUME NEW w \in Wires
    PROVE  w[1] \in Nodes /\ w[2] \in Nodes /\ w[1] # w[2]
           /\ w[1] \in Buses /\ w[2] \in Buses
<1>1. w \in Buses \X Buses /\ {w[1], w[2]} \in Links
  BY DEF Wires
<1>2. w[1] \in Nodes /\ w[2] \in Nodes
  BY <1>1 DEF Nodes
<1>3. Cardinality({w[1], w[2]}) = 2
  BY <1>1, MeshAssumption
<1>4. Cardinality({w[1]}) = 1
  BY FS_Singleton
<1>5. w[1] # w[2]
  <2> SUFFICES ASSUME w[1] = w[2] PROVE FALSE
    OBVIOUS
  <2>1. {w[1], w[2]} = {w[1]}
    OBVIOUS
  <2> QED
    BY <2>1, <1>3, <1>4
<1> QED
  BY <1>1, <1>2, <1>5

\* A node is a bus that is connected.
LEMMA NodesAreBuses ==
    Nodes \subseteq Buses
BY MeshAssumption DEF Nodes

\* What came over a connection is not sent on.
LEMMA NotSentOn ==
    ASSUME NEW way, OneWay(way), NEW m \in Buses, NEW w \in Wires, SendsOn(way, m, w[1])
    PROVE  ~SendsOn(way, m, w[2])
<1>1. <<m, w[1]>> \in DOMAIN way /\ way[<<m, w[1]>>] \in [origin : Buses \cup {Nobody}, hops : 0..MaxHops]
  BY DEF OneWay, SendsOn
<1>2. way[<<m, w[2]>>] = [way[<<m, w[1]>>] EXCEPT !.origin = w[1]]
  BY DEF OneWay
<1>3. way[<<m, w[2]>>].origin = w[1]
  BY <1>1, <1>2
<1>4. w[1] # w[2] /\ w[1] # Nobody
  BY TwoEnds, MeshAssumption
<1> QED
  BY <1>3, <1>4 DEF SendsOn

\* What comes to a bus by a connection or a bridge comes only by that, and not to its maker.
LEMMA OnlyAcross ==
    ASSUME NEW way, OneWay(way), NEW m \in Buses, NEW b \in Bridges, Crosses(way, m, b)
    PROVE  /\ b[2] # m /\ b[1] # b[2]
           /\ \A c \in Bridges : Crosses(way, m, c) /\ c[2] = b[2] => c = b
           /\ \A w \in Wires : SendsOn(way, m, w[1]) => w[2] # b[2]
<1>1. b[2] # m /\ \A c \in Bridges : Crosses(way, m, c) /\ c[2] = b[2] => c = b
  BY DEF OneWay
<1>2. \A w \in Wires : SendsOn(way, m, w[1]) => w[2] # b[2]
  BY DEF OneWay
<1>3. /\ way[<<m, b[2]>>] = [way[<<m, b[1]>>] EXCEPT !.hops = @ + 1]
      /\ way[<<m, b[1]>>] \in [origin : Buses \cup {Nobody}, hops : 0..MaxHops]
  BY ZenonT(30) DEF OneWay, Crosses
<1>4. b[1] # b[2]
  BY <1>3, MeshAssumption
<1> QED
  BY <1>1, <1>2, <1>4

\* The same of a connection.
LEMMA OnlyOver ==
    ASSUME NEW way, OneWay(way), NEW m \in Buses, NEW w \in Wires, SendsOn(way, m, w[1])
    PROVE  /\ w[2] # m
           /\ \A v \in Wires : SendsOn(way, m, v[1]) /\ v[2] = w[2] => v = w
           /\ \A b \in Bridges : Crosses(way, m, b) => b[2] # w[2]
<1>1. w[2] # m /\ \A v \in Wires : SendsOn(way, m, v[1]) /\ v[2] = w[2] => v = w
  BY DEF OneWay
<1>2. ASSUME NEW b \in Bridges, Crosses(way, m, b) PROVE b[2] # w[2]
  BY <1>2, OnlyAcross
<1> QED
  BY <1>1, <1>2

\* The id of a copy.
LEMMA IdOf ==
    ASSUME NEW e \in Copy
    PROVE  /\ e.id = <<e.id[1], e.id[2]>>
           /\ e.id[1] \in Buses
           /\ e.id[2] \in Number
BY DEF Copy, Ids

\* What may be under way to a bus may be on it.
LEMMA CopiesAreCopies ==
    ASSUME NEW way, NEW n, NEW w
    PROVE  Here(way, n) \subseteq Copy /\ Over(way, w) \subseteq Here(way, w[2])
           /\ Into(way, n) \subseteq Here(way, n)
BY DEF Here, Over, Into

\* What a node has marked came over a connection, and so did what it has read.
LEMMA CameOver ==
    ASSUME NEW way, NEW n \in Nodes, NEW q \in Seq(Into(way, n)), NEW m, NEW k \in Nums(q, m)
    PROVE  \E w \in Wires : w[2] = n /\ SendsOn(way, m, w[1])
<1>1. PICK i \in DOMAIN q : q[i].id[1] = m /\ q[i].id[2] = k
  BY DEF Nums
<1>2. q[i] \in Into(way, n)
  BY <1>1
<1>3. q[i].id[1] = m
  BY <1>1
<1> QED
  BY <1>2, <1>3 DEF Into

-----------------------------------------------------------------------------
(* Publishing.                                                             *)

\* One more number of m's on n, and the same of others and elsewhere.
More(S, T, here, k) == (here => T = S \cup {k}) /\ (~here => T = S)

\* The event e, number k of m, is next on n.
NextOn(way, n, e, m, k) ==
    /\ n \in Buses
    /\ m \in Buses
    /\ k \in Number
    /\ e \in Here(way, n)
    /\ m = e.id[1] /\ k = e.id[2]
    /\ Under(Nums(log[n], m), {k})

\* What the bridges have to read when n has published e, and the publishing of e.
AfterPublish(q, n, e) == [b \in Bridges |-> IF b[1] = n THEN Append(q[b], e) ELSE q[b]]
PublishedTo(n, e, q) ==
    /\ log' = [log EXCEPT ![n] = Append(@, e)]
    /\ sub' = [sub EXCEPT ![n] = Heard(n, e)]
    /\ crossing' = AfterPublish(q, n, e)

\* What Publish does to a bus and its outbound task.
LEMMA Grown ==
    ASSUME NEW way, Kinds(way), Orders, Paths,
           NEW n, NEW e, NEW m, NEW k, NextOn(way, n, e, m, k),
           NEW q, PublishedTo(n, e, q)
    PROVE  /\ log' \in [Buses -> Seq(Copy)] /\ \A x \in Buses : log'[x] \in Seq(Here(way, x))
           /\ sub' \in [Buses -> Seq(Copy)] /\ \A x \in Buses : sub'[x] \in Seq(Here(way, x))
           /\ \A x \in Buses : Rising(log'[x]) /\ Rising(sub'[x])
           /\ \A x, o \in Buses :
                  /\ More(Nums(log[x], o), Nums(log'[x], o), x = n /\ o = m, k)
                  /\ More(Nums(sub[x], o), Nums(sub'[x], o),
                          x = n /\ o = m /\ n \in Nodes /\ state[n] = "running", k)
<1>0. /\ n \in Buses /\ m \in Buses /\ k \in Number /\ e \in Here(way, n)
      /\ m = e.id[1] /\ k = e.id[2] /\ Under(Nums(log[n], m), {k})
  BY DEF NextOn
<1>1. e \in Copy
  BY <1>0, CopiesAreCopies
<1>2. /\ log[n] \in Seq(Copy) /\ log[n] \in Seq(Here(way, n))
      /\ sub[n] \in Seq(Copy) /\ sub[n] \in Seq(Here(way, n))
      /\ Rising(log[n]) /\ Rising(sub[n])
      /\ Nums(sub[n], m) \subseteq Nums(log[n], m)
  BY <1>0 DEF Kinds, Orders, Paths
<1>3. /\ Nums(Append(log[n], e), m) = Nums(log[n], m) \cup {k}
      /\ \A o \in Buses : o # m => Nums(Append(log[n], e), o) = Nums(log[n], o)
      /\ Rising(Append(log[n], e))
  <2> DEFINE p == log[n]
  <2>1. p \in Seq(Copy) /\ Rising(p) /\ Under(Nums(p, m), {k})
    BY <1>0, <1>2
  <2> HIDE DEF p
  <2>2. Rising(Append(p, e))
    BY <1>0, <1>1, <2>1, RisingAppend
  <2>3. /\ Nums(Append(p, e), m) = Nums(p, m) \cup {k}
        /\ \A o \in Buses : o # m => Nums(Append(p, e), o) = Nums(p, o)
    BY <1>0, <1>1, <2>1, NumsOfAppend
  <2> QED
    BY <2>2, <2>3 DEF p
<1>4. /\ Nums(Append(sub[n], e), m) = Nums(sub[n], m) \cup {k}
      /\ \A o \in Buses : o # m => Nums(Append(sub[n], e), o) = Nums(sub[n], o)
      /\ Rising(Append(sub[n], e))
  <2>1. Under(Nums(sub[n], m), {k})
    BY <1>0, <1>2 DEF Under
  <2> QED
    <3> DEFINE p == sub[n]
    <3>1. p \in Seq(Copy) /\ Rising(p) /\ Under(Nums(p, m), {k})
      BY <1>2, <2>1
    <3> HIDE DEF p
    <3>2. Rising(Append(p, e))
      BY <1>0, <1>1, <3>1, RisingAppend
    <3>3. /\ Nums(Append(p, e), m) = Nums(p, m) \cup {k}
          /\ \A o \in Buses : o # m => Nums(Append(p, e), o) = Nums(p, o)
      BY <1>0, <1>1, <3>1, NumsOfAppend
    <3> QED
      BY <3>2, <3>3 DEF p
<1>5. /\ log'[n] = Append(log[n], e) /\ \A x \in Buses : x # n => log'[x] = log[x]
      /\ sub'[n] = Heard(n, e) /\ \A x \in Buses : x # n => sub'[x] = sub[x]
      /\ log' = [x \in Buses |-> log'[x]] /\ sub' = [x \in Buses |-> sub'[x]]
  BY <1>0 DEF Kinds, PublishedTo
<1>6. /\ n \in Nodes /\ state[n] = "running" => sub'[n] = Append(sub[n], e)
      /\ ~(n \in Nodes /\ state[n] = "running") => sub'[n] = sub[n]
  BY <1>5 DEF Heard
<1>7. /\ Append(log[n], e) \in Seq(Copy) /\ Append(log[n], e) \in Seq(Here(way, n))
      /\ Append(sub[n], e) \in Seq(Copy) /\ Append(sub[n], e) \in Seq(Here(way, n))
  BY <1>0, <1>1, <1>2
<1>8. \A x \in Buses : /\ log'[x] \in Seq(Copy) /\ log'[x] \in Seq(Here(way, x)) /\ Rising(log'[x])
                       /\ sub'[x] \in Seq(Copy) /\ sub'[x] \in Seq(Here(way, x)) /\ Rising(sub'[x])
  <2> TAKE x \in Buses
  <2>1. CASE x = n
    BY <2>1, <1>2, <1>3, <1>4, <1>5, <1>6, <1>7
  <2>2. CASE x # n
    BY <2>2, <1>5 DEF Kinds, Orders
  <2> QED
    BY <2>1, <2>2
<1>9. log' \in [Buses -> Seq(Copy)] /\ sub' \in [Buses -> Seq(Copy)]
  BY <1>5, <1>8
<1>10. ASSUME NEW x \in Buses, NEW o \in Buses
       PROVE  /\ More(Nums(log[x], o), Nums(log'[x], o), x = n /\ o = m, k)
              /\ More(Nums(sub[x], o), Nums(sub'[x], o),
                      x = n /\ o = m /\ n \in Nodes /\ state[n] = "running", k)
  BY <1>3, <1>4, <1>5, <1>6 DEF More
<1> QED
  BY <1>8, <1>9, <1>10

\* What the bridges have still to read, q, is in order and on the buses they read.
Unread(way, q) ==
    /\ q \in [Bridges -> Seq(Copy)]
    /\ \A b \in Bridges : q[b] \in Seq(Here(way, b[1])) /\ Rising(q[b])
    /\ \A b \in Bridges, o \in Buses : Nums(q[b], o) \subseteq Nums(log[b[1]], o)

\* What Publish does to the bridges that read the bus.
LEMMA Told ==
    ASSUME NEW way, NEW n, NEW e, NEW m, NEW k, NextOn(way, n, e, m, k),
           NEW q, Unread(way, q), PublishedTo(n, e, q)
    PROVE  /\ crossing' \in [Bridges -> Seq(Copy)]
           /\ \A b \in Bridges : crossing'[b] \in Seq(Here(way, b[1])) /\ Rising(crossing'[b])
           /\ \A b \in Bridges, o \in Buses :
                  More(Nums(q[b], o), Nums(crossing'[b], o), b[1] = n /\ o = m, k)
<1>0. /\ n \in Buses /\ m \in Buses /\ k \in Number /\ e \in Here(way, n)
      /\ m = e.id[1] /\ k = e.id[2] /\ Under(Nums(log[n], m), {k})
  BY DEF NextOn
<1>1. ASSUME NEW b \in Bridges
      PROVE  /\ crossing'[b] \in Seq(Copy) /\ crossing'[b] \in Seq(Here(way, b[1])) /\ Rising(crossing'[b])
             /\ \A o \in Buses : More(Nums(q[b], o), Nums(crossing'[b], o), b[1] = n /\ o = m, k)
  <2> DEFINE was == q[b]
             S == Here(way, b[1])
  <2>1. /\ S \in SUBSET Copy /\ was \in Seq(S) /\ was \in Seq(Copy) /\ Rising(was)
        /\ Nums(was, m) \subseteq Nums(log[b[1]], m)
    BY <1>0, CopiesAreCopies DEF Unread
  <2>2. crossing'[b] = IF b[1] = n THEN Append(was, e) ELSE was
    BY DEF AfterPublish, PublishedTo
  <2>3. ASSUME b[1] = n
        PROVE  /\ Append(was, e) \in Seq(S) /\ Append(was, e) \in Seq(Copy) /\ Rising(Append(was, e))
               /\ Nums(Append(was, e), m) = Nums(was, m) \cup {k}
               /\ \A o \in Buses : o # m => Nums(Append(was, e), o) = Nums(was, o)
    <3>1. Under(Nums(was, e.id[1]), {e.id[2]})
      BY <1>0, <2>1, <2>3 DEF Under
    <3>2. e \in S
      BY <1>0, <2>3
    <3> HIDE DEF was, S
    <3>6. was \in Seq(Copy) /\ e \in Copy
      BY <2>1, <3>2
    <3>3. Append(was, e) \in Seq(S) /\ Append(was, e) \in Seq(Copy) /\ Rising(Append(was, e))
      <4>1. Rising(Append(was, e))
        BY <2>1, <3>1, <3>6, RisingAppend
      <4> QED
        BY <2>1, <3>2, <3>6, <4>1
    <3>4. Nums(Append(was, e), e.id[1]) = Nums(was, e.id[1]) \cup {e.id[2]}
      BY <3>6, NumsOfAppend
    <3>5. \A o \in Buses : o # e.id[1] => Nums(Append(was, e), o) = Nums(was, o)
      BY <3>6, NumsOfAppend
    <3> QED
      BY <1>0, <3>3, <3>4, <3>5
  <2> HIDE DEF was
  <2> QED
    BY <2>1, <2>2, <2>3 DEF was, More
<1>2. crossing' \in [Bridges -> Seq(Copy)]
  <2>1. crossing' = [b \in Bridges |-> crossing'[b]]
    BY DEF AfterPublish, PublishedTo
  <2> QED
    BY <2>1, <1>1
<1> QED
  BY <1>1, <1>2

\* e is published on n; the bridge that it came by, if it did, has not to read it any more,
\* and the node, if it came to it, has published what it had marked.
Publishing(way, n, e, m, k, q) ==
    /\ NextOn(way, n, e, m, k)
    /\ Unbroken(Nums(log[n], m) \cup {k})
    /\ Unread(way, q)
    /\ \A b \in Bridges, o \in Buses :
           Crosses(way, o, b) /\ ~(o = m /\ b[2] = n) => Nums(q[b], o) = Nums(crossing[b], o)
    /\ PublishedTo(n, e, q)
    /\ \A x \in Nodes, o \in Buses : ~(o = m /\ x = n) => Nums(held'[x], o) = Nums(held[x], o)
    /\ UNCHANGED <<state, seen, wire, inbox, up>>

\* What Publish leaves true: along every connection and over every bridge but the one that
\* the event came by.
LEMMA Published ==
    ASSUME NEW way, OneWay(way), MeshInv(way),
           NEW n, NEW e, NEW m, NEW k, NEW q, Publishing(way, n, e, m, k, q)
    PROVE  /\ \A o \in Buses, w \in Wires :
                  SendsOn(way, o, w[1]) /\ ~(o = m /\ w[2] = n) => FlowOf(w, o)'
           /\ \A o \in Buses, b \in Bridges :
                  Crosses(way, o, b) /\ ~(o = m /\ b[2] = n) => SpanOf(b, o)'
           /\ \A x, o \in Buses :
                  /\ Unbroken(Nums(log'[x], o))
                  /\ Nums(sub'[x], o) \subseteq Nums(log'[x], o)
                  /\ \A b \in Bridges : b[1] = x => Nums(crossing'[b], o) \subseteq Nums(log'[x], o)
<1>0. /\ n \in Buses /\ m \in Buses /\ k \in Number /\ e \in Here(way, n)
      /\ m = e.id[1] /\ k = e.id[2] /\ Under(Nums(log[n], m), {k})
      /\ NextOn(way, n, e, m, k) /\ Unread(way, q) /\ PublishedTo(n, e, q)
      /\ Unbroken(Nums(log[n], m) \cup {k})
      /\ UNCHANGED <<state, wire, inbox, up>>
  BY DEF NextOn, Publishing
<1>9. /\ \A b \in Bridges, o \in Buses :
             Crosses(way, o, b) /\ ~(o = m /\ b[2] = n) => Nums(q[b], o) = Nums(crossing[b], o)
      /\ \A x \in Nodes, o \in Buses : ~(o = m /\ x = n) => Nums(held'[x], o) = Nums(held[x], o)
  BY DEF Publishing
<1>1. /\ Kinds(way) /\ Orders /\ Paths /\ Flows(way) /\ Spans(way)
  BY DEF MeshInv
<1>2. \A x, o \in Buses :
          /\ More(Nums(log[x], o), Nums(log'[x], o), x = n /\ o = m, k)
          /\ More(Nums(sub[x], o), Nums(sub'[x], o),
                  x = n /\ o = m /\ n \in Nodes /\ state[n] = "running", k)
  BY <1>0, <1>1, Grown
<1>3. \A b \in Bridges, o \in Buses :
          More(Nums(q[b], o), Nums(crossing'[b], o), b[1] = n /\ o = m, k)
  BY <1>0, Told
<1>4. ASSUME NEW o \in Buses, NEW w \in Wires, SendsOn(way, o, w[1]), ~(o = m /\ w[2] = n)
      PROVE  FlowOf(w, o)'
  <2> DEFINE A == Nums(log[w[1]], o)
             S == Nums(sub[w[1]], o)
             L == Nums(log[w[2]], o)
             H == Nums(held[w[2]], o)
             I == Nums(inbox[w[2]], o)
             W == Nums(wire[w], o)
  <2>1. w[1] \in Buses /\ w[2] \in Buses /\ w[1] \in Nodes /\ w[2] \in Nodes
    BY TwoEnds
  <2>2. Flow(A, S, L, H, I, W, state[w[1]], state[w[2]], {w[1], w[2]} \in up)
    BY <1>1, <1>4 DEF Flows, FlowOf
  <2>3. /\ Nums(log'[w[2]], o) = L /\ Nums(held'[w[2]], o) = H
        /\ Nums(inbox'[w[2]], o) = I /\ Nums(wire'[w], o) = W
        /\ state' = state /\ up' = up
    BY <1>0, <1>2, <1>4, <1>9, <2>1 DEF More
  <2>4. CASE w[1] = n /\ o = m
    <3>1. /\ Nums(log'[w[1]], o) = A \cup {k}
          /\ Nums(sub'[w[1]], o) = IF state[w[1]] = "running" THEN S \cup {k} ELSE S
      <4>1. /\ More(A, Nums(log'[w[1]], o), TRUE, k)
            /\ More(S, Nums(sub'[w[1]], o), state[w[1]] = "running", k)
        BY <1>2, <2>1, <2>4
      <4> HIDE DEF A, S
      <4> QED
        BY <4>1 DEF More
    <3>3. A \in SUBSET Number /\ Under(A, {k})
      BY <1>0, <2>4, NumsAreNumbers
    <3> HIDE DEF A, S, L, H, I, W
    <3>2. Flow(A \cup {k}, IF state[w[1]] = "running" THEN S \cup {k} ELSE S, L, H, I, W,
               state[w[1]], state[w[2]], {w[1], w[2]} \in up)
      BY <1>0, <2>2, <3>3, FlowPublished
    <3> QED
      BY <2>3, <3>1, <3>2 DEF FlowOf
  <2>5. CASE ~(w[1] = n /\ o = m)
    <3>1. Nums(log'[w[1]], o) = A /\ Nums(sub'[w[1]], o) = S
      BY <1>2, <2>1, <2>5 DEF More
    <3> HIDE DEF A, S, L, H, I, W
    <3> QED
      BY <2>2, <2>3, <3>1 DEF FlowOf
  <2> QED
    BY <2>4, <2>5
<1>5. ASSUME NEW o \in Buses, NEW b \in Bridges, Crosses(way, o, b), ~(o = m /\ b[2] = n)
      PROVE  SpanOf(b, o)'
  <2> DEFINE A == Nums(log[b[1]], o)
             C == Nums(crossing[b], o)
             L == Nums(log[b[2]], o)
  <2>1. b[1] \in Buses /\ b[2] \in Buses
    BY MeshAssumption
  <2>2. A = L \cup C /\ Under(L, C)
    BY <1>1, <1>5 DEF Spans, SpanOf, Span
  <2>3. Nums(log'[b[2]], o) = L /\ Nums(q[b], o) = C
    BY <1>2, <1>5, <1>9, <2>1 DEF More
  <2>4. CASE b[1] = n /\ o = m
    <3>1. /\ Nums(log'[b[1]], o) = A \cup {k} /\ Nums(crossing'[b], o) = C \cup {k}
          /\ Under(A, {k})
      BY <1>0, <1>2, <1>3, <2>1, <2>3, <2>4 DEF More
    <3> HIDE DEF A, C, L
    <3>2. A \cup {k} = L \cup (C \cup {k}) /\ Under(L, C \cup {k})
      BY <2>2, <3>1 DEF Under
    <3> QED
      BY <2>3, <3>1, <3>2 DEF SpanOf, Span
  <2>5. CASE ~(b[1] = n /\ o = m)
    <3>1. Nums(log'[b[1]], o) = A /\ Nums(crossing'[b], o) = C
      BY <1>2, <1>3, <2>1, <2>3, <2>5 DEF More
    <3> QED
      BY <2>2, <2>3, <3>1 DEF SpanOf, Span
  <2> QED
    BY <2>4, <2>5
<1>6. ASSUME NEW x \in Buses, NEW o \in Buses
      PROVE  /\ Unbroken(Nums(log'[x], o))
             /\ Nums(sub'[x], o) \subseteq Nums(log'[x], o)
             /\ \A b \in Bridges : b[1] = x => Nums(crossing'[b], o) \subseteq Nums(log'[x], o)
  <2>1. /\ Unbroken(Nums(log[x], o)) /\ Nums(sub[x], o) \subseteq Nums(log[x], o)
        /\ \A b \in Bridges : b[1] = x => Nums(q[b], o) \subseteq Nums(log[x], o)
    BY <1>0, <1>1 DEF Paths, Unread
  <2>2. Unbroken(Nums(log'[x], o))
    BY <1>0, <1>2, <2>1 DEF More
  <2>3. Nums(sub'[x], o) \subseteq Nums(log'[x], o)
    BY <1>2, <2>1 DEF More
  <2>4. ASSUME NEW b \in Bridges, b[1] = x
        PROVE  Nums(crossing'[b], o) \subseteq Nums(log'[x], o)
    BY <1>2, <1>3, <2>1, <2>4 DEF More
  <2> QED
    BY <2>2, <2>3, <2>4
<1> QED
  BY <1>4, <1>5, <1>6

\* A step that publishes keeps the invariant, if it takes care of the way the event came by.
LEMMA PublishKeeps ==
    ASSUME NEW way, OneWay(way), MeshInv(way),
           NEW n, NEW e, NEW m, NEW k, NEW q, Publishing(way, n, e, m, k, q),
           held' \in [Nodes -> Seq(Copy)],
           \A x \in Nodes : held'[x] \in Seq(Into(way, x)) /\ Rising(held'[x]) /\ Len(held'[x]) <= 1,
           \A x \in Nodes, o \in Buses :
               Nums(held[x], o) \subseteq Nums(log'[x], o) \cup Nums(held'[x], o),
           n \in Nodes /\ SendsOn(way, m, n) => Nums(held[n], m) = {},
           made' \in [Buses -> Seq(Ids)],
           \A x \in Buses : Nums(log'[x], x) = {j \in Number : j <= Len(made'[x])},
           \A w \in Wires : SendsOn(way, m, w[1]) /\ w[2] = n => FlowOf(w, m)',
           \A b \in Bridges : Crosses(way, m, b) /\ b[2] = n => SpanOf(b, m)'
    PROVE  MeshInv(way)'
<1>1. /\ Kinds(way) /\ Orders /\ Paths /\ Memories(way)
      /\ NextOn(way, n, e, m, k) /\ Unread(way, q) /\ PublishedTo(n, e, q)
      /\ UNCHANGED <<state, seen, wire, inbox, up>>
  BY DEF MeshInv, Publishing
<1>2. /\ log' \in [Buses -> Seq(Copy)] /\ \A x \in Buses : log'[x] \in Seq(Here(way, x))
      /\ sub' \in [Buses -> Seq(Copy)] /\ \A x \in Buses : sub'[x] \in Seq(Here(way, x))
      /\ \A x \in Buses : Rising(log'[x]) /\ Rising(sub'[x])
  BY <1>1, Grown
<1>3. \A x, o \in Buses :
          /\ More(Nums(log[x], o), Nums(log'[x], o), x = n /\ o = m, k)
          /\ More(Nums(sub[x], o), Nums(sub'[x], o),
                  x = n /\ o = m /\ n \in Nodes /\ state[n] = "running", k)
  BY <1>1, Grown
<1>4. /\ crossing' \in [Bridges -> Seq(Copy)]
      /\ \A b \in Bridges : crossing'[b] \in Seq(Here(way, b[1])) /\ Rising(crossing'[b])
  BY <1>1, Told
<1>5. Kinds(way)'
  BY <1>1, <1>2, <1>4 DEF Kinds
<1>6. Orders'
  BY <1>1, <1>2, <1>4 DEF Orders
<1>7. /\ \A o \in Buses, w \in Wires :
             SendsOn(way, o, w[1]) /\ ~(o = m /\ w[2] = n) => FlowOf(w, o)'
      /\ \A o \in Buses, b \in Bridges :
             Crosses(way, o, b) /\ ~(o = m /\ b[2] = n) => SpanOf(b, o)'
      /\ \A x, o \in Buses :
             /\ Unbroken(Nums(log'[x], o))
             /\ Nums(sub'[x], o) \subseteq Nums(log'[x], o)
             /\ \A b \in Bridges : b[1] = x => Nums(crossing'[b], o) \subseteq Nums(log'[x], o)
  BY Published
<1>8. Paths'
  <2>1. ASSUME NEW x \in Buses, NEW o \in Buses, x = o
        PROVE  Nums(log'[x], o) = {j \in Number : j <= Len(made'[o])}
    BY <2>1
  <2> QED
    BY <1>7, <2>1 DEF Paths
<1>9. Flows(way)'
  BY <1>7 DEF Flows
<1>10. Spans(way)'
  BY <1>7 DEF Spans
<1>11. Memories(way)'
  <2> SUFFICES ASSUME NEW x \in Nodes, state[x] # "ended", NEW o \in Buses, NEW j \in Number,
                      <<o, j>> \in ToSet(seen[x])
               PROVE  /\ j \in Nums(log'[x], o) \cup Nums(held'[x], o)
                      /\ SendsOn(way, o, x) => j \notin Nums(sub'[x], o)
    BY <1>1 DEF Memories
  <2>1. /\ j \in Nums(log[x], o) \cup Nums(held[x], o)
        /\ SendsOn(way, o, x) => j \notin Nums(sub[x], o)
    BY <1>1 DEF Memories
  <2>2. CASE x \in Buses
    <3>1. More(Nums(log[x], o), Nums(log'[x], o), x = n /\ o = m, k)
      BY <1>3, <2>2
    <3>2. More(Nums(sub[x], o), Nums(sub'[x], o),
               x = n /\ o = m /\ n \in Nodes /\ state[n] = "running", k)
      BY <1>3, <2>2
    <3>3. j \in Nums(log'[x], o) \cup Nums(held'[x], o)
      BY <2>1, <3>1 DEF More
    <3>4. ASSUME SendsOn(way, o, x) PROVE j \notin Nums(sub'[x], o)
      <4>1. CASE x = n /\ o = m
        <5>1. j \in Nums(log[n], m)
          BY <2>1, <3>4, <4>1
        <5>2. j # k
          BY <1>1, <5>1 DEF NextOn, Under, Number
        <5> QED
          BY <5>2, <3>2, <2>1, <3>4 DEF More
      <4>2. CASE ~(x = n /\ o = m)
        BY <4>2, <3>2, <2>1, <3>4 DEF More
      <4> QED
        BY <4>1, <4>2
    <3> QED
      BY <3>3, <3>4
  <2> QED
    BY <2>2, NodesAreBuses
<1> QED
  BY <1>5, <1>6, <1>8, <1>9, <1>10, <1>11 DEF MeshInv

-----------------------------------------------------------------------------
(* Steps that publish.                                                     *)

\* What bridges have to read is in order and on the buses they read.
LEMMA CrossingUnread ==
    ASSUME NEW way, MeshInv(way)
    PROVE  Unread(way, crossing)
<1>1. \A b \in Bridges : b[1] \in Buses
  BY MeshAssumption
<1> QED
  BY <1>1 DEF MeshInv, Kinds, Orders, Paths, Unread

\* A program publishes on a bus.
LEMMA LocalKeeps ==
    ASSUME NEW way, OneWay(way), MeshInv(way), NEW n \in Buses, Local(n)
    PROVE  MeshInv(way)'
<1> DEFINE k == Len(made[n]) + 1
           e == Event(<<n, k>>)
<1>1. /\ Kinds(way) /\ Orders /\ Paths
  BY DEF MeshInv
<1>2. /\ made[n] \in Seq(Ids) /\ k \in Number /\ Len(made[n]) \in Nat
  BY <1>1 DEF Kinds, Number
<1>3. /\ e.id = <<n, k>> /\ e.id[1] = n /\ e.id[2] = k /\ e.origin = Nobody /\ e.hops = 0
      /\ e \in Copy
  BY <1>2 DEF Event, Copy, Ids
<1>4. e \in Here(way, n)
  <2>1. <<n, n>> \in DOMAIN way /\ way[<<n, n>>].origin = Nobody /\ way[<<n, n>>].hops = 0
    BY DEF OneWay
  <2> HIDE DEF e
  <2> QED
    BY <1>3, <2>1 DEF Here
<1>5. Nums(log[n], n) = {j \in Number : j <= Len(made[n])}
  BY <1>1 DEF Paths
<1>6. Under(Nums(log[n], n), {k}) /\ Unbroken(Nums(log[n], n) \cup {k})
  BY <1>2, <1>5 DEF Under, Unbroken, Number
<1> HIDE DEF e
<1>7. NextOn(way, n, e, n, k)
  BY <1>2, <1>3, <1>4, <1>6 DEF NextOn
<1>8. PublishedTo(n, e, crossing)
  BY DEF Local, Publish, PublishedTo, AfterPublish, e
<1>9. UNCHANGED <<state, seen, wire, inbox, held, up>>
  BY DEF Local
<1>10. made' = [made EXCEPT ![n] = Append(@, e.id)]
  BY DEF Local, e
<1>11. made' \in [Buses -> Seq(Ids)]
  <2>1. e.id \in Ids
    BY <1>2, <1>3 DEF Ids
  <2> QED
    BY <1>1, <1>10, <2>1 DEF Kinds
<1>12. \A x, o \in Buses : More(Nums(log[x], o), Nums(log'[x], o), x = n /\ o = n, k)
  BY <1>1, <1>7, <1>8, Grown
<1>13. \A x \in Buses : Nums(log'[x], x) = {j \in Number : j <= Len(made'[x])}
  <2> TAKE x \in Buses
  <2>1. CASE x = n
    <3>1. Nums(log'[x], x) = {j \in Number : j <= Len(made[n])} \cup {k}
      BY <1>5, <1>12, <2>1 DEF More
    <3>2. Len(made'[x]) = k
      BY <1>1, <1>2, <1>10, <2>1 DEF Kinds
    <3> QED
      BY <1>2, <3>1, <3>2 DEF Number
  <2>2. CASE x # n
    <3>1. Nums(log'[x], x) = Nums(log[x], x)
      BY <1>12, <2>2 DEF More
    <3>2. made'[x] = made[x]
      BY <1>1, <1>10, <2>2 DEF Kinds
    <3> QED
      BY <1>1, <3>1, <3>2 DEF Paths
  <2> QED
    BY <2>1, <2>2
<1>14. ASSUME NEW w \in Wires, SendsOn(way, n, w[1])
       PROVE  w[2] # n
  BY <1>14 DEF OneWay
<1>15. ASSUME NEW b \in Bridges, Crosses(way, n, b)
       PROVE  b[2] # n
  BY <1>15 DEF OneWay
<1>16. n \in Nodes => Nums(held[n], n) = {}
  <2> SUFFICES ASSUME n \in Nodes, NEW j \in Nums(held[n], n) PROVE FALSE
    OBVIOUS
  <2>1. held[n] \in Seq(Into(way, n))
    BY <1>1 DEF Kinds
  <2>2. PICK w \in Wires : w[2] = n /\ SendsOn(way, n, w[1])
    BY <2>1, CameOver
  <2> QED
    BY <2>2, <1>14
<1>17. /\ held' \in [Nodes -> Seq(Copy)]
       /\ \A x \in Nodes : held'[x] \in Seq(Into(way, x)) /\ Rising(held'[x]) /\ Len(held'[x]) <= 1
  BY <1>1, <1>9 DEF Kinds, Orders
<1>18. \A x \in Nodes, o \in Buses :
           /\ Nums(held'[x], o) = Nums(held[x], o)
           /\ Nums(held[x], o) \subseteq Nums(log'[x], o) \cup Nums(held'[x], o)
  BY <1>9
<1>19. Unread(way, crossing)
  BY CrossingUnread
<1> HIDE DEF k
<1>20. Publishing(way, n, e, n, k, crossing)
  BY <1>6, <1>7, <1>8, <1>9, <1>18, <1>19 DEF Publishing
<1> QED
  BY <1>11, <1>13, <1>14, <1>15, <1>16, <1>17, <1>18, <1>20, PublishKeeps

\* What is marked comes right after what is published.
LEMMA MarkedIsNext ==
    ASSUME NEW A \in SUBSET Number, NEW S, NEW L, NEW H, NEW I, NEW W, NEW from, NEW to, NEW on,
           Flow(A, S, L, H, I, W, from, to, on), to # "ended"
    PROVE  Under(L, H) /\ Unbroken(L \cup H)
<1> DEFINE got == L \cup H \cup I \cup W
<1>1. /\ got \subseteq Number /\ Under(L, H \cup I \cup W) /\ Under(H, I \cup W) /\ Unbroken(got)
  BY DEF Flow
<1>2. Under(L, H)
  BY <1>1 DEF Under
<1>3. ASSUME NEW x \in L \cup H, NEW y \in L \cup H, NEW z \in Number, x < z, z < y
      PROVE  z \in L \cup H
  <2>1. z \in got
    BY <1>1, <1>3 DEF Unbroken
  <2>2. ASSUME z \in I \cup W PROVE FALSE
    <3>1. y < z
      BY <1>1, <2>2 DEF Under
    <3> QED
      BY <1>1, <1>3, <3>1 DEF Number
  <2> QED
    BY <2>1, <2>2
<1> QED
  BY <1>2, <1>3 DEF Unbroken

\* A node publishes what it had marked.
LEMMA InboundKeeps ==
    ASSUME NEW way, OneWay(way), MeshInv(way), NEW n \in Nodes, Inbound(n)
    PROVE  MeshInv(way)'
<1>e. PICK e : e = held[n][1]
  OBVIOUS
<1>m. PICK m, k : m = e.id[1] /\ k = e.id[2]
  OBVIOUS
<1>1. /\ Kinds(way) /\ Orders /\ Paths /\ Flows(way) /\ n \in Buses
  BY NodesAreBuses DEF MeshInv
<1>2. /\ held[n] \in Seq(Into(way, n)) /\ held[n] \in Seq(Copy) /\ held[n] # <<>>
      /\ Rising(held[n]) /\ Len(held[n]) <= 1 /\ state[n] = "running"
  BY <1>1 DEF Kinds, Orders, Inbound
<1>3. /\ e = Head(held[n]) /\ e \in Into(way, n) /\ e \in Copy /\ Tail(held[n]) = <<>>
  <2> DEFINE p == held[n]
  <2>1. p \in Seq(Into(way, n)) /\ p \in Seq(Copy) /\ p # <<>> /\ Len(p) <= 1
    BY <1>2
  <2> HIDE DEF p
  <2>2. p[1] = Head(p) /\ p[1] \in Into(way, n) /\ p[1] \in Copy /\ Tail(p) = <<>>
    BY <2>1
  <2> QED
    BY <1>e, <2>2 DEF p
<1>4. m \in Buses /\ k \in Number
  BY <1>m, <1>3, IdOf
<1>5. /\ Nums(held[n], m) = {k}
      /\ \A o \in Buses : o # m => Nums(held[n], o) = {}
  <2> DEFINE p == held[n]
  <2>1. p \in Seq(Copy) /\ p # <<>> /\ Rising(p) /\ Tail(p) = <<>> /\ m = Head(p).id[1] /\ k = Head(p).id[2]
    BY <1>m, <1>2, <1>3
  <2> HIDE DEF p
  <2>2. /\ k \in Nums(p, m)
        /\ Nums(Tail(p), m) = Nums(p, m) \ {k}
        /\ \A o \in Buses : o # m => Nums(Tail(p), o) = Nums(p, o)
    BY <2>1, NumsOfTail
  <2>3. \A o : Nums(Tail(p), o) = {}
    BY <2>1, NumsOfNone
  <2>4. Nums(p, m) = {k} /\ \A o \in Buses : o # m => Nums(p, o) = {}
    BY <2>2, <2>3
  <2> QED
    BY <2>4 DEF p
<1>6. PICK w \in Wires : w[2] = n /\ SendsOn(way, m, w[1])
  BY <1>m, <1>3 DEF Into
<1>7. /\ w[1] \in Buses /\ w[1] \in Nodes /\ w[1] # n /\ m # n /\ ~SendsOn(way, m, n)
  BY <1>4, <1>6, TwoEnds, NotSentOn, OnlyOver
<1>8. /\ \A v \in Wires : SendsOn(way, m, v[1]) /\ v[2] = n => v = w
      /\ \A b \in Bridges : Crosses(way, m, b) => b[2] # n
  BY <1>4, <1>6, OnlyOver
<1> DEFINE A == Nums(log[w[1]], m)
           S == Nums(sub[w[1]], m)
           L == Nums(log[n], m)
           I == Nums(inbox[n], m)
           W == Nums(wire[w], m)
<1>9. Flow(A, S, L, {k}, I, W, state[w[1]], state[n], {w[1], n} \in up) /\ A \in SUBSET Number
  <2>1. FlowOf(w, m)
    BY <1>1, <1>4, <1>6 DEF Flows
  <2>2. A \in SUBSET Number
    BY NumsAreNumbers
  <2> QED
    BY <1>5, <1>6, <2>1, <2>2 DEF FlowOf
<1>10. Under(L, {k}) /\ Unbroken(L \cup {k})
  <2>1. state[n] # "ended"
    BY <1>2
  <2> HIDE DEF A, S, L, I, W
  <2> QED
    BY <1>9, <2>1, MarkedIsNext
<1>11. e \in Here(way, n)
  BY <1>3 DEF Into
<1>12. NextOn(way, n, e, m, k)
  BY <1>m, <1>1, <1>4, <1>10, <1>11 DEF NextOn
<1>13. PublishedTo(n, e, crossing)
  BY <1>e DEF Inbound, Publish, PublishedTo, AfterPublish
<1>14. /\ held' = [held EXCEPT ![n] = <<>>]
       /\ UNCHANGED <<made, state, seen, wire, inbox, up>>
  BY DEF Inbound
<1>15. \A x, o \in Buses : More(Nums(log[x], o), Nums(log'[x], o), x = n /\ o = m, k)
  BY <1>1, <1>12, <1>13, Grown
<1>16. /\ held' \in [Nodes -> Seq(Copy)]
       /\ \A x \in Nodes : held'[x] = IF x = n THEN <<>> ELSE held[x]
  BY <1>1, <1>14 DEF Kinds
<1>17. \A x \in Nodes : held'[x] \in Seq(Into(way, x)) /\ Rising(held'[x]) /\ Len(held'[x]) <= 1
  <2> TAKE x \in Nodes
  <2>1. CASE x = n
    <3>1. held'[x] = <<>>
      BY <1>16, <2>1
    <3>2. DOMAIN <<>> = {} /\ <<>> \in Seq(Into(way, x)) /\ Len(<<>>) = 0
      OBVIOUS
    <3> QED
      BY <3>1, <3>2 DEF Rising
  <2>2. CASE x # n
    BY <1>1, <1>16, <2>2 DEF Kinds, Orders
  <2> QED
    BY <2>1, <2>2
<1>18. \A x \in Nodes, o \in Buses : ~(o = m /\ x = n) => Nums(held'[x], o) = Nums(held[x], o)
  <2> TAKE x \in Nodes, o \in Buses
  <2>1. CASE x = n /\ o # m
    <3>1. held'[x] = <<>> /\ Nums(held[x], o) = {}
      BY <1>5, <1>16, <2>1
    <3> QED
      BY <3>1, NumsOfNone
  <2>2. CASE x # n
    BY <1>16, <2>2
  <2> QED
    BY <2>1, <2>2
<1>19. \A x \in Nodes, o \in Buses : Nums(held[x], o) \subseteq Nums(log'[x], o) \cup Nums(held'[x], o)
  <2> TAKE x \in Nodes, o \in Buses
  <2>1. CASE x = n /\ o = m
    <3>1. Nums(log'[x], o) = Nums(log[x], o) \cup {k}
      BY <1>1, <1>4, <1>15, <2>1 DEF More
    <3> QED
      BY <1>5, <2>1, <3>1
  <2>2. CASE ~(x = n /\ o = m)
    BY <1>18, <2>2
  <2> QED
    BY <2>1, <2>2
<1>20. made' \in [Buses -> Seq(Ids)] /\ made' = made
  BY <1>1, <1>14 DEF Kinds
<1>21. \A x \in Buses : Nums(log'[x], x) = {j \in Number : j <= Len(made'[x])}
  <2> TAKE x \in Buses
  <2>1. Nums(log'[x], x) = Nums(log[x], x)
    BY <1>7, <1>15 DEF More
  <2> QED
    BY <1>1, <1>20, <2>1 DEF Paths
<1>22. Publishing(way, n, e, m, k, crossing)
  <2>1. Unread(way, crossing)
    BY CrossingUnread
  <2> QED
    BY <1>10, <1>12, <1>13, <1>14, <1>18, <2>1 DEF Publishing
<1>23. FlowOf(w, m)'
  <2>1. Nums(log'[w[2]], m) = L \cup {k}
    BY <1>1, <1>4, <1>6, <1>15 DEF More
  <2>2. Nums(log'[w[1]], m) = A
    BY <1>4, <1>7, <1>15 DEF More
  <2>3. Nums(sub'[w[1]], m) = S
    BY <1>1, <1>7, <1>13 DEF PublishedTo, Kinds
  <2>4. Nums(held'[w[2]], m) = {}
    BY <1>6, <1>16, NumsOfNone
  <2>5. Nums(inbox'[w[2]], m) = I /\ Nums(wire'[w], m) = W
    BY <1>6, <1>14
  <2> HIDE DEF A, S, L, I, W
  <2>6. Flow(A, S, L \cup {k}, {}, I, W, state[w[1]], state[n], {w[1], n} \in up)
    BY <1>9, FlowDone
  <2> QED
    BY <1>6, <1>14, <2>1, <2>2, <2>3, <2>4, <2>5, <2>6 DEF FlowOf
<1> QED
  <2>1. \A v \in Wires : SendsOn(way, m, v[1]) /\ v[2] = n => FlowOf(v, m)'
    BY <1>8, <1>23
  <2>2. \A b \in Bridges : Crosses(way, m, b) /\ b[2] = n => SpanOf(b, m)'
    BY <1>8
  <2>3. n \in Nodes /\ SendsOn(way, m, n) => Nums(held[n], m) = {}
    BY <1>7
  <2> QED
    BY <1>16, <1>17, <1>19, <1>20, <1>21, <1>22, <2>1, <2>2, <2>3, PublishKeeps

\* A bridge passes an event on, or drops one that has crossed enough of them.
LEMMA ForwardKeeps ==
    ASSUME NEW way, OneWay(way), MeshInv(way), NEW b \in Bridges, Forward(b)
    PROVE  MeshInv(way)'
<1>e. PICK e : e = Head(crossing[b])
  OBVIOUS
<1>m. PICK m, k : m = e.id[1] /\ k = e.id[2]
  OBVIOUS
<1>q. PICK q : q = [crossing EXCEPT ![b] = Tail(@)]
  OBVIOUS
<1>1. /\ Kinds(way) /\ Orders /\ Paths /\ Flows(way) /\ Spans(way) /\ Memories(way)
      /\ b[1] \in Buses /\ b[2] \in Buses
  BY MeshAssumption DEF MeshInv
<1>2. /\ crossing[b] \in Seq(Here(way, b[1])) /\ crossing[b] \in Seq(Copy) /\ crossing[b] # <<>>
      /\ Rising(crossing[b])
  BY <1>1 DEF Kinds, Orders, Forward
<1>3. /\ e \in Here(way, b[1]) /\ e \in Copy
      /\ Tail(crossing[b]) \in Seq(Here(way, b[1])) /\ Tail(crossing[b]) \in Seq(Copy)
  <2> DEFINE p == crossing[b]
  <2>1. p \in Seq(Here(way, b[1])) /\ p \in Seq(Copy) /\ p # <<>>
    BY <1>2
  <2> HIDE DEF p
  <2>2. /\ Head(p) \in Here(way, b[1]) /\ Head(p) \in Copy
        /\ Tail(p) \in Seq(Here(way, b[1])) /\ Tail(p) \in Seq(Copy)
    BY <2>1
  <2> QED
    BY <1>e, <2>2 DEF p
<1>4. m \in Buses /\ k \in Number
  BY <1>m, <1>3, IdOf
<1>5. /\ k \in Nums(crossing[b], m)
      /\ Nums(Tail(crossing[b]), m) = Nums(crossing[b], m) \ {k}
      /\ Under({k}, Nums(crossing[b], m) \ {k})
      /\ \A o \in Buses : o # m => Nums(Tail(crossing[b]), o) = Nums(crossing[b], o)
      /\ Rising(Tail(crossing[b]))
  <2> DEFINE p == crossing[b]
  <2>1. p \in Seq(Copy) /\ p # <<>> /\ Rising(p) /\ m = Head(p).id[1] /\ k = Head(p).id[2]
    BY <1>e, <1>m, <1>2
  <2> HIDE DEF p
  <2>2. /\ k \in Nums(p, m)
        /\ Nums(Tail(p), m) = Nums(p, m) \ {k}
        /\ Under({k}, Nums(Tail(p), m))
        /\ \A o \in Buses : o # m => Nums(Tail(p), o) = Nums(p, o)
    BY <2>1, NumsOfTail
  <2>3. Rising(Tail(p))
    BY <2>1, RisingTail
  <2> QED
    BY <2>2, <2>3 DEF p
<1>6. /\ q \in [Bridges -> Seq(Copy)]
      /\ \A c \in Bridges : q[c] = IF c = b THEN Tail(crossing[c]) ELSE crossing[c]
  BY <1>q, <1>1, <1>3 DEF Kinds
<1>7. \A c \in Bridges, o \in Buses :
          /\ Nums(q[c], o) \subseteq Nums(crossing[c], o)
          /\ c # b \/ o # m => Nums(q[c], o) = Nums(crossing[c], o)
  <2> TAKE c \in Bridges, o \in Buses
  <2>1. CASE c = b /\ o = m
    BY <1>5, <1>6, <2>1
  <2>2. CASE c = b /\ o # m
    BY <1>5, <1>6, <2>2
  <2>3. CASE c # b
    BY <1>6, <2>3
  <2> QED
    BY <2>1, <2>2, <2>3
<1>8. \A c \in Bridges : q[c] \in Seq(Here(way, c[1])) /\ Rising(q[c])
  <2> TAKE c \in Bridges
  <2>1. CASE c = b
    BY <1>3, <1>5, <1>6, <2>1
  <2>2. CASE c # b
    BY <1>1, <1>6, <2>2 DEF Kinds, Orders
  <2> QED
    BY <2>1, <2>2
<1>9. Unread(way, q)
  <2>1. \A c \in Bridges, o \in Buses : Nums(q[c], o) \subseteq Nums(log[c[1]], o)
    <3> TAKE c \in Bridges, o \in Buses
    <3>1. c[1] \in Buses
      BY MeshAssumption
    <3>2. Nums(crossing[c], o) \subseteq Nums(log[c[1]], o)
      BY <1>1, <3>1 DEF Paths
    <3> QED
      BY <1>7, <3>2
  <2> QED
    BY <1>6, <1>8, <2>1 DEF Unread
<1>10. UNCHANGED <<made, state, seen, wire, inbox, held, up>>
  BY DEF Forward
<1>11. /\ <<m, b[1]>> \in DOMAIN way
       /\ e.origin = way[<<m, b[1]>>].origin /\ e.hops = way[<<m, b[1]>>].hops
  BY <1>m, <1>3 DEF Here
<1>12. CASE ~MayCross(e)
  <2>1. crossing' = q /\ UNCHANGED <<log, sub>>
    BY <1>e, <1>q, <1>12 DEF Forward
  <2>2. ~Crosses(way, m, b)
    BY <1>11, <1>12 DEF MayCross, Crosses
  <2>3. Kinds(way)'
    BY <1>1, <1>6, <1>8, <1>10, <2>1 DEF Kinds
  <2>4. Orders'
    BY <1>1, <1>8, <1>10, <2>1 DEF Orders
  <2>5. Paths'
    BY <1>1, <1>9, <1>10, <2>1 DEF Paths, Unread
  <2>6. Flows(way)'
    BY <1>1, <1>10, <2>1 DEF Flows, FlowOf
  <2>7. Spans(way)'
    <3> SUFFICES ASSUME NEW o \in Buses, NEW c \in Bridges, Crosses(way, o, c)
                 PROVE  SpanOf(c, o)'
      BY DEF Spans
    <3>1. Nums(q[c], o) = Nums(crossing[c], o)
      BY <1>7, <2>2
    <3>2. SpanOf(c, o)
      BY <1>1 DEF Spans
    <3> QED
      BY <2>1, <3>1, <3>2 DEF SpanOf
  <2>8. Memories(way)'
    BY <1>1, <1>10, <2>1 DEF Memories
  <2> QED
    BY <2>3, <2>4, <2>5, <2>6, <2>7, <2>8 DEF MeshInv
<1>13. CASE MayCross(e)
  <2>f. PICK f : f = [e EXCEPT !.hops = @ + 1]
    OBVIOUS
  <2>1. Crosses(way, m, b)
    BY <1>11, <1>13 DEF MayCross, Crosses
  <2>2. PublishedTo(b[2], f, q)
    BY <1>e, <1>q, <1>13, <2>f DEF Forward, PublishedTo, AfterPublish
  <2>3. /\ b[2] # m /\ b[1] # b[2]
        /\ \A c \in Bridges : Crosses(way, m, c) /\ c[2] = b[2] => c = b
        /\ \A w \in Wires : SendsOn(way, m, w[1]) => w[2] # b[2]
    BY <1>4, <2>1, OnlyAcross
  <2>4. f \in Here(way, b[2]) /\ f.id = e.id
    <3>1. /\ <<m, b[2]>> \in DOMAIN way
          /\ way[<<m, b[2]>>] = [way[<<m, b[1]>>] EXCEPT !.hops = @ + 1]
          /\ way[<<m, b[1]>>] \in [origin : Buses \cup {Nobody}, hops : 0..MaxHops]
      BY <1>4, <1>11, <2>1 DEF OneWay
    <3>2. /\ way[<<m, b[2]>>].origin = way[<<m, b[1]>>].origin
          /\ way[<<m, b[2]>>].hops = way[<<m, b[1]>>].hops + 1
      BY <3>1
    <3>3. /\ f.id = e.id /\ f.origin = e.origin /\ f.hops = e.hops + 1 /\ f \in Copy
      BY <1>3, <2>f DEF Copy
    <3> QED
      BY <1>m, <1>11, <3>1, <3>2, <3>3 DEF Here
  <2> DEFINE A == Nums(log[b[1]], m)
             C == Nums(crossing[b], m)
             L == Nums(log[b[2]], m)
  <2>5. A = L \cup C /\ Under(L, C) /\ Unbroken(A) /\ A \subseteq Number /\ k \in C /\ Under({k}, C \ {k})
    BY <1>1, <1>4, <1>5, <2>1, NumsAreNumbers DEF Spans, SpanOf, Span, Paths
  <2>6. Under(L, {k}) /\ Unbroken(L \cup {k})
    <3> HIDE DEF A, C, L
    <3>1. Under(L, {k})
      BY <2>5 DEF Under
    <3>2. ASSUME NEW x \in L \cup {k}, NEW y \in L \cup {k}, NEW z \in Number, x < z, z < y
          PROVE  z \in L
      <4>1. z \in A
        BY <2>5, <3>2 DEF Unbroken
      <4>2. ASSUME z \in C PROVE FALSE
        <5>1. y <= k /\ k <= z
          BY <2>5, <3>1, <3>2, <4>2 DEF Under, Number
        <5> QED
          BY <2>5, <3>2, <5>1 DEF Number
      <4> QED
        BY <2>5, <4>1, <4>2
    <3> QED
      BY <3>1, <3>2 DEF Unbroken
  <2>7. NextOn(way, b[2], f, m, k)
    BY <1>m, <1>1, <1>4, <2>4, <2>6 DEF NextOn
  <2>8. Publishing(way, b[2], f, m, k, q)
    <3>1. \A c \in Bridges, o \in Buses :
              Crosses(way, o, c) /\ ~(o = m /\ c[2] = b[2]) => Nums(q[c], o) = Nums(crossing[c], o)
      BY <1>7
    <3> QED
      BY <1>9, <1>10, <2>2, <2>6, <2>7, <3>1 DEF Publishing
  <2>9. /\ \A x, o \in Buses : More(Nums(log[x], o), Nums(log'[x], o), x = b[2] /\ o = m, k)
        /\ \A c \in Bridges, o \in Buses :
               More(Nums(q[c], o), Nums(crossing'[c], o), c[1] = b[2] /\ o = m, k)
    <3>1. \A x, o \in Buses : More(Nums(log[x], o), Nums(log'[x], o), x = b[2] /\ o = m, k)
      BY <1>1, <2>2, <2>7, Grown
    <3>2. \A c \in Bridges, o \in Buses :
               More(Nums(q[c], o), Nums(crossing'[c], o), c[1] = b[2] /\ o = m, k)
      BY <1>9, <2>2, <2>7, Told
    <3> QED
      BY <3>1, <3>2
  <2>10. SpanOf(b, m)'
    <3>1. Nums(log'[b[1]], m) = A
      BY <1>1, <1>4, <2>3, <2>9 DEF More
    <3>2. Nums(log'[b[2]], m) = L \cup {k}
      BY <1>1, <1>4, <2>9 DEF More
    <3>3. Nums(crossing'[b], m) = C \ {k}
      BY <1>4, <1>5, <1>6, <2>3, <2>9 DEF More
    <3>4. Span(A, C \ {k}, L \cup {k})
      <4> HIDE DEF A, C, L
      <4> QED
        BY <2>5 DEF Span, Under
    <3> QED
      BY <3>1, <3>2, <3>3, <3>4 DEF SpanOf
  <2>11. b[2] \in Nodes /\ SendsOn(way, m, b[2]) => Nums(held[b[2]], m) = {}
    <3> SUFFICES ASSUME b[2] \in Nodes, NEW j \in Nums(held[b[2]], m) PROVE FALSE
      OBVIOUS
    <3>1. held[b[2]] \in Seq(Into(way, b[2]))
      BY <1>1 DEF Kinds
    <3>2. PICK w \in Wires : w[2] = b[2] /\ SendsOn(way, m, w[1])
      BY <3>1, CameOver
    <3> QED
      BY <2>3, <3>2
  <2>12. \A x \in Buses : Nums(log'[x], x) = {j \in Number : j <= Len(made'[x])}
    <3> TAKE x \in Buses
    <3>1. Nums(log'[x], x) = Nums(log[x], x)
      BY <2>3, <2>9 DEF More
    <3>2. made' = made
      BY <1>10
    <3> QED
      BY <1>1, <3>1, <3>2 DEF Paths
  <2>13. /\ held' \in [Nodes -> Seq(Copy)] /\ made' \in [Buses -> Seq(Ids)]
         /\ \A x \in Nodes : held'[x] \in Seq(Into(way, x)) /\ Rising(held'[x]) /\ Len(held'[x]) <= 1
         /\ \A x \in Nodes, o \in Buses : Nums(held[x], o) \subseteq Nums(log'[x], o) \cup Nums(held'[x], o)
    BY <1>1, <1>10 DEF Kinds, Orders
  <2>14. /\ \A w \in Wires : SendsOn(way, m, w[1]) /\ w[2] = b[2] => FlowOf(w, m)'
         /\ \A c \in Bridges : Crosses(way, m, c) /\ c[2] = b[2] => SpanOf(c, m)'
    BY <2>3, <2>10
  <2> QED
    BY <2>8, <2>11, <2>12, <2>13, <2>14, PublishKeeps
<1> QED
  BY <1>12, <1>13

-----------------------------------------------------------------------------
(* Connections and nodes.                                                  *)

\* A node runs: nothing has come to it, and it has heard nothing.
LEMMA StartKeeps ==
    ASSUME NEW way, OneWay(way), MeshInv(way), NEW n \in Nodes, Start(n)
    PROVE  MeshInv(way)'
<1>1. /\ Kinds(way) /\ Orders /\ Paths /\ Flows(way) /\ Spans(way) /\ Memories(way)
  BY DEF MeshInv
<1>2. UNCHANGED <<log, made, sub, seen, wire, inbox, held, up, crossing>>
  BY DEF Start
<1>3. /\ state' \in [Nodes -> Places] /\ state[n] = "new"
      /\ \A x \in Nodes : state'[x] = IF x = n THEN "running" ELSE state[x]
  BY <1>1 DEF Start, Kinds, Places
<1>4. Kinds(way)'
  BY <1>1, <1>2, <1>3 DEF Kinds
<1>5. Orders'
  BY <1>1, <1>2 DEF Orders
<1>6. Paths'
  BY <1>1, <1>2 DEF Paths
<1>7. Flows(way)'
  <2> SUFFICES ASSUME NEW m \in Buses, NEW w \in Wires, SendsOn(way, m, w[1])
               PROVE  FlowOf(w, m)'
    BY DEF Flows
  <2> DEFINE A == Nums(log[w[1]], m)
             S == Nums(sub[w[1]], m)
             L == Nums(log[w[2]], m)
             H == Nums(held[w[2]], m)
             I == Nums(inbox[w[2]], m)
             W == Nums(wire[w], m)
             on == {w[1], w[2]} \in up
             from == state[w[1]]
             to == state[w[2]]
             next == state'[w[1]]
             then == state'[w[2]]
  <2>1. w[1] \in Nodes /\ w[2] \in Nodes
    BY TwoEnds
  <2>2. Flow(A, S, L, H, I, W, from, to, on) /\ A \in SUBSET Number
    BY <1>1, NumsAreNumbers DEF Flows, FlowOf
  <2>3. /\ from = next \/ (from = "new" /\ next = "running")
        /\ to = then \/ (to # "ended" /\ then = "running")
    BY <1>3, <2>1
  <2> HIDE DEF A, S, L, H, I, W, on, from, to, next, then
  <2>4. Flow(A, S, L, H, I, W, next, then, on)
    BY <2>2, <2>3 DEF Flow
  <2> QED
    BY <1>2, <2>4 DEF FlowOf, A, S, L, H, I, W, on, next, then
<1>8. Spans(way)'
  BY <1>1, <1>2 DEF Spans, SpanOf
<1>9. Memories(way)'
  <2>1. \A x \in Nodes : state'[x] # "ended" => state[x] # "ended"
    BY <1>3
  <2> QED
    BY <1>1, <1>2, <2>1 DEF Memories
<1> QED
  BY <1>4, <1>5, <1>6, <1>7, <1>8, <1>9 DEF MeshInv

\* A node ends, and what it had marked and read is gone.
LEMMA StopKeeps ==
    ASSUME NEW way, OneWay(way), MeshInv(way), NEW n \in Nodes, Stop(n)
    PROVE  MeshInv(way)'
<1>1. /\ Kinds(way) /\ Orders /\ Paths /\ Flows(way) /\ Spans(way) /\ Memories(way)
  BY DEF MeshInv
<1>2. UNCHANGED <<log, made, sub, seen, wire, up, crossing>>
  BY DEF Stop
<1>3. /\ state' \in [Nodes -> Places]
      /\ \A x \in Nodes : state'[x] = IF x = n THEN "ended" ELSE state[x]
      /\ held' \in [Nodes -> Seq(Copy)]
      /\ \A x \in Nodes : held'[x] = IF x = n THEN <<>> ELSE held[x]
      /\ inbox' \in [Nodes -> Seq(Copy)]
      /\ \A x \in Nodes : inbox'[x] = IF x = n THEN <<>> ELSE inbox[x]
  BY <1>1 DEF Stop, Kinds, Places
<1>4. \A S : <<>> \in Seq(S)
  OBVIOUS
<1>5. Kinds(way)'
  <2>1. \A x \in Nodes : held'[x] \in Seq(Into(way, x)) /\ inbox'[x] \in Seq(Into(way, x))
    BY <1>1, <1>3, <1>4 DEF Kinds
  <2> QED
    BY <1>1, <1>2, <1>3, <2>1 DEF Kinds
<1>6. Orders'
  <2>1. DOMAIN <<>> = {} /\ Len(<<>>) = 0
    OBVIOUS
  <2>2. Rising(<<>>)
    BY <2>1 DEF Rising
  <2>3. \A x \in Nodes : Rising(inbox'[x]) /\ Rising(held'[x]) /\ Len(held'[x]) <= 1
    <3> TAKE x \in Nodes
    <3>1. CASE x = n
      <4>1. inbox'[x] = <<>> /\ held'[x] = <<>>
        BY <1>3, <3>1
      <4> QED
        BY <2>1, <2>2, <4>1
    <3>2. CASE x # n
      BY <1>1, <1>3, <3>2 DEF Orders
    <3> QED
      BY <3>1, <3>2
  <2> QED
    BY <1>1, <1>2, <2>3 DEF Orders
<1>7. Paths'
  BY <1>1, <1>2 DEF Paths
<1>8. Flows(way)'
  <2> SUFFICES ASSUME NEW m \in Buses, NEW w \in Wires, SendsOn(way, m, w[1])
               PROVE  FlowOf(w, m)'
    BY DEF Flows
  <2> DEFINE A == Nums(log[w[1]], m)
             S == Nums(sub[w[1]], m)
             L == Nums(log[w[2]], m)
             H == Nums(held[w[2]], m)
             I == Nums(inbox[w[2]], m)
             W == Nums(wire[w], m)
             on == {w[1], w[2]} \in up
             from == state[w[1]]
             to == state[w[2]]
             next == state'[w[1]]
  <2>1. w[1] \in Nodes /\ w[2] \in Nodes /\ w[1] # w[2]
    BY TwoEnds
  <2>2. Flow(A, S, L, H, I, W, from, to, on) /\ A \in SUBSET Number
    BY <1>1, NumsAreNumbers DEF Flows, FlowOf
  <2>3. CASE w[2] = n
    <3>1. Nums(held'[w[2]], m) = {} /\ Nums(inbox'[w[2]], m) = {}
      BY <1>3, <2>1, <2>3, NumsOfNone
    <3>2. state'[w[1]] = state[w[1]] /\ state'[w[2]] = "ended"
      BY <1>3, <2>1, <2>3
    <3> HIDE DEF A, S, L, H, I, W, on
    <3>3. Flow(A, S, L, {}, {}, W, state[w[1]], "ended", on)
      BY <2>2, FlowEnded
    <3> QED
      BY <1>2, <3>1, <3>2, <3>3 DEF FlowOf, A, S, L, W, on
  <2>4. CASE w[2] # n
    <3>1. held'[w[2]] = held[w[2]] /\ inbox'[w[2]] = inbox[w[2]] /\ state'[w[2]] = state[w[2]]
      BY <1>3, <2>1, <2>4
    <3>2. from = next \/ next = "ended"
      BY <1>3, <2>1
    <3> HIDE DEF A, S, L, H, I, W, on, from, to, next
    <3>3. Flow(A, S, L, H, I, W, next, to, on)
      BY <2>2, <3>2 DEF Flow
    <3> QED
      BY <1>2, <3>1, <3>3 DEF FlowOf, A, S, L, H, I, W, on, to, next
  <2> QED
    BY <2>3, <2>4
<1>9. Spans(way)'
  BY <1>1, <1>2 DEF Spans, SpanOf
<1>10. Memories(way)'
  <2>1. \A x \in Nodes : state'[x] # "ended" => state[x] # "ended" /\ held'[x] = held[x]
    BY <1>3
  <2> QED
    BY <1>1, <1>2, <2>1 DEF Memories
<1> QED
  BY <1>5, <1>6, <1>7, <1>8, <1>9, <1>10 DEF MeshInv

\* A connection goes, and the end of what is under way with it.
LEMMA LoseKeeps ==
    ASSUME NEW way, OneWay(way), MeshInv(way), NEW l \in Links, Lose(l)
    PROVE  MeshInv(way)'
<1>1. /\ Kinds(way) /\ Orders /\ Paths /\ Flows(way) /\ Spans(way) /\ Memories(way)
  BY DEF MeshInv
<1>2. UNCHANGED <<log, made, state, sub, seen, inbox, held, crossing>> /\ up' = up \ {l}
  BY DEF Lose
<1>3. PICK sent \in [{w \in Wires : {w[1], w[2]} = l} -> 0..MaxEvents] :
          /\ \A w \in DOMAIN sent : sent[w] <= Len(wire[w])
          /\ wire' = [w \in Wires |-> IF w \in DOMAIN sent THEN SubSeq(wire[w], 1, sent[w]) ELSE wire[w]]
  BY DEF Lose
<1>4. ASSUME NEW w \in Wires
      PROVE  /\ wire'[w] \in Seq(Over(way, w)) /\ wire'[w] \in Seq(Copy) /\ Rising(wire'[w])
             /\ {w[1], w[2]} # l => wire'[w] = wire[w]
             /\ \A m : /\ Nums(wire'[w], m) \subseteq Nums(wire[w], m)
                       /\ Under(Nums(wire'[w], m), Nums(wire[w], m) \ Nums(wire'[w], m))
  <2>1. wire[w] \in Seq(Over(way, w)) /\ wire[w] \in Seq(Copy) /\ Rising(wire[w])
    BY <1>1 DEF Kinds, Orders
  <2>2. CASE {w[1], w[2]} # l
    <3>1. wire'[w] = wire[w]
      BY <1>3, <2>2
    <3> QED
      BY <2>1, <2>2, <3>1 DEF Under
  <2>3. CASE {w[1], w[2]} = l
    <3> DEFINE p == wire[w]
               x == sent[w]
    <3>1. wire'[w] = SubSeq(p, 1, x) /\ x \in 0..MaxEvents /\ x <= Len(p)
      BY <1>3, <2>3
    <3>2. p \in Seq(Over(way, w)) /\ p \in Seq(Copy) /\ Rising(p) /\ x \in 0..Len(p)
      BY <2>1, <3>1
    <3> HIDE DEF p, x
    <3>3. SubSeq(p, 1, x) \in Seq(Over(way, w)) /\ SubSeq(p, 1, x) \in Seq(Copy)
      BY <3>2
    <3>4. \A m : /\ Nums(SubSeq(p, 1, x), m) \subseteq Nums(p, m)
                 /\ Under(Nums(SubSeq(p, 1, x), m), Nums(p, m) \ Nums(SubSeq(p, 1, x), m))
                 /\ Rising(SubSeq(p, 1, x))
      BY <3>2, NumsOfPrefix
    <3> QED
      BY <2>3, <3>1, <3>3, <3>4 DEF p
  <2> QED
    BY <2>2, <2>3
<1>5. Kinds(way)'
  <2>1. wire' \in [Wires -> Seq(Copy)]
    BY <1>3, <1>4
  <2> QED
    BY <1>1, <1>2, <1>4, <2>1 DEF Kinds
<1>6. Orders'
  BY <1>1, <1>2, <1>4 DEF Orders
<1>7. Paths'
  BY <1>1, <1>2 DEF Paths
<1>8. Flows(way)'
  <2> SUFFICES ASSUME NEW m \in Buses, NEW w \in Wires, SendsOn(way, m, w[1])
               PROVE  FlowOf(w, m)'
    BY DEF Flows
  <2> DEFINE A == Nums(log[w[1]], m)
             S == Nums(sub[w[1]], m)
             L == Nums(log[w[2]], m)
             H == Nums(held[w[2]], m)
             I == Nums(inbox[w[2]], m)
             W == Nums(wire[w], m)
             V == Nums(wire'[w], m)
             on == {w[1], w[2]} \in up
  <2>1. Flow(A, S, L, H, I, W, state[w[1]], state[w[2]], on) /\ A \in SUBSET Number
    BY <1>1, NumsAreNumbers DEF Flows, FlowOf
  <2>2. V \in SUBSET W /\ Under(V, W \ V)
    BY <1>4
  <2>3. CASE {w[1], w[2]} = l
    <3>1. ({w[1], w[2]} \in up') = FALSE
      BY <1>2, <2>3
    <3> HIDE DEF A, S, L, H, I, W, V, on
    <3>2. Flow(A, S, L, H, I, V, state[w[1]], state[w[2]], FALSE)
      BY <2>1, <2>2, FlowLost
    <3> QED
      BY <1>2, <3>1, <3>2 DEF FlowOf, A, S, L, H, I, V
  <2>4. CASE {w[1], w[2]} # l
    <3>1. ({w[1], w[2]} \in up') = on /\ V = W
      BY <1>2, <1>4, <2>4
    <3> QED
      BY <1>2, <2>1, <3>1 DEF FlowOf
  <2> QED
    BY <2>3, <2>4
<1>9. Spans(way)'
  BY <1>1, <1>2 DEF Spans, SpanOf
<1>10. Memories(way)'
  BY <1>1, <1>2 DEF Memories
<1> QED
  BY <1>5, <1>6, <1>7, <1>8, <1>9, <1>10 DEF MeshInv

\* A node reads what comes next over a connection.
LEMMA ReadKeeps ==
    ASSUME NEW way, OneWay(way), MeshInv(way), NEW v \in Wires, Read(v)
    PROVE  MeshInv(way)'
<1>e. PICK e : e = Head(wire[v])
  OBVIOUS
<1>m. PICK m, k : m = e.id[1] /\ k = e.id[2]
  OBVIOUS
<1>1. /\ Kinds(way) /\ Orders /\ Paths /\ Flows(way) /\ Spans(way) /\ Memories(way)
  BY DEF MeshInv
<1>2. UNCHANGED <<log, made, state, sub, seen, held, up, crossing>>
  BY DEF Read
<1>3. v[1] \in Nodes /\ v[2] \in Nodes /\ v[1] # v[2]
  BY TwoEnds
<1>4. /\ e \in Over(way, v) /\ e \in Copy
      /\ Tail(wire[v]) \in Seq(Over(way, v)) /\ Tail(wire[v]) \in Seq(Copy) /\ Rising(Tail(wire[v]))
      /\ k \in Nums(wire[v], m)
      /\ Nums(Tail(wire[v]), m) = Nums(wire[v], m) \ {k}
      /\ Under({k}, Nums(wire[v], m) \ {k})
      /\ \A o \in Buses : o # m => Nums(Tail(wire[v]), o) = Nums(wire[v], o)
  <2> DEFINE p == wire[v]
  <2>1. /\ p \in Seq(Over(way, v)) /\ p \in Seq(Copy) /\ p # <<>> /\ Rising(p)
        /\ e = Head(p) /\ m = Head(p).id[1] /\ k = Head(p).id[2]
    BY <1>1, <1>e, <1>m DEF Read, Kinds, Orders
  <2> HIDE DEF p
  <2>2. /\ e \in Over(way, v) /\ e \in Copy
        /\ Tail(p) \in Seq(Over(way, v)) /\ Tail(p) \in Seq(Copy)
    BY <2>1
  <2>3. /\ k \in Nums(p, m)
        /\ Nums(Tail(p), m) = Nums(p, m) \ {k}
        /\ Under({k}, Nums(Tail(p), m))
        /\ \A o \in Buses : o # m => Nums(Tail(p), o) = Nums(p, o)
    BY <2>1, NumsOfTail, ZenonT(30)
  <2>4. Rising(Tail(p))
    BY <2>1, RisingTail
  <2> QED
    BY <2>2, <2>3, <2>4 DEF p
<1>5. m \in Buses /\ k \in Number
  BY <1>m, <1>4, IdOf
<1>6. SendsOn(way, m, v[1]) /\ e \in Into(way, v[2])
  BY <1>m, <1>4 DEF Over, Into
<1> DEFINE A == Nums(log[v[1]], m)
           S == Nums(sub[v[1]], m)
           L == Nums(log[v[2]], m)
           H == Nums(held[v[2]], m)
           I == Nums(inbox[v[2]], m)
           W == Nums(wire[v], m)
           on == {v[1], v[2]} \in up
<1>7. Flow(A, S, L, H, I, W, state[v[1]], state[v[2]], on) /\ A \in SUBSET Number
  BY <1>1, <1>5, <1>6, NumsAreNumbers DEF Flows, FlowOf
<1>8. Under(I, {k})
  <2> HIDE DEF A, S, L, H, on
  <2>1. Under(I, W) /\ k \in W
    BY <1>4, <1>7 DEF Flow
  <2> HIDE DEF I, W
  <2> QED
    BY <2>1 DEF Under
<1>9. /\ Append(inbox[v[2]], e) \in Seq(Into(way, v[2])) /\ Append(inbox[v[2]], e) \in Seq(Copy)
      /\ Rising(Append(inbox[v[2]], e))
      /\ Nums(Append(inbox[v[2]], e), m) = Nums(inbox[v[2]], m) \cup {k}
      /\ \A o \in Buses : o # m => Nums(Append(inbox[v[2]], e), o) = Nums(inbox[v[2]], o)
  <2> DEFINE p == inbox[v[2]]
  <2>1. p \in Seq(Into(way, v[2])) /\ p \in Seq(Copy) /\ Rising(p) /\ Under(Nums(p, m), {k})
    BY <1>1, <1>3, <1>8 DEF Kinds, Orders
  <2> HIDE DEF p
  <2>2. Append(p, e) \in Seq(Into(way, v[2])) /\ Append(p, e) \in Seq(Copy)
    BY <1>4, <1>6, <2>1
  <2>3. Rising(Append(p, e))
    BY <1>m, <1>4, <2>1, RisingAppend
  <2>4. /\ Nums(Append(p, e), m) = Nums(p, m) \cup {k}
        /\ \A o \in Buses : o # m => Nums(Append(p, e), o) = Nums(p, o)
    BY <1>m, <1>4, <2>1, NumsOfAppend, SMTT(30)
  <2> QED
    BY <2>2, <2>3, <2>4 DEF p
<1>10. /\ wire' \in [Wires -> Seq(Copy)]
       /\ \A w \in Wires : wire'[w] = IF w = v THEN Tail(wire[w]) ELSE wire[w]
  BY <1>1, <1>4 DEF Read, Kinds
<1>11. /\ inbox' \in [Nodes -> Seq(Copy)]
       /\ \A x \in Nodes : inbox'[x] = IF x = v[2] THEN Append(inbox[x], e) ELSE inbox[x]
  BY <1>1, <1>3, <1>9, <1>e DEF Read, Kinds
<1>12. Kinds(way)'
  <2>1. \A w \in Wires : wire'[w] \in Seq(Over(way, w))
    BY <1>1, <1>4, <1>10 DEF Kinds
  <2>2. \A x \in Nodes : inbox'[x] \in Seq(Into(way, x))
    BY <1>1, <1>9, <1>11 DEF Kinds
  <2> QED
    BY <1>1, <1>2, <1>10, <1>11, <2>1, <2>2 DEF Kinds
<1>13. Orders'
  <2>1. \A w \in Wires : Rising(wire'[w])
    BY <1>1, <1>4, <1>10 DEF Orders
  <2>2. \A x \in Nodes : Rising(inbox'[x])
    BY <1>1, <1>9, <1>11 DEF Orders
  <2> QED
    BY <1>1, <1>2, <2>1, <2>2 DEF Orders
<1>14. Paths'
  BY <1>1, <1>2 DEF Paths
<1>15. Flows(way)'
  <2>1. FlowOf(v, m)'
    <3>1. Nums(inbox'[v[2]], m) = I \cup {k} /\ Nums(wire'[v], m) = W \ {k}
      BY <1>3, <1>4, <1>9, <1>10, <1>11
    <3>2. k \in W /\ Under({k}, W \ {k})
      BY <1>4
    <3> HIDE DEF A, S, L, H, I, W, on
    <3>3. Flow(A, S, L, H, I \cup {k}, W \ {k}, state[v[1]], state[v[2]], on)
      BY <1>7, <3>2, FlowRead
    <3> QED
      BY <1>2, <3>1, <3>3 DEF FlowOf, A, S, L, H, on
  <2>2. ASSUME NEW o \in Buses, NEW w \in Wires, SendsOn(way, o, w[1]), ~(o = m /\ w = v)
        PROVE  FlowOf(w, o)'
    <3>1. FlowOf(w, o)
      BY <1>1, <2>2 DEF Flows
    <3>2. Nums(wire'[w], o) = Nums(wire[w], o)
      <4>1. CASE w = v
        BY <1>4, <1>10, <2>2, <4>1
      <4>2. CASE w # v
        BY <1>10, <4>2
      <4> QED
        BY <4>1, <4>2
    <3>3. Nums(inbox'[w[2]], o) = Nums(inbox[w[2]], o)
      <4>1. w[2] \in Nodes
        BY TwoEnds
      <4>2. CASE w[2] = v[2]
        <5>1. o # m
          <6>1. \A x \in Wires : SendsOn(way, m, x[1]) /\ x[2] = v[2] => x = v
            BY <1>5, <1>6, OnlyOver
          <6> QED
            BY <2>2, <4>2, <6>1
        <5> QED
          BY <1>9, <1>11, <4>1, <4>2, <5>1
      <4>3. CASE w[2] # v[2]
        BY <1>11, <4>1, <4>3
      <4> QED
        BY <4>2, <4>3
    <3> QED
      BY <1>2, <3>1, <3>2, <3>3 DEF FlowOf
  <2> QED
    BY <2>1, <2>2 DEF Flows
<1>16. Spans(way)'
  BY <1>1, <1>2 DEF Spans, SpanOf
<1>17. Memories(way)'
  BY <1>1, <1>2 DEF Memories
<1> QED
  BY <1>12, <1>13, <1>14, <1>15, <1>16, <1>17 DEF MeshInv

\* A node takes what it has read next. It does not remember it, so it marks it.
LEMMA TakeKeeps ==
    ASSUME NEW way, OneWay(way), MeshInv(way), NEW n \in Nodes, Take(n)
    PROVE  MeshInv(way)'
<1>e. PICK e : e = Head(inbox[n])
  OBVIOUS
<1>m. PICK m, k : m = e.id[1] /\ k = e.id[2]
  OBVIOUS
<1>1. /\ Kinds(way) /\ Orders /\ Paths /\ Flows(way) /\ Spans(way) /\ Memories(way)
  BY DEF MeshInv
<1>2. /\ UNCHANGED <<log, made, state, sub, wire, up, crossing>>
      /\ state[n] = "running" /\ held[n] = <<>> /\ inbox[n] # <<>>
      /\ inbox' = [inbox EXCEPT ![n] = Tail(@)]
  BY DEF Take
<1>4. /\ e \in Into(way, n) /\ e \in Copy
      /\ Tail(inbox[n]) \in Seq(Into(way, n)) /\ Tail(inbox[n]) \in Seq(Copy) /\ Rising(Tail(inbox[n]))
      /\ k \in Nums(inbox[n], m)
      /\ Nums(Tail(inbox[n]), m) = Nums(inbox[n], m) \ {k}
      /\ Under({k}, Nums(inbox[n], m) \ {k})
      /\ \A o \in Buses : o # m => Nums(Tail(inbox[n]), o) = Nums(inbox[n], o)
  <2> DEFINE p == inbox[n]
  <2>1. /\ p \in Seq(Into(way, n)) /\ p \in Seq(Copy) /\ p # <<>> /\ Rising(p)
        /\ e = Head(p) /\ m = Head(p).id[1] /\ k = Head(p).id[2]
    BY <1>1, <1>2, <1>e, <1>m DEF Kinds, Orders
  <2> HIDE DEF p
  <2>2. /\ e \in Into(way, n) /\ e \in Copy
        /\ Tail(p) \in Seq(Into(way, n)) /\ Tail(p) \in Seq(Copy)
    BY <2>1
  <2>3. /\ k \in Nums(p, m)
        /\ Nums(Tail(p), m) = Nums(p, m) \ {k}
        /\ Under({k}, Nums(Tail(p), m))
        /\ \A o \in Buses : o # m => Nums(Tail(p), o) = Nums(p, o)
    BY <2>1, NumsOfTail, ZenonT(30)
  <2>4. Rising(Tail(p))
    BY <2>1, RisingTail
  <2> QED
    BY <2>2, <2>3, <2>4 DEF p
<1>5. m \in Buses /\ k \in Number /\ e.id = <<m, k>> /\ e.id \in Ids
  BY <1>m, <1>4, IdOf DEF Copy
<1>6. PICK v \in Wires : v[2] = n /\ SendsOn(way, m, v[1])
  BY <1>m, <1>4 DEF Into
<1>3. v[1] \in Nodes /\ v[1] # n /\ ~SendsOn(way, m, n)
  BY <1>5, <1>6, TwoEnds, NotSentOn
<1> DEFINE A == Nums(log[v[1]], m)
           S == Nums(sub[v[1]], m)
           L == Nums(log[n], m)
           I == Nums(inbox[n], m)
           W == Nums(wire[v], m)
           on == {v[1], n} \in up
<1>7. Flow(A, S, L, {}, I, W, state[v[1]], state[n], on) /\ A \in SUBSET Number
  <2>1. FlowOf(v, m) /\ Nums(held[n], m) = {}
    BY <1>1, <1>2, <1>5, <1>6, NumsOfNone DEF Flows
  <2> QED
    BY <1>6, <2>1, NumsAreNumbers DEF FlowOf
<1>8. <<m, k>> \notin ToSet(seen[n])
  <2>1. k \notin L
    <3>1. Under(L, I) /\ k \in I
      BY <1>4, <1>7 DEF Flow, Under
    <3> HIDE DEF L, I
    <3> QED
      BY <1>5, <3>1 DEF Under, Number
  <2>2. Nums(held[n], m) = {}
    BY <1>2, NumsOfNone
  <2> QED
    BY <1>1, <1>2, <1>5, <2>1, <2>2 DEF Memories
<1>9. /\ seen' = [seen EXCEPT ![n] = Remember(@, e.id)]
      /\ held' = [held EXCEPT ![n] = <<e>>]
  BY <1>5, <1>8, <1>e DEF Take
<1>10. /\ inbox' \in [Nodes -> Seq(Copy)]
       /\ \A x \in Nodes : inbox'[x] = IF x = n THEN Tail(inbox[x]) ELSE inbox[x]
  BY <1>1, <1>2, <1>4 DEF Kinds
<1>11. /\ held' \in [Nodes -> Seq(Copy)]
       /\ \A x \in Nodes : held'[x] = IF x = n THEN <<e>> ELSE held[x]
  BY <1>1, <1>4, <1>9 DEF Kinds
<1>12. /\ Remember(seen[n], e.id) \in Seq(Ids)
       /\ ToSet(Remember(seen[n], e.id)) \subseteq ToSet(seen[n]) \cup {e.id}
  <2>1. seen[n] \in Seq(Ids)
    BY <1>1 DEF Kinds
  <2> QED
    BY <1>5, <2>1, Remembered
<1>13. /\ seen' \in [Nodes -> Seq(Ids)]
       /\ \A x \in Nodes : seen'[x] = IF x = n THEN Remember(seen[x], e.id) ELSE seen[x]
  BY <1>1, <1>9, <1>12 DEF Kinds
<1>14. /\ Nums(<<e>>, m) = {k} /\ Rising(<<e>>)
       /\ \A o \in Buses : o # m => Nums(<<e>>, o) = {}
       /\ Len(<<e>>) = 1 /\ <<e>> \in Seq(Into(way, n))
  BY <1>m, <1>4, One
<1>15. Kinds(way)'
  <2>1. \A x \in Nodes : inbox'[x] \in Seq(Into(way, x))
    BY <1>1, <1>4, <1>10 DEF Kinds
  <2>2. \A x \in Nodes : held'[x] \in Seq(Into(way, x))
    BY <1>1, <1>11, <1>14 DEF Kinds
  <2> QED
    BY <1>1, <1>2, <1>10, <1>11, <1>13, <2>1, <2>2 DEF Kinds
<1>16. Orders'
  <2>1. \A x \in Nodes : Rising(inbox'[x])
    BY <1>1, <1>4, <1>10 DEF Orders
  <2>2. \A x \in Nodes : Rising(held'[x]) /\ Len(held'[x]) <= 1
    <3> TAKE x \in Nodes
    <3>1. CASE x = n
      <4>1. held'[x] = <<e>>
        BY <1>11, <3>1
      <4> QED
        BY <1>14, <4>1
    <3>2. CASE x # n
      BY <1>1, <1>11, <3>2 DEF Orders
    <3> QED
      BY <3>1, <3>2
  <2> QED
    BY <1>1, <1>2, <2>1, <2>2 DEF Orders
<1>17. Paths'
  <2>1. UNCHANGED <<log, made, sub, crossing>>
    BY <1>2
  <2> QED
    BY <1>1, <2>1 DEF Paths
<1>18. Flows(way)'
  <2>1. FlowOf(v, m)'
    <3>1. Nums(inbox'[v[2]], m) = I \ {k} /\ Nums(held'[v[2]], m) = {k}
      BY <1>4, <1>6, <1>10, <1>11, <1>14
    <3>2. k \in I /\ Under({k}, I \ {k})
      BY <1>4
    <3> HIDE DEF A, S, L, I, W, on
    <3>3. Flow(A, S, L, {k}, I \ {k}, W, state[v[1]], state[n], on)
      BY <1>7, <3>2, FlowTaken
    <3> QED
      BY <1>2, <1>6, <3>1, <3>3 DEF FlowOf, A, S, L, W, on
  <2>2. ASSUME NEW o \in Buses, NEW w \in Wires, SendsOn(way, o, w[1]), ~(o = m /\ w = v)
        PROVE  FlowOf(w, o)'
    <3>1. FlowOf(w, o) /\ w[2] \in Nodes
      BY <1>1, <2>2, TwoEnds DEF Flows
    <3>2. /\ Nums(inbox'[w[2]], o) = Nums(inbox[w[2]], o)
          /\ Nums(held'[w[2]], o) = Nums(held[w[2]], o)
      <4>1. CASE w[2] = n
        <5>1. o # m
          <6>1. \A x \in Wires : SendsOn(way, m, x[1]) /\ x[2] = n => x = v
            BY <1>5, <1>6, OnlyOver
          <6> QED
            BY <2>2, <4>1, <6>1
        <5>2. Nums(held[n], o) = {}
          BY <1>2, NumsOfNone
        <5> QED
          BY <1>4, <1>10, <1>11, <1>14, <4>1, <5>1, <5>2
      <4>2. CASE w[2] # n
        BY <1>10, <1>11, <3>1, <4>2
      <4> QED
        BY <4>1, <4>2
    <3> QED
      BY <1>2, <3>1, <3>2 DEF FlowOf
  <2> QED
    BY <2>1, <2>2 DEF Flows
<1>19. Spans(way)'
  BY <1>1, <1>2 DEF Spans, SpanOf
<1>20. Memories(way)'
  <2> SUFFICES ASSUME NEW x \in Nodes, state'[x] # "ended", NEW o \in Buses, NEW j \in Number,
                      <<o, j>> \in ToSet(seen'[x])
               PROVE  /\ j \in Nums(log'[x], o) \cup Nums(held'[x], o)
                      /\ SendsOn(way, o, x) => j \notin Nums(sub'[x], o)
    BY DEF Memories
  <2>1. CASE x = n /\ <<o, j>> = e.id
    <3>1. o = m /\ j = k
      BY <1>5, <2>1
    <3> QED
      BY <1>3, <1>11, <1>14, <2>1, <3>1
  <2>2. CASE <<o, j>> \in ToSet(seen[x])
    <3>1. /\ j \in Nums(log[x], o) \cup Nums(held[x], o)
          /\ SendsOn(way, o, x) => j \notin Nums(sub[x], o)
      BY <1>1, <1>2, <2>2 DEF Memories
    <3>2. Nums(held[x], o) \subseteq Nums(held'[x], o)
      <4>1. CASE x = n
        BY <1>2, <4>1, NumsOfNone
      <4>2. CASE x # n
        BY <1>11, <4>2
      <4> QED
        BY <4>1, <4>2
    <3> QED
      BY <1>2, <3>1, <3>2
  <2> QED
    BY <1>12, <1>13, <2>1, <2>2
<1> QED
  BY <1>15, <1>16, <1>17, <1>18, <1>19, <1>20 DEF MeshInv

\* A node sends on what it has heard, or passes it over: then another node sent it here.
LEMMA OutboundKeeps ==
    ASSUME NEW way, OneWay(way), MeshInv(way), NEW n \in Nodes, Outbound(n)
    PROVE  MeshInv(way)'
<1>e. PICK e : e = Head(sub[n])
  OBVIOUS
<1>m. PICK m, k : m = e.id[1] /\ k = e.id[2]
  OBVIOUS
<1>1. /\ Kinds(way) /\ Orders /\ Paths /\ Flows(way) /\ Spans(way) /\ Memories(way) /\ n \in Buses
  BY NodesAreBuses DEF MeshInv
<1>2. UNCHANGED <<log, made, state, inbox, held, up, crossing>>
  BY DEF Outbound
<1>3. state[n] = "running" /\ sub[n] # <<>> /\ sub' = [sub EXCEPT ![n] = Tail(@)]
  BY DEF Outbound
<1>4. /\ e \in Here(way, n) /\ e \in Copy
      /\ Tail(sub[n]) \in Seq(Here(way, n)) /\ Tail(sub[n]) \in Seq(Copy) /\ Rising(Tail(sub[n]))
      /\ k \in Nums(sub[n], m)
      /\ Nums(Tail(sub[n]), m) = Nums(sub[n], m) \ {k}
      /\ Under({k}, Nums(sub[n], m) \ {k})
      /\ \A o \in Buses : o # m => Nums(Tail(sub[n]), o) = Nums(sub[n], o)
  <2> DEFINE p == sub[n]
  <2>1. /\ p \in Seq(Here(way, n)) /\ p \in Seq(Copy) /\ p # <<>> /\ Rising(p)
        /\ e = Head(p) /\ m = Head(p).id[1] /\ k = Head(p).id[2]
    BY <1>1, <1>3, <1>e, <1>m DEF Kinds, Orders
  <2> HIDE DEF p
  <2>2. /\ e \in Here(way, n) /\ e \in Copy
        /\ Tail(p) \in Seq(Here(way, n)) /\ Tail(p) \in Seq(Copy)
    BY <2>1
  <2>3. /\ k \in Nums(p, m)
        /\ Nums(Tail(p), m) = Nums(p, m) \ {k}
        /\ Under({k}, Nums(Tail(p), m))
        /\ \A o \in Buses : o # m => Nums(Tail(p), o) = Nums(p, o)
    BY <2>1, NumsOfTail, ZenonT(30)
  <2>4. Rising(Tail(p))
    BY <2>1, RisingTail
  <2> QED
    BY <2>2, <2>3, <2>4 DEF p
<1>5. m \in Buses /\ k \in Number /\ e.id = <<m, k>> /\ e.id \in Ids
  BY <1>m, <1>4, IdOf DEF Copy
<1>6. /\ <<m, n>> \in DOMAIN way
      /\ e.origin = way[<<m, n>>].origin /\ e.hops = way[<<m, n>>].hops
  BY <1>m, <1>4 DEF Here
<1>7. /\ sub' \in [Buses -> Seq(Copy)]
      /\ \A x \in Buses : sub'[x] = IF x = n THEN Tail(sub[x]) ELSE sub[x]
  BY <1>1, <1>3, <1>4 DEF Kinds
<1>8. \A x \in Buses : sub'[x] \in Seq(Here(way, x)) /\ Rising(sub'[x])
  BY <1>1, <1>4, <1>7 DEF Kinds, Orders
<1>9. \A x, o \in Buses :
          /\ Nums(sub'[x], o) \subseteq Nums(sub[x], o)
          /\ x # n \/ o # m => Nums(sub'[x], o) = Nums(sub[x], o)
  <2> TAKE x \in Buses, o \in Buses
  <2>1. CASE x = n /\ o = m
    BY <1>4, <1>7, <2>1
  <2>2. CASE x = n /\ o # m
    BY <1>4, <1>7, <2>2
  <2>3. CASE x # n
    BY <1>7, <2>3
  <2> QED
    BY <2>1, <2>2, <2>3
<1>10. Paths'
  <2>1. UNCHANGED <<log, made, crossing>>
    BY <1>2
  <2> SUFFICES ASSUME NEW x \in Buses, NEW o \in Buses
               PROVE  Nums(sub'[x], o) \subseteq Nums(log[x], o)
    BY <1>1, <2>1, SMTT(30) DEF Paths
  <2>2. Nums(sub[x], o) \subseteq Nums(log[x], o)
    BY <1>1 DEF Paths
  <2> QED
    BY <1>9, <2>2
<1>11. Spans(way)'
  <2>1. UNCHANGED <<log, crossing>>
    BY <1>2
  <2> QED
    BY <1>1, <2>1 DEF Spans, SpanOf
<1>12. ASSUME Foreign(n, e) \/ e.id \in ToSet(seen[n])
       PROVE  MeshInv(way)'
  <2>1. ~SendsOn(way, m, n)
    <3>1. CASE Foreign(n, e)
      BY <1>6, <3>1 DEF Foreign, SendsOn
    <3>2. CASE e.id \in ToSet(seen[n])
      BY <1>1, <1>3, <1>4, <1>5, <3>2 DEF Memories
    <3> QED
      BY <1>12, <3>1, <3>2
  <2>2. UNCHANGED <<seen, wire>>
    BY <1>12, <1>e DEF Outbound
  <2>3. Kinds(way)'
    BY <1>1, <1>2, <1>7, <1>8, <2>2 DEF Kinds
  <2>4. Orders'
    BY <1>1, <1>2, <1>8, <2>2 DEF Orders
  <2>5. Flows(way)'
    <3> SUFFICES ASSUME NEW o \in Buses, NEW w \in Wires, SendsOn(way, o, w[1])
                 PROVE  FlowOf(w, o)'
      BY DEF Flows
    <3>1. Nums(sub'[w[1]], o) = Nums(sub[w[1]], o)
      BY <1>9, <2>1, TwoEnds
    <3>2. FlowOf(w, o)
      BY <1>1 DEF Flows
    <3> QED
      BY <1>2, <2>2, <3>1, <3>2 DEF FlowOf
  <2>6. Memories(way)'
    <3>1. \A x \in Nodes, o \in Buses : Nums(sub'[x], o) \subseteq Nums(sub[x], o)
      BY <1>9, NodesAreBuses
    <3>2. UNCHANGED <<log, state, seen, held>>
      BY <1>2, <2>2
    <3> QED
      BY <1>1, <3>1, <3>2 DEF Memories
  <2> QED
    BY <1>10, <1>11, <2>3, <2>4, <2>5, <2>6 DEF MeshInv
<1>13. ASSUME ~(Foreign(n, e) \/ e.id \in ToSet(seen[n]))
       PROVE  MeshInv(way)'
  <2>f. PICK f : f = [e EXCEPT !.origin = n]
    OBVIOUS
  <2>1. SendsOn(way, m, n)
    BY <1>6, <1>13 DEF Foreign, SendsOn
  <2>2. seen' = [seen EXCEPT ![n] = Remember(@, e.id)] /\ SendAll(n, f)
    BY <1>13, <1>e, <2>f DEF Outbound
  <2>3. f \in Copy /\ f.id = e.id /\ f.origin = n /\ f.hops = e.hops /\ m = f.id[1] /\ k = f.id[2]
    BY <1>1, <1>4, <1>m, <2>f DEF Copy
  <2>4. /\ Remember(seen[n], e.id) \in Seq(Ids)
        /\ ToSet(Remember(seen[n], e.id)) \subseteq ToSet(seen[n]) \cup {e.id}
    <3>1. seen[n] \in Seq(Ids)
      BY <1>1 DEF Kinds
    <3> QED
      BY <1>5, <3>1, Remembered
  <2>5. /\ seen' \in [Nodes -> Seq(Ids)]
        /\ \A x \in Nodes : seen'[x] = IF x = n THEN Remember(seen[x], e.id) ELSE seen[x]
    BY <1>1, <2>2, <2>4 DEF Kinds
  <2> DEFINE sent(w) == w[1] = n /\ {w[1], w[2]} \in up
  <2>6. ASSUME NEW w \in Wires
        PROVE  /\ wire'[w] \in Seq(Over(way, w)) /\ wire'[w] \in Seq(Copy) /\ Rising(wire'[w])
               /\ sent(w) => Nums(wire'[w], m) = Nums(wire[w], m) \cup {k}
               /\ \A o \in Buses : ~sent(w) \/ o # m => Nums(wire'[w], o) = Nums(wire[w], o)
    <3>1. wire[w] \in Seq(Over(way, w)) /\ wire[w] \in Seq(Copy) /\ Rising(wire[w])
      BY <1>1 DEF Kinds, Orders
    <3>2. CASE ~sent(w)
      <4>1. wire'[w] = wire[w]
        BY <2>2, <3>2 DEF SendAll
      <4> QED
        BY <3>1, <3>2, <4>1
    <3>3. CASE sent(w)
      <4> DEFINE p == wire[w]
      <4>1. wire'[w] = Append(p, f) /\ w[1] = n
        BY <2>2, <3>3 DEF SendAll
      <4>2. f \in Over(way, w)
        <5>1. /\ <<m, w[2]>> \in DOMAIN way
              /\ way[<<m, w[2]>>] = [way[<<m, n>>] EXCEPT !.origin = n]
              /\ way[<<m, n>>] \in [origin : Buses \cup {Nobody}, hops : 0..MaxHops]
          BY <1>5, <1>6, <2>1, <4>1 DEF OneWay
        <5>2. way[<<m, w[2]>>].origin = n /\ way[<<m, w[2]>>].hops = way[<<m, n>>].hops
          BY <5>1
        <5> QED
          BY <1>6, <2>1, <2>3, <4>1, <5>1, <5>2 DEF Over, Here
      <4>3. Under(Nums(p, m), {k})
        <5>1. FlowOf(w, m)
          BY <1>1, <1>5, <2>1, <4>1 DEF Flows
        <5>2. Under(Nums(p, m), Nums(sub[n], m))
          BY <4>1, <5>1 DEF FlowOf, Flow, Under
        <5> QED
          BY <1>4, <5>2 DEF Under
      <4>4. p \in Seq(Over(way, w)) /\ p \in Seq(Copy) /\ Rising(p)
        BY <3>1
      <4> HIDE DEF p
      <4>5. Append(p, f) \in Seq(Over(way, w)) /\ Append(p, f) \in Seq(Copy)
        BY <2>3, <4>2, <4>4
      <4>6. Rising(Append(p, f))
        BY <2>3, <4>3, <4>4, RisingAppend
      <4>7. /\ Nums(Append(p, f), m) = Nums(p, m) \cup {k}
            /\ \A o \in Buses : o # m => Nums(Append(p, f), o) = Nums(p, o)
        BY <2>3, <4>4, NumsOfAppend
      <4> HIDE DEF sent
      <4> QED
        BY <3>3, <4>1, <4>5, <4>6, <4>7 DEF p
    <3> QED
      BY <3>2, <3>3
  <2>7. Kinds(way)'
    <3>1. wire' = [w \in Wires |-> wire'[w]]
      BY <2>2 DEF SendAll
    <3>2. wire' \in [Wires -> Seq(Copy)]
      BY <2>6, <3>1
    <3>3. \A w \in Wires : wire'[w] \in Seq(Over(way, w))
      BY <2>6
    <3> QED
      BY <1>1, <1>2, <1>7, <1>8, <2>5, <3>2, <3>3 DEF Kinds
  <2>8. Orders'
    <3>1. \A w \in Wires : Rising(wire'[w])
      BY <2>6
    <3> QED
      BY <1>1, <1>2, <1>8, <3>1 DEF Orders
  <2>9. Flows(way)'
    <3> SUFFICES ASSUME NEW o \in Buses, NEW w \in Wires, SendsOn(way, o, w[1])
                 PROVE  FlowOf(w, o)'
      BY DEF Flows
    <3>1. FlowOf(w, o) /\ w[1] \in Buses
      BY <1>1, TwoEnds DEF Flows
    <3>2. CASE w[1] # n \/ o # m
      <4>1. Nums(sub'[w[1]], o) = Nums(sub[w[1]], o) /\ Nums(wire'[w], o) = Nums(wire[w], o)
        BY <1>9, <2>6, <3>1, <3>2
      <4> QED
        BY <1>2, <3>1, <4>1 DEF FlowOf
    <3>3. CASE w[1] = n /\ o = m
      <4> DEFINE A == Nums(log[n], m)
                 S == Nums(sub[n], m)
                 L == Nums(log[w[2]], m)
                 H == Nums(held[w[2]], m)
                 I == Nums(inbox[w[2]], m)
                 W == Nums(wire[w], m)
                 V == Nums(wire'[w], m)
                 on == {n, w[2]} \in up
                 to == state[w[2]]
      <4>1. Flow(A, S, L, H, I, W, "running", to, on) /\ A \in SUBSET Number /\ on \in BOOLEAN
        BY <1>3, <3>1, <3>3, NumsAreNumbers DEF FlowOf
      <4>2. Unbroken(A) /\ k \in S /\ Under({k}, S \ {k})
        BY <1>1, <1>4, <1>5 DEF Paths
      <4>3. V = IF on THEN W \cup {k} ELSE W
        BY <1>5, <2>6, <3>3
      <4>4. Nums(sub'[n], m) = S \ {k}
        BY <1>1, <1>4, <1>7
      <4> HIDE DEF A, S, L, H, I, W, V, on, to
      <4>5. Flow(A, S \ {k}, L, H, I, V, "running", to, on)
        BY <4>1, <4>2, <4>3, FlowSent
      <4> QED
        BY <1>2, <1>3, <3>3, <4>4, <4>5 DEF FlowOf, A, L, H, I, V, on, to
    <3> QED
      BY <3>2, <3>3
  <2>10. Memories(way)'
    <3> SUFFICES ASSUME NEW x \in Nodes, state'[x] # "ended", NEW o \in Buses, NEW j \in Number,
                        <<o, j>> \in ToSet(seen'[x])
                 PROVE  /\ j \in Nums(log'[x], o) \cup Nums(held'[x], o)
                        /\ SendsOn(way, o, x) => j \notin Nums(sub'[x], o)
      BY DEF Memories
    <3>1. CASE x = n /\ <<o, j>> = e.id
      <4>1. o = m /\ j = k
        BY <1>5, <3>1
      <4>2. k \in Nums(log[n], m)
        BY <1>1, <1>4, <1>5 DEF Paths
      <4>3. k \notin Nums(sub'[n], m)
        BY <1>1, <1>4, <1>7
      <4> QED
        BY <1>2, <3>1, <4>1, <4>2, <4>3
    <3>2. CASE <<o, j>> \in ToSet(seen[x])
      <4>1. /\ j \in Nums(log[x], o) \cup Nums(held[x], o)
            /\ SendsOn(way, o, x) => j \notin Nums(sub[x], o)
        BY <1>1, <1>2, <3>2 DEF Memories
      <4>2. Nums(sub'[x], o) \subseteq Nums(sub[x], o)
        BY <1>9, NodesAreBuses
      <4> QED
        BY <1>2, <4>1, <4>2
    <3> QED
      BY <2>4, <2>5, <3>1, <3>2
  <2> QED
    BY <1>10, <1>11, <2>7, <2>8, <2>9, <2>10 DEF MeshInv
<1> QED
  BY <1>12, <1>13

-----------------------------------------------------------------------------
(* All steps.                                                              *)

\* At first nothing is anywhere.
LEMMA InitKeeps ==
    ASSUME NEW way, Init
    PROVE  MeshInv(way)
<1>1. /\ DOMAIN <<>> = {} /\ Len(<<>>) = 0 /\ \A S : <<>> \in Seq(S)
      /\ \A m : Nums(<<>>, m) = {}
  BY NumsOfNone
<1>2. Rising(<<>>) /\ ToSet(<<>>) = {}
  BY <1>1 DEF Rising, ToSet
<1>3. Wires \subseteq Buses \X Buses /\ Nodes \subseteq Buses /\ Bridges \subseteq Buses \X Buses
  BY NodesAreBuses, MeshAssumption DEF Wires
<1>4. /\ \A n \in Buses : log[n] = <<>> /\ sub[n] = <<>> /\ made[n] = <<>>
      /\ \A b \in Bridges : crossing[b] = <<>>
      /\ \A w \in Wires : wire[w] = <<>>
      /\ \A n \in Nodes : inbox[n] = <<>> /\ held[n] = <<>> /\ seen[n] = <<>> /\ state[n] = "new"
  BY DEF Init
<1>5. Kinds(way)
  BY <1>1, <1>4 DEF Init, Kinds, Places
<1>6. Orders
  BY <1>1, <1>2, <1>4 DEF Orders
<1>7. Paths
  <2> SUFFICES ASSUME NEW n \in Buses, NEW m \in Buses
               PROVE  /\ Unbroken(Nums(log[n], m))
                      /\ n = m => Nums(log[n], m) = {k \in Number : k <= Len(made[m])}
                      /\ Nums(sub[n], m) \subseteq Nums(log[n], m)
                      /\ \A b \in Bridges : b[1] = n => Nums(crossing[b], m) \subseteq Nums(log[n], m)
    BY DEF Paths
  <2>1. Nums(log[n], m) = {} /\ Nums(sub[n], m) = {} /\ \A b \in Bridges : Nums(crossing[b], m) = {}
    BY <1>1, <1>4
  <2>2. {k \in Number : k <= Len(made[m])} = {}
    BY <1>1, <1>4 DEF Number
  <2> QED
    BY <2>1, <2>2 DEF Unbroken
<1>8. Flows(way)
  <2> SUFFICES ASSUME NEW m \in Buses, NEW w \in Wires PROVE FlowOf(w, m)
    BY DEF Flows
  <2>1. w[1] \in Buses /\ w[2] \in Nodes /\ w[2] \in Buses
    BY TwoEnds
  <2>2. /\ Nums(log[w[1]], m) = {} /\ Nums(sub[w[1]], m) = {} /\ Nums(log[w[2]], m) = {}
        /\ Nums(held[w[2]], m) = {} /\ Nums(inbox[w[2]], m) = {} /\ Nums(wire[w], m) = {}
    BY <1>1, <1>4, <2>1
  <2> QED
    BY <2>2 DEF FlowOf, Flow, Under, Unbroken
<1>9. Spans(way)
  <2> SUFFICES ASSUME NEW m \in Buses, NEW b \in Bridges PROVE SpanOf(b, m)
    BY DEF Spans
  <2>1. b[1] \in Buses /\ b[2] \in Buses
    BY <1>3
  <2>2. Nums(log[b[1]], m) = {} /\ Nums(crossing[b], m) = {} /\ Nums(log[b[2]], m) = {}
    BY <1>1, <1>4, <2>1
  <2> QED
    BY <2>2 DEF SpanOf, Span, Under
<1>10. Memories(way)
  BY <1>2, <1>4 DEF Memories
<1> QED
  BY <1>5, <1>6, <1>7, <1>8, <1>9, <1>10 DEF MeshInv

\* Every step keeps the invariant.
LEMMA NextKeeps ==
    ASSUME NEW way, OneWay(way), MeshInv(way), [Next]_vars
    PROVE  MeshInv(way)'
<1>1. CASE \E n \in Buses : Local(n)
  BY <1>1, LocalKeeps
<1>2. CASE \E n \in Nodes : Start(n)
  BY <1>2, StartKeeps
<1>3. CASE \E n \in Nodes : Outbound(n)
  BY <1>3, OutboundKeeps
<1>4. CASE \E n \in Nodes : Take(n)
  BY <1>4, TakeKeeps
<1>5. CASE \E n \in Nodes : Inbound(n)
  BY <1>5, InboundKeeps
<1>6. CASE \E n \in Nodes : Stop(n)
  BY <1>6, StopKeeps
<1>7. CASE \E w \in Wires : Read(w)
  BY <1>7, ReadKeeps
<1>8. CASE \E l \in Links : Lose(l)
  BY <1>8, LoseKeeps
<1>9. CASE \E b \in Bridges : Forward(b)
  BY <1>9, ForwardKeeps
<1>10. CASE UNCHANGED vars
  <2>1. UNCHANGED <<log, made, state, sub, seen, wire, inbox, held, up, crossing>>
    BY <1>10 DEF vars
  <2>2. Kinds(way)' /\ Orders' /\ Paths'
    BY <2>1 DEF MeshInv, Kinds, Orders, Paths
  <2>3. Flows(way)' /\ Spans(way)'
    BY <2>1 DEF MeshInv, Flows, FlowOf, Spans, SpanOf
  <2>4. Memories(way)'
    BY <2>1 DEF MeshInv, Memories
  <2> QED
    BY <2>2, <2>3, <2>4 DEF MeshInv
<1> QED
  BY <1>1, <1>2, <1>3, <1>4, <1>5, <1>6, <1>7, <1>8, <1>9, <1>10 DEF Next

\* Where there is one way from a bus to another, what each bus, connection, node and bridge
\* holds of a maker's events fits together, whatever starts, ends, is lost or forgotten.
THEOREM MeshInvariant ==
    ASSUME NEW way, OneWay(way)
    PROVE  Spec => []MeshInv(way)
<1>1. Init => MeshInv(way)
  BY InitKeeps
<1>2. MeshInv(way) /\ [Next]_vars => MeshInv(way)'
  BY NextKeeps
<1> QED
  BY <1>1, <1>2, PTL DEF Spec

-----------------------------------------------------------------------------
(* What a bus hears.                                                       *)

\* A path in order holds nothing twice.
LEMMA RisingIsOnce ==
    ASSUME NEW q \in Seq(Copy), Rising(q), NEW i \in DOMAIN q, NEW j \in DOMAIN q, q[i].id = q[j].id
    PROVE  i = j
<1>1. /\ DOMAIN q = 1..Len(q) /\ Len(q) \in Nat /\ q[i] \in Copy /\ q[j] \in Copy
  OBVIOUS
<1>2. q[i].id[2] \in Nat /\ q[i].id[1] = q[j].id[1] /\ q[i].id[2] = q[j].id[2]
  BY <1>1, IdOf DEF Number
<1>3. ~(i < j) /\ ~(j < i)
  BY <1>2 DEF Rising
<1> QED
  BY <1>1, <1>3

\* A path in order and unbroken holds two of a maker's events, with none of it between
\* them, only if one follows the other.
LEMMA RisingIsNext ==
    ASSUME NEW q \in Seq(Copy), Rising(q), \A m \in Buses : Unbroken(Nums(q, m)),
           NEW i \in DOMAIN q, NEW j \in DOMAIN q, i < j, q[i].id[1] = q[j].id[1],
           \A h \in i + 1..j - 1 : q[h].id[1] # q[i].id[1]
    PROVE  q[j].id[2] = q[i].id[2] + 1
<1> DEFINE m == q[i].id[1]
           x == q[i].id[2]
           y == q[j].id[2]
<1>1. /\ DOMAIN q = 1..Len(q) /\ Len(q) \in Nat /\ q[i] \in Copy /\ q[j] \in Copy
  OBVIOUS
<1>2. m \in Buses /\ x \in Number /\ y \in Number
  BY <1>1, IdOf
<1>3. x < y
  BY DEF Rising
<1> SUFFICES ASSUME x + 1 < y PROVE FALSE
  BY <1>2, <1>3 DEF Number
<1>4. x \in Nums(q, m) /\ y \in Nums(q, m)
  BY <1>2 DEF Nums
<1>5. x + 1 \in Nums(q, m)
  <2>1. Unbroken(Nums(q, m)) /\ x + 1 \in Number /\ x < x + 1
    BY <1>2 DEF Number
  <2> HIDE DEF m, x, y
  <2> QED
    BY <1>4, <2>1 DEF Unbroken
<1>6. PICK h \in DOMAIN q : q[h].id[1] = m /\ q[h].id[2] = x + 1
  BY <1>5 DEF Nums
<1>7. i < h
  <2>1. ~(h < i)
    <3> SUFFICES ASSUME h < i PROVE FALSE
      OBVIOUS
    <3>1. q[h].id[2] < x
      BY <1>6 DEF Rising
    <3> QED
      BY <1>2, <1>6, <3>1 DEF Number
  <2>2. h # i
    BY <1>2, <1>6 DEF Number
  <2> QED
    BY <1>1, <2>1, <2>2
<1>8. h < j
  <2>1. ~(j < h)
    <3> SUFFICES ASSUME j < h PROVE FALSE
      OBVIOUS
    <3>1. y < q[h].id[2]
      BY <1>6 DEF Rising
    <3> QED
      BY <1>2, <1>6, <3>1 DEF Number
  <2>2. h # j
    BY <1>2, <1>6 DEF Number
  <2> QED
    BY <1>1, <2>1, <2>2
<1> QED
  BY <1>1, <1>6, <1>7, <1>8

\* No event comes to a bus twice: not for the memory of its node, which may be as short as
\* one event, but for the marker, the count of bridges and the order of each connection.
THEOREM NothingEchoes ==
    ASSUME NEW way, OneWay(way)
    PROVE  Spec => []NoEcho
<1>1. MeshInv(way) => NoEcho
  <2> SUFFICES ASSUME MeshInv(way), NEW n \in Buses, NEW i \in DOMAIN log[n], NEW j \in DOMAIN log[n],
                      log[n][i].id = log[n][j].id
               PROVE  i = j
    BY DEF NoEcho
  <2> DEFINE q == log[n]
  <2>1. q \in Seq(Copy) /\ Rising(q) /\ i \in DOMAIN q /\ j \in DOMAIN q /\ q[i].id = q[j].id
    BY DEF MeshInv, Kinds, Orders
  <2> HIDE DEF q
  <2> QED
    BY <2>1, RisingIsOnce
<1> QED
  BY <1>1, MeshInvariant, PTL

\* What a bus holds of another's events it holds in the order they were made and without a
\* gap, though the two tasks of a node, its readers and its bridges run as they like, nodes
\* start late and end, and connections are lost with what is under way.
THEOREM HeardInOrder ==
    ASSUME NEW way, OneWay(way)
    PROVE  Spec => []InOrder
<1>1. MeshInv(way) => InOrder
  <2> SUFFICES ASSUME MeshInv(way), NEW n \in Buses, NEW i \in DOMAIN log[n], NEW j \in DOMAIN log[n],
                      i < j, log[n][i].id[1] = log[n][j].id[1],
                      \A h \in i + 1..j - 1 : log[n][h].id[1] # log[n][i].id[1]
               PROVE  log[n][j].id[2] = log[n][i].id[2] + 1
    BY DEF InOrder
  <2> DEFINE q == log[n]
  <2>1. /\ q \in Seq(Copy) /\ Rising(q) /\ \A m \in Buses : Unbroken(Nums(q, m))
        /\ i \in DOMAIN q /\ j \in DOMAIN q /\ i < j /\ q[i].id[1] = q[j].id[1]
        /\ \A h \in i + 1..j - 1 : q[h].id[1] # q[i].id[1]
    BY DEF MeshInv, Kinds, Orders, Paths
  <2> HIDE DEF q
  <2>2. q[j].id[2] = q[i].id[2] + 1
    BY <2>1, RisingIsNext
  <2> QED
    BY <2>2 DEF q
<1> QED
  BY <1>1, MeshInvariant, PTL
===============================================================================
