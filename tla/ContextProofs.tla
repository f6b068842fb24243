---------------------------- MODULE ContextProofs ----------------------------
(***************************************************************************)
(* What holds of the context assembly for every conversation and bound:    *)
(* that nothing of the log is skipped or shown twice, and that a request   *)
(* parts a result from its call only where a user's message divides them.  *)
(***************************************************************************)
EXTENDS ContextAssembly, SequenceTheorems, FiniteSetTheorems, WellFoundedInduction,
        TLAPS

\* A set of naturals with a member has a least one.
LEMMA LeastNatural ==
    ASSUME NEW T \in SUBSET Nat, T # {}
    PROVE  \E x \in T : \A y \in T : x <= y
<1> DEFINE R == OpToRel(<, Nat)
<1>1. PICK x \in T : \A y \in T : ~ (<<y, x>> \in R)
  BY WFMin, NatLessThanWellFounded
<1>2. \A y \in T : ~ (y < x)
  BY <1>1 DEF OpToRel
<1> QED
  BY <1>2

\* A bounded one has a greatest.
LEMMA GreatestNatural ==
    ASSUME NEW n \in Nat, NEW T \in SUBSET (0..n), T # {}
    PROVE  \E x \in T : \A y \in T : y <= x
<1> DEFINE U == {m \in 0..n : n - m \in T}
<1>1. U \in SUBSET Nat /\ \A x \in T : n - x \in U
  OBVIOUS
<1>2. U # {}
  BY <1>1
<1>3. PICK u \in U : \A v \in U : u <= v
  BY <1>1, <1>2, LeastNatural
<1>4. \A y \in T : y <= n - u
  BY <1>1, <1>3
<1> QED
  BY <1>3, <1>4

\* Up to a bound, what holds of zero and of a number's successor holds of all.
LEMMA Induction ==
    ASSUME NEW bound \in Nat, NEW G \in SUBSET Nat, 0 \in G,
           \A n \in G : n < bound => n + 1 \in G
    PROVE  0..bound \subseteq G
<1> SUFFICES ASSUME (0..bound) \ G # {}
             PROVE  FALSE
  OBVIOUS
<1>1. PICK n \in (0..bound) \ G : \A m \in (0..bound) \ G : n <= m
  <2> DEFINE T == (0..bound) \ G
  <2>1. T \subseteq Nat /\ T # {}
    OBVIOUS
  <2> HIDE DEF T
  <2>2. \E n \in T : \A m \in T : n <= m
    BY <2>1, LeastNatural
  <2> QED
    BY <2>2 DEF T
<1>2. n # 0 /\ n - 1 \in 0..bound /\ n - 1 < bound /\ n - 1 < n
  BY <1>1
<1>3. n - 1 \in G
  BY <1>1, <1>2
<1>4. (n - 1) + 1 = n
  OBVIOUS
<1> QED
  BY <1>2, <1>3, <1>4

\* A loop from `base` over `bound` rounds, each taking what the one before has left.
Loops(f, bound, base, round) ==
    /\ f[0] = base
    /\ \A n \in 1..bound : f[n] = round[<<f[n - 1], n>>]

\* A loop that stays in a set has a result after every round.
LEMMA LoopsExist ==
    ASSUME NEW S, NEW base \in S, NEW bound \in Nat, NEW round \in [S \X (1..bound) -> S]
    PROVE  \E f \in [0..bound -> S] : Loops(f, bound, base, round)
<1> DEFINE G == {k \in Nat : k <= bound => \E f \in [0..k -> S] : Loops(f, k, base, round)}
<1>1. 0 \in G
  <2>1. [n \in 0..0 |-> base] \in [0..0 -> S] /\ [n \in 0..0 |-> base][0] = base
    OBVIOUS
  <2>2. Loops([n \in 0..0 |-> base], 0, base, round)
    BY <2>1 DEF Loops
  <2> QED
    BY <2>1, <2>2
<1>2. ASSUME NEW k \in G, k < bound
      PROVE  k + 1 \in G
  <2>1. PICK f \in [0..k -> S] : Loops(f, k, base, round)
    BY <1>2
  <2>2. k + 1 \in 1..bound /\ f[k] \in S
    BY <1>2
  <2>3. PICK x \in S : x = round[<<f[k], k + 1>>]
    BY <2>2
  <2>4. PICK g : g = [n \in 0..(k + 1) |-> IF n = k + 1 THEN x ELSE f[n]]
    OBVIOUS
  <2>5. /\ g \in [0..(k + 1) -> S]
        /\ g[k + 1] = x
        /\ \A n \in 0..k : g[n] = f[n]
    <3>1. \A n \in 0..(k + 1) : n # k + 1 => n \in 0..k
      BY <1>2
    <3>2. \A n \in 0..k : n # k + 1 /\ n \in 0..(k + 1)
      BY <1>2
    <3>3. k + 1 \in 0..(k + 1)
      BY <1>2
    <3> QED
      BY <2>4, <3>1, <3>2, <3>3
  <2>6. g[0] = base
    BY <1>2, <2>1, <2>5 DEF Loops
  <2>7. ASSUME NEW n \in 1..(k + 1)
        PROVE  g[n] = round[<<g[n - 1], n>>]
    <3>1. n - 1 \in 0..k
      BY <1>2
    <3>2. g[n - 1] = f[n - 1]
      BY <3>1, <2>5
    <3>3. CASE n = k + 1
      <4>1. n - 1 = k
        BY <1>2, <3>3
      <4> QED
        BY <2>3, <2>5, <3>2, <3>3, <4>1
    <3>4. CASE n # k + 1
      <4>1. n \in 1..k /\ n \in 0..k
        BY <1>2, <3>4
      <4> QED
        BY <2>1, <2>5, <3>2, <4>1 DEF Loops
    <3> QED
      BY <3>3, <3>4
  <2> QED
    BY <1>2, <2>5, <2>6, <2>7 DEF Loops
<1>3. 0..bound \subseteq G
  <2> HIDE DEF G
  <2>1. G \in SUBSET Nat
    BY DEF G
  <2> QED
    BY <1>1, <1>2, <2>1, Induction
<1> QED
  BY <1>3

-----------------------------------------------------------------------------
(* Flattening.                                                             *)

\* The function FlattenSeq is defined with.
Flattening(f, s) ==
    f = [i \in 1..Len(s) |-> IF i = 1 THEN s[i] ELSE f[i - 1] \o s[i]]

\* A sequence of sequences flattens, one after the other.
LEMMA FlattenIs ==
    ASSUME NEW S, NEW s \in Seq(Seq(S))
    PROVE  \E f \in [0..Len(s) -> Seq(S)] :
              /\ f[0] = <<>>
              /\ \A n \in 1..Len(s) : f[n] = f[n - 1] \o s[n]
              /\ FlattenSeq(s) = f[Len(s)]
<1> DEFINE L == Len(s)
           round == [x \in Seq(S) \X (1..L) |-> x[1] \o s[x[2]]]
           k == CHOOSE f : Flattening(f, s)
<1>1. L \in Nat /\ <<>> \in Seq(S) /\ \A n \in 1..L : s[n] \in Seq(S)
  OBVIOUS
<1>2. round \in [Seq(S) \X (1..L) -> Seq(S)]
  BY <1>1
<1>3. PICK f \in [0..L -> Seq(S)] : Loops(f, L, <<>>, round)
  <2> HIDE DEF round, L
  <2> QED
    BY <1>1, <1>2, LoopsExist
<1>4. f[0] = <<>>
  BY <1>3 DEF Loops
<1>5. ASSUME NEW n \in 1..L
      PROVE  f[n - 1] \in Seq(S) /\ f[n] = f[n - 1] \o s[n]
  <2>1. n - 1 \in 0..L
    BY <1>1
  <2>2. PICK q \in Seq(S) : q = f[n - 1]
    BY <1>3, <2>1
  <2>3. f[n] = round[<<q, n>>]
    BY <1>3, <2>2 DEF Loops
  <2>4. <<q, n>> \in Seq(S) \X (1..L) /\ <<q, n>>[1] = q /\ <<q, n>>[2] = n
    BY <2>2
  <2> QED
    BY <2>2, <2>3, <2>4
<1> HIDE DEF round
<1>6. Flattening(k, s)
  <2>1. PICK g : g = [i \in 1..L |-> f[i]]
    OBVIOUS
  <2>2. ASSUME NEW i \in 1..L
        PROVE  g[i] = IF i = 1 THEN s[i] ELSE g[i - 1] \o s[i]
    <3>1. CASE i = 1
      <4>1. i - 1 = 0 /\ f[i] = <<>> \o s[i]
        <5>1. i - 1 = 0
          BY <3>1
        <5> QED
          BY <1>4, <1>5, <5>1
      <4>2. s[i] \in Seq(S)
        BY <1>1
      <4> QED
        BY <2>1, <3>1, <4>1, <4>2
    <3>2. CASE i # 1
      <4>1. i - 1 \in 1..L
        BY <1>1, <3>2
      <4> QED
        BY <1>5, <2>1, <3>2, <4>1
    <3> QED
      BY <3>1, <3>2
  <2>3. g = [i \in 1..L |-> g[i]]
    BY <2>1
  <2>4. Flattening(g, s)
    BY <2>2, <2>3 DEF Flattening
  <2> QED
    BY <2>4
<1>7. L # 0 => FlattenSeq(s) = k[L]
  BY DEF FlattenSeq, Flattening
<1> HIDE DEF k
<1>8. \A n \in 1..L : k[n] = IF n = 1 THEN s[n] ELSE k[n - 1] \o s[n]
  BY <1>6 DEF Flattening
<1>9. L # 0 => k[L] = f[L]
  <2> DEFINE G == {n \in Nat : n \in 1..L => k[n] = f[n]}
  <2>1. 0 \in G
    OBVIOUS
  <2>2. ASSUME NEW n \in G, n < L
        PROVE  n + 1 \in G
    <3>1. n \in Nat /\ n + 1 \in 1..L /\ (n + 1) - 1 = n /\ n + 1 \in Nat
      BY <1>1, <2>2
    <3>2. f[n + 1] = f[n] \o s[n + 1]
      BY <1>5, <3>1
    <3>3. CASE n = 0
      <4>1. f[n + 1] = <<>> \o s[n + 1] /\ s[n + 1] \in Seq(S)
        BY <1>1, <1>4, <3>1, <3>2, <3>3
      <4>2. k[n + 1] = s[n + 1]
        BY <1>8, <3>1, <3>3
      <4> QED
        BY <3>1, <4>1, <4>2
    <3>4. CASE n # 0
      <4>1. n \in 1..L /\ n + 1 # 1
        BY <1>1, <2>2, <3>1, <3>4
      <4>2. k[n] = f[n]
        BY <2>2, <4>1
      <4>3. k[n + 1] = k[n] \o s[n + 1]
        BY <1>8, <3>1, <4>1
      <4> QED
        BY <3>1, <3>2, <4>2, <4>3
    <3> QED
      BY <3>3, <3>4
  <2>3. 0..L \subseteq G
    <3>1. G \in SUBSET Nat
      OBVIOUS
    <3> HIDE DEF G
    <3> QED
      BY <1>1, <2>1, <2>2, <3>1, Induction
  <2> QED
    BY <1>1, <2>3
<1>10. L = 0 => FlattenSeq(s) = f[L]
  <2>1. L = 0 => s = <<>>
    BY EmptySeq
  <2> QED
    BY <1>4, <2>1 DEF FlattenSeq
<1> QED
  BY <1>3, <1>4, <1>5, <1>7, <1>9, <1>10

\* Two sequences of sequences flatten one after the other.
LEMMA FlattenJoin ==
    ASSUME NEW S, NEW s \in Seq(Seq(S)), NEW t \in Seq(Seq(S))
    PROVE  /\ FlattenSeq(s) \in Seq(S) /\ FlattenSeq(t) \in Seq(S)
           /\ FlattenSeq(s \o t) = FlattenSeq(s) \o FlattenSeq(t)
<1>1. /\ s \o t \in Seq(Seq(S)) /\ Len(s \o t) = Len(s) + Len(t)
      /\ Len(s) \in Nat /\ Len(t) \in Nat
      /\ \A n \in 1..Len(s) : (s \o t)[n] = s[n]
      /\ \A n \in 1..Len(t) : (s \o t)[Len(s) + n] = t[n]
      /\ \A n \in 1..Len(s) : s[n] \in Seq(S)
      /\ \A n \in 1..Len(t) : t[n] \in Seq(S)
  OBVIOUS
<1>2. PICK f \in [0..Len(s \o t) -> Seq(S)] :
              /\ f[0] = <<>>
              /\ \A n \in 1..Len(s \o t) : f[n] = f[n - 1] \o (s \o t)[n]
              /\ FlattenSeq(s \o t) = f[Len(s \o t)]
  BY <1>1, FlattenIs
<1>3. PICK g \in [0..Len(s) -> Seq(S)] :
              /\ g[0] = <<>>
              /\ \A n \in 1..Len(s) : g[n] = g[n - 1] \o s[n]
              /\ FlattenSeq(s) = g[Len(s)]
  BY FlattenIs
<1>4. PICK h \in [0..Len(t) -> Seq(S)] :
              /\ h[0] = <<>>
              /\ \A n \in 1..Len(t) : h[n] = h[n - 1] \o t[n]
              /\ FlattenSeq(t) = h[Len(t)]
  BY FlattenIs
<1> DEFINE a == g[Len(s)]
<1>5. /\ FlattenSeq(s) \in Seq(S) /\ FlattenSeq(t) \in Seq(S)
      /\ a \in Seq(S) /\ Len(s) \in 0..Len(s) /\ Len(t) \in 0..Len(t)
      /\ \A n \in 0..Len(t) : h[n] \in Seq(S)
  <2>1. Len(s) \in 0..Len(s) /\ Len(t) \in 0..Len(t)
    BY <1>1
  <2>2. g[Len(s)] \in Seq(S) /\ \A n \in 0..Len(t) : h[n] \in Seq(S)
    BY <2>1, Zenon
  <2> QED
    BY <1>3, <1>4, <2>1, <2>2, Zenon
<1>6. \A n \in 0..Len(s) : f[n] = g[n]
  <2> DEFINE G == {n \in Nat : n <= Len(s) => f[n] = g[n]}
  <2>1. 0 \in G
    BY <1>2, <1>3
  <2>2. ASSUME NEW n \in G, n < Len(s)
        PROVE  n + 1 \in G
    <3>1. /\ n \in Nat /\ n + 1 \in 1..Len(s) /\ n + 1 \in 1..Len(s \o t)
          /\ (n + 1) - 1 = n /\ n + 1 \in Nat /\ n <= Len(s)
      BY <1>1, <2>2
    <3>2. f[n] = g[n]
      BY <2>2, <3>1
    <3>3. f[n + 1] = f[n] \o s[n + 1] /\ g[n + 1] = g[n] \o s[n + 1]
      BY <1>1, <1>2, <1>3, <3>1
    <3> QED
      BY <3>1, <3>2, <3>3
  <2>3. G \in SUBSET Nat
    OBVIOUS
  <2> HIDE DEF G
  <2>4. 0..Len(s) \subseteq G
    BY <1>1, <2>1, <2>2, <2>3, Induction
  <2>5. \A n \in 0..Len(s) : n \in G
    BY <2>4
  <2> QED
    BY <1>1, <2>5 DEF G
<1>7. f[Len(s) + Len(t)] = a \o h[Len(t)]
  <2> DEFINE G == {n \in Nat : n <= Len(t) => f[Len(s) + n] = a \o h[n]}
  <2>1. 0 \in G
    <3>1. Len(s) + 0 = Len(s)
      BY <1>1
    <3>2. a \o <<>> = a
      BY <1>5, ConcatEmptySeq
    <3>3. f[Len(s)] = a /\ h[0] = <<>>
      BY <1>4, <1>5, <1>6
    <3> HIDE DEF a
    <3> QED
      BY <3>1, <3>2, <3>3
  <2>2. ASSUME NEW n \in G, n < Len(t)
        PROVE  n + 1 \in G
    <3>1. /\ n \in Nat /\ n + 1 \in 1..Len(t) /\ Len(s) + (n + 1) \in 1..Len(s \o t)
          /\ (n + 1) - 1 = n /\ n + 1 \in Nat /\ n <= Len(t)
          /\ (Len(s) + (n + 1)) - 1 = Len(s) + n /\ n \in 0..Len(t) /\ Len(s) \in 0..Len(s)
      BY <1>1, <2>2
    <3>2. f[Len(s) + n] = a \o h[n]
      BY <2>2, <3>1
    <3>3. f[Len(s) + (n + 1)] = f[Len(s) + n] \o t[n + 1]
      BY <1>1, <1>2, <3>1
    <3>4. h[n + 1] = h[n] \o t[n + 1]
      BY <1>4, <3>1
    <3>5. a \in Seq(S) /\ h[n] \in Seq(S) /\ t[n + 1] \in Seq(S)
      BY <1>1, <1>5, <3>1
    <3> HIDE DEF a
    <3>6. (a \o h[n]) \o t[n + 1] = a \o (h[n] \o t[n + 1])
      <4>1. PICK b \in Seq(S) : b = h[n]
        BY <3>5
      <4>2. PICK c \in Seq(S) : c = t[n + 1]
        BY <3>5
      <4>3. PICK x \in Seq(S) : x = a
        BY <3>5
      <4>4. (x \o b) \o c = x \o (b \o c)
        BY ConcatAssociative, SMTT(30)
      <4> QED
        BY <4>1, <4>2, <4>3, <4>4
    <3> QED
      BY <3>1, <3>2, <3>3, <3>4, <3>6
  <2>3. G \in SUBSET Nat
    OBVIOUS
  <2> HIDE DEF G
  <2>4. 0..Len(t) \subseteq G
    BY <1>1, <2>1, <2>2, <2>3, Induction
  <2>5. Len(t) \in G /\ Len(t) <= Len(t)
    BY <1>1, <2>4
  <2> QED
    BY <2>5 DEF G
<1>8. FlattenSeq(s \o t) = FlattenSeq(s) \o FlattenSeq(t)
  <2>1. FlattenSeq(s) = a /\ FlattenSeq(t) = h[Len(t)]
    BY <1>3, <1>4
  <2>2. FlattenSeq(s \o t) = f[Len(s) + Len(t)]
    BY <1>1, <1>2
  <2> HIDE DEF a
  <2> QED
    BY <1>7, <2>1, <2>2
<1> QED
  BY <1>5, <1>8

\* A flattened sequence has the elements of its parts.
LEMMA FlattenElements ==
    ASSUME NEW S, NEW s \in Seq(Seq(S))
    PROVE  Range(FlattenSeq(s)) = UNION {Range(s[i]) : i \in DOMAIN s}
<1>1. Len(s) \in Nat /\ DOMAIN s = 1..Len(s) /\ \A n \in 1..Len(s) : s[n] \in Seq(S)
  OBVIOUS
<1>2. PICK f \in [0..Len(s) -> Seq(S)] :
              /\ f[0] = <<>>
              /\ \A n \in 1..Len(s) : f[n] = f[n - 1] \o s[n]
              /\ FlattenSeq(s) = f[Len(s)]
  BY FlattenIs
<1> DEFINE Of(n) == UNION {Range(s[i]) : i \in 1..n}
           G == {n \in Nat : n <= Len(s) => Range(f[n]) = Of(n)}
<1>3. 0 \in G
  <2>1. Range(<<>>) = {} /\ Of(0) = {}
    BY DEF Range
  <2> QED
    BY <1>2, <2>1
<1>4. ASSUME NEW n \in G, n < Len(s)
      PROVE  n + 1 \in G
  <2>1. /\ n \in Nat /\ n + 1 \in 1..Len(s) /\ n \in 0..Len(s)
        /\ (n + 1) - 1 = n /\ n + 1 \in Nat /\ n <= Len(s)
        /\ 1..(n + 1) = (1..n) \cup {n + 1}
    BY <1>1, <1>4
  <2>2. f[n] \in Seq(S) /\ s[n + 1] \in Seq(S) /\ f[n + 1] = f[n] \o s[n + 1]
    BY <1>1, <1>2, <2>1
  <2>3. Range(f[n + 1]) = Range(f[n]) \cup Range(s[n + 1])
    BY <2>2, RangeConcatenation
  <2>4. Of(n + 1) = Of(n) \cup Range(s[n + 1])
    BY <2>1
  <2>5. Range(f[n]) = Of(n)
    BY <1>4, <2>1
  <2> HIDE DEF Of
  <2> QED
    BY <2>1, <2>3, <2>4, <2>5
<1>5. G \in SUBSET Nat
  OBVIOUS
<1> HIDE DEF G
<1>6. 0..Len(s) \subseteq G
  BY <1>1, <1>3, <1>4, <1>5, Induction
<1>7. Range(f[Len(s)]) = Of(Len(s))
  BY <1>1, <1>6 DEF G
<1> QED
  BY <1>1, <1>2, <1>7

-----------------------------------------------------------------------------
(* Cutting.                                                                *)

\* The least of a set of naturals is a member of it.
LEMMA MinOf ==
    ASSUME NEW T \in SUBSET Nat, T # {}
    PROVE  Min(T) \in T
BY LeastNatural DEF Min

\* The greatest of a set of naturals with a bound is a member of it.
LEMMA MaxOf ==
    ASSUME NEW n \in Nat, NEW T \in SUBSET (0..n), T # {}
    PROVE  Max(T) \in T
<1>1. \E x \in T : \A y \in T : x >= y
  BY GreatestNatural
<1> QED
  BY <1>1 DEF Max

\* Wherever the budget runs out, choose_cutoff folds nothing twice, leaves the
\* newest message out, and if it folds anything what it leaves does not open on
\* a tool result, so no result loses the message before it to the summary.
THEOREM CutIsClean ==
    ASSUME NEW ms \in Seq(Message), NEW already \in Nat,
           Ceiling(ms) > already, NEW raw \in already..Ceiling(ms)
    PROVE  LET cut == ChooseCutoff(ms, already, raw)
           IN  /\ cut \in already..Ceiling(ms)
               /\ cut # already => StartsClean(ms, cut)
<1> DEFINE cut == ChooseCutoff(ms, already, raw)
           tighter == raw..Ceiling(ms)
           looser  == already..raw
           turnsAfter  == {i \in tighter : TurnStart(ms, i)}
           turnsBefore == {i \in looser : i > already /\ TurnStart(ms, i)}
           cleanAfter  == {i \in tighter : StartsClean(ms, i)}
           cleanBefore == {i \in looser : StartsClean(ms, i)}
<1>1. Ceiling(ms) \in Nat /\ raw \in Nat
  <2>1. Max({KeepMessages, 1}) \in Nat
    <3>1. KeepMessages \in Nat /\ KeepMessages + 1 \in Nat
      BY BoundsAssumption
    <3>2. {KeepMessages, 1} \in SUBSET (0..(KeepMessages + 1))
      BY <3>1
    <3>3. Max({KeepMessages, 1}) \in {KeepMessages, 1}
      BY <3>1, <3>2, MaxOf, Zenon
    <3> QED
      BY <3>1, <3>3
  <2>2. Ceiling(ms) \in Int
    BY <2>1 DEF Ceiling
  <2> QED
    BY <2>2
<1>2. /\ turnsAfter \in SUBSET Nat /\ cleanAfter \in SUBSET Nat
      /\ turnsBefore \in SUBSET (0..raw) /\ cleanBefore \in SUBSET (0..raw)
  BY <1>1
<1>3. \A i \in Nat : TurnStart(ms, i) => StartsClean(ms, i)
  BY DEF TurnStart, StartsClean
<1> HIDE DEF turnsAfter, turnsBefore, cleanAfter, cleanBefore
<1>4. CASE turnsAfter # {}
  <2>1. cut \in turnsAfter
    BY <1>2, <1>4, MinOf
       DEF ChooseCutoff, turnsAfter, turnsBefore, cleanAfter, cleanBefore
  <2> QED
    BY <1>1, <1>3, <2>1 DEF turnsAfter
<1>5. CASE turnsAfter = {} /\ turnsBefore # {}
  <2>1. cut \in turnsBefore
    BY <1>1, <1>2, <1>5, MaxOf
       DEF ChooseCutoff, turnsAfter, turnsBefore, cleanAfter, cleanBefore
  <2> QED
    BY <1>1, <1>3, <2>1 DEF turnsBefore
<1>6. CASE turnsAfter \cup turnsBefore = {} /\ cleanAfter # {}
  <2>1. cut \in cleanAfter
    BY <1>2, <1>6, MinOf
       DEF ChooseCutoff, turnsAfter, turnsBefore, cleanAfter, cleanBefore
  <2> QED
    BY <1>1, <2>1 DEF cleanAfter
<1>7. CASE turnsAfter \cup turnsBefore \cup cleanAfter = {} /\ cleanBefore # {}
  <2>1. cut \in cleanBefore
    BY <1>1, <1>2, <1>7, MaxOf
       DEF ChooseCutoff, turnsAfter, turnsBefore, cleanAfter, cleanBefore
  <2> QED
    BY <1>1, <2>1 DEF cleanBefore
<1>8. CASE turnsAfter \cup turnsBefore \cup cleanAfter \cup cleanBefore = {}
  <2>1. cut = already
    BY <1>8 DEF ChooseCutoff, turnsAfter, turnsBefore, cleanAfter, cleanBefore
  <2> QED
    BY <1>1, <2>1
<1> QED
  BY <1>4, <1>5, <1>6, <1>7, <1>8

-----------------------------------------------------------------------------
(* A sequence for each element, one after the other.                       *)

Each(F, s) == FlattenSeq([i \in DOMAIN s |-> F[s[i]]])

\* F has a sequence over T for each member of S.
Lists(F, S, T) == F \in [S -> Seq(T)]

\* What a function makes of the elements of a sequence is a sequence.
LEMMA EachMaps ==
    ASSUME NEW S, NEW T, NEW F \in [S -> T], NEW s \in Seq(S)
    PROVE  /\ [i \in DOMAIN s |-> F[s[i]]] \in Seq(T)
           /\ Len([i \in DOMAIN s |-> F[s[i]]]) = Len(s)
<1>1. DOMAIN s = 1..Len(s) /\ Len(s) \in Nat /\ \A i \in DOMAIN s : s[i] \in S
  OBVIOUS
<1>2. \A i \in DOMAIN s : F[s[i]] \in T
  BY <1>1
<1> DEFINE m == [i \in 1..Len(s) |-> F[s[i]]]
<1>3. m \in [1..Len(s) -> T]
  BY <1>1, <1>2
<1> HIDE DEF m
<1>4. m \in Seq(T) /\ DOMAIN m = 1..Len(s)
  BY <1>1, <1>3
<1>5. Len(m) = Len(s)
  BY <1>1, <1>4
<1> QED
  BY <1>1, <1>4, <1>5 DEF m

\* The sequences of all elements, one after the other, are a sequence of their type.
LEMMA EachType ==
    ASSUME NEW S, NEW T, NEW F, Lists(F, S, T), NEW s \in Seq(S)
    PROVE  Each(F, s) \in Seq(T)
<1>1. [i \in DOMAIN s |-> F[s[i]]] \in Seq(Seq(T))
  BY EachMaps DEF Lists
<1> QED
  BY <1>1, FlattenJoin DEF Each

\* Two sequences are mapped one after the other.
LEMMA EachJoins ==
    ASSUME NEW S, NEW T, NEW F, Lists(F, S, T), NEW s \in Seq(S), NEW t \in Seq(S)
    PROVE  Each(F, s \o t) = Each(F, s) \o Each(F, t)
<1> DEFINE a == [i \in DOMAIN s |-> F[s[i]]]
           b == [i \in DOMAIN t |-> F[t[i]]]
           c == [i \in DOMAIN (s \o t) |-> F[(s \o t)[i]]]
<1>1. /\ s \o t \in Seq(S) /\ Len(s \o t) = Len(s) + Len(t)
      /\ Len(s) \in Nat /\ Len(t) \in Nat
      /\ DOMAIN s = 1..Len(s) /\ DOMAIN t = 1..Len(t)
      /\ DOMAIN (s \o t) = 1..(Len(s) + Len(t))
      /\ \A i \in 1..(Len(s) + Len(t)) :
            (s \o t)[i] = IF i <= Len(s) THEN s[i] ELSE t[i - Len(s)]
  OBVIOUS
<1>2. /\ a \in Seq(Seq(T)) /\ Len(a) = Len(s)
      /\ b \in Seq(Seq(T)) /\ Len(b) = Len(t)
      /\ c \in Seq(Seq(T)) /\ Len(c) = Len(s \o t)
  BY <1>1, EachMaps DEF Lists
<1>3. ASSUME NEW i \in 1..(Len(s) + Len(t))
      PROVE  c[i] = IF i <= Len(s) THEN a[i] ELSE b[i - Len(s)]
  <2>1. CASE i <= Len(s)
    <3>1. i \in DOMAIN s /\ i \in DOMAIN (s \o t) /\ (s \o t)[i] = s[i]
      BY <1>1, <2>1
    <3> QED
      BY <2>1, <3>1
  <2>2. CASE ~(i <= Len(s))
    <3>1. i - Len(s) \in DOMAIN t /\ i \in DOMAIN (s \o t) /\ (s \o t)[i] = t[i - Len(s)]
      BY <1>1, <2>2
    <3> QED
      BY <2>2, <3>1
  <2> QED
    BY <2>1, <2>2
<1> HIDE DEF a, b, c
<1>4. /\ a \o b \in Seq(Seq(T)) /\ Len(a \o b) = Len(s) + Len(t)
      /\ \A i \in 1..(Len(s) + Len(t)) :
            (a \o b)[i] = IF i <= Len(s) THEN a[i] ELSE b[i - Len(s)]
  <2>1. PICK x \in Seq(Seq(T)) : x = a
    BY <1>2
  <2>2. PICK y \in Seq(Seq(T)) : y = b
    BY <1>2
  <2>3. /\ x \o y \in Seq(Seq(T)) /\ Len(x \o y) = Len(x) + Len(y)
        /\ \A i \in 1..(Len(x) + Len(y)) :
              (x \o y)[i] = IF i <= Len(x) THEN x[i] ELSE y[i - Len(x)]
    BY ConcatProperties
  <2> QED
    BY <1>2, <2>1, <2>2, <2>3
<1>5. c = a \o b
  <2>1. Len(c) = Len(a \o b) /\ \A i \in 1..Len(c) : c[i] = (a \o b)[i]
    BY <1>1, <1>2, <1>3, <1>4
  <2> QED
    BY <1>2, <1>4, <2>1, SeqEqual
<1>6. FlattenSeq(a \o b) = FlattenSeq(a) \o FlattenSeq(b)
  BY <1>2, FlattenJoin
<1> QED
  BY <1>5, <1>6 DEF Each, a, b, c

\* All that is made of some element is there, and nothing else.
LEMMA EachElements ==
    ASSUME NEW S, NEW T, NEW F, Lists(F, S, T), NEW s \in Seq(S)
    PROVE  Range(Each(F, s)) = UNION {Range(F[x]) : x \in Range(s)}
<1> DEFINE a == [i \in DOMAIN s |-> F[s[i]]]
<1>1. a \in Seq(Seq(T)) /\ DOMAIN a = DOMAIN s
  BY EachMaps DEF Lists
<1>2. Range(FlattenSeq(a)) = UNION {Range(a[i]) : i \in DOMAIN a}
  <2> HIDE DEF a
  <2> QED
    BY <1>1, FlattenElements
<1>3. {Range(a[i]) : i \in DOMAIN a} = {Range(F[x]) : x \in Range(s)}
  <2>1. \A i \in DOMAIN s : a[i] = F[s[i]] /\ s[i] \in Range(s)
    BY DEF Range
  <2>2. \A x \in Range(s) : \E i \in DOMAIN s : x = s[i]
    BY DEF Range
  <2> HIDE DEF a
  <2> QED
    BY <1>1, <2>1, <2>2
<1> QED
  BY <1>2, <1>3 DEF Each

\* What is made of each element is all that counts.
LEMMA EachSame ==
    ASSUME NEW F, NEW G, NEW s, \A x \in Range(s) : F[x] = G[x]
    PROVE  Each(F, s) = Each(G, s)
<1>1. \A i \in DOMAIN s : F[s[i]] = G[s[i]]
  BY DEF Range
<1>2. [i \in DOMAIN s |-> F[s[i]]] = [i \in DOMAIN s |-> G[s[i]]]
  BY <1>1
<1> QED
  BY <1>2 DEF Each

-----------------------------------------------------------------------------
(* Rendering.                                                              *)

Summary == [count : Nat, folded : Seq(Message)]

Event ==
    [kind : MessageKinds \cup {"system.rollback"}, id : 1..MaxEvents]
      \cup [kind : {"assistant.message"}, id : 1..MaxEvents, calls : Seq(Call)]
      \cup [kind : {"tool.result"}, id : 1..MaxEvents, call : Call, image : BOOLEAN]
      \cup [kind : {"agent.context.summarized"}, id : 1..MaxEvents, summary : Summary]

Asks(e) == e.kind = "assistant.message"
Answers(e) == e.kind = "tool.result"
Sums(e) == e.kind = "agent.context.summarized"

Asked(events) == UNION {Range(e.calls) : e \in {x \in Range(events) : Asks(x)}}
Answered(events) == {e.call : e \in {x \in Range(events) : Answers(x)}}

Asking(ms) == UNION {Range(m.calls) : m \in Range(ms)}

RepairWith(ms, answered) == Each([m \in Message |-> Patched(m, answered)], ms)

\* What is made up is messages.
LEMMA MadeUpType ==
    ASSUME NEW calls \in Seq(Call), NEW answered
    PROVE  MadeUp(calls, answered) \in Seq(Message)
<1> DEFINE one == [k \in DOMAIN calls |->
                     IF calls[k] \in answered THEN <<>> ELSE <<ToolMessage(0, calls[k])>>]
<1>1. \A c \in Call : ToolMessage(0, c) \in Message
  BY BoundsAssumption DEF ToolMessage, Message
<1>2. \A c \in Call : <<ToolMessage(0, c)>> \in Seq(Message)
  BY <1>1
<1>3. /\ \A k \in 1..Len(calls) : calls[k] \in Call
      /\ DOMAIN calls = 1..Len(calls) /\ Len(calls) \in Nat
  OBVIOUS
<1>4. one \in [1..Len(calls) -> Seq(Message)]
  BY <1>2, <1>3
<1> HIDE DEF one
<1>5. one \in Seq(Seq(Message))
  BY <1>3, <1>4
<1>6. FlattenSeq(one) \in Seq(Message)
  BY <1>5, FlattenJoin
<1> QED
  BY <1>6 DEF MadeUp, one

\* A message with what is made up for it is messages.
LEMMA PatchedType ==
    ASSUME NEW m \in Message, NEW answered
    PROVE  Patched(m, answered) \in Seq(Message)
<1>1. m.calls \in Seq(Call)
  BY DEF Message
<1>2. MadeUp(m.calls, answered) \in Seq(Message)
  BY <1>1, MadeUpType
<1>3. <<m>> \in Seq(Message)
  OBVIOUS
<1> QED
  BY <1>2, <1>3, ConcatProperties DEF Patched

\* The same, as a function.
LEMMA PatchesType ==
    ASSUME NEW answered
    PROVE  Lists([m \in Message |-> Patched(m, answered)], Message, Message)
BY PatchedType DEF Lists

\* A repair goes by the results there are in the conversation itself.
LEMMA RepairIs ==
    ASSUME NEW ms \in Seq(Message)
    PROVE  Repair(ms) = RepairWith(ms, AnsweredIn(ms))
<1> DEFINE F == [m \in Message |-> Patched(m, AnsweredIn(ms))]
<1>1. \A i \in DOMAIN ms : F[ms[i]] = Patched(ms[i], AnsweredIn(ms))
  OBVIOUS
<1> QED
  BY <1>1 DEF Repair, RepairWith, Each

\* A conversation is repaired message by message.
LEMMA RepairWithJoins ==
    ASSUME NEW s \in Seq(Message), NEW t \in Seq(Message), NEW answered
    PROVE  RepairWith(s \o t, answered) = RepairWith(s, answered) \o RepairWith(t, answered)
<1> DEFINE F == [m \in Message |-> Patched(m, answered)]
<1>1. Lists(F, Message, Message)
  BY PatchesType
<1> HIDE DEF F
<1>2. Each(F, s \o t) = Each(F, s) \o Each(F, t)
  BY <1>1, EachJoins
<1> QED
  BY <1>2 DEF RepairWith, F

\* Which results there are matters for the calls there are.
LEMMA RepairWithSame ==
    ASSUME NEW ms \in Seq(Message), NEW a, NEW b,
           a \cap Asking(ms) = b \cap Asking(ms)
    PROVE  RepairWith(ms, a) = RepairWith(ms, b)
<1> DEFINE F == [m \in Message |-> Patched(m, a)]
           G == [m \in Message |-> Patched(m, b)]
<1>1. ASSUME NEW m \in Range(ms)
      PROVE  F[m] = G[m]
  <2>1. m \in Message
    BY RangeOfSeq
  <2>2. m.calls \in Seq(Call) /\ Range(m.calls) \subseteq Asking(ms)
    BY <2>1 DEF Message, Asking
  <2>3. \A k \in DOMAIN m.calls : m.calls[k] \in a <=> m.calls[k] \in b
    BY <2>2 DEF Range
  <2>4. MadeUp(m.calls, a) = MadeUp(m.calls, b)
    <3>1. [k \in DOMAIN m.calls |->
             IF m.calls[k] \in a THEN <<>> ELSE <<ToolMessage(0, m.calls[k])>>]
          = [k \in DOMAIN m.calls |->
             IF m.calls[k] \in b THEN <<>> ELSE <<ToolMessage(0, m.calls[k])>>]
      BY <2>3
    <3> QED
      BY <3>1 DEF MadeUp
  <2> QED
    BY <2>1, <2>4 DEF Patched
<1> HIDE DEF F, G
<1>2. Each(F, ms) = Each(G, ms)
  BY <1>1, EachSame
<1> QED
  BY <1>2 DEF RepairWith, F, G

Rendered == [e \in Event |-> MessagesOf(e)]

\* An event is rendered as messages.
LEMMA RenderedType == Lists(Rendered, Event, Message)
<1>1. ASSUME NEW e \in Event
      PROVE  MessagesOf(e) \in Seq(Message)
  <2>1. CASE e.kind \in MessageKinds
    <3>1. UserMessage(e.id) \in Message
      BY <2>1, BoundsAssumption DEF Event, MessageKinds, UserMessage, Message
    <3> QED
      BY <2>1, <3>1 DEF MessagesOf, MessageKinds
  <2>2. CASE e.kind = "assistant.message"
    <3>1. AssistantMessage(e.id, e.calls) \in Message
      BY <2>2, BoundsAssumption DEF Event, MessageKinds, AssistantMessage, Message
    <3> QED
      BY <2>2, <3>1 DEF MessagesOf, MessageKinds
  <2>3. CASE e.kind = "tool.result"
    <3>1. ToolMessage(e.id, e.call) \in Message /\ UserMessage(e.id) \in Message
      BY <2>3, BoundsAssumption DEF Event, MessageKinds, ToolMessage, UserMessage, Message
    <3>2. /\ <<ToolMessage(e.id, e.call)>> \in Seq(Message)
          /\ <<UserMessage(e.id)>> \in Seq(Message) /\ <<>> \in Seq(Message)
      BY <3>1
    <3>3. (IF e.image THEN <<UserMessage(e.id)>> ELSE <<>>) \in Seq(Message)
      BY <3>2
    <3> QED
      BY <2>3, <3>2, <3>3, ConcatProperties DEF MessagesOf, MessageKinds
  <2>4. CASE e.kind \notin MessageKinds \cup {"assistant.message", "tool.result"}
    BY <2>4 DEF MessagesOf, MessageKinds
  <2> QED
    BY <2>1, <2>2, <2>3, <2>4
<1> QED
  BY <1>1 DEF Rendered, Lists

\* A log is rendered event by event, as messages.
LEMMA RawIs ==
    ASSUME NEW events \in Seq(Event)
    PROVE  Raw(events) = Each(Rendered, events) /\ Raw(events) \in Seq(Message)
<1>1. \A i \in DOMAIN events : Rendered[events[i]] = MessagesOf(events[i])
  BY DEF Rendered
<1>2. Raw(events) = Each(Rendered, events)
  BY <1>1 DEF Raw, Each
<1> QED
  BY <1>2, RenderedType, EachType

\* Sequences of one element, joined.
LEMMA TwoJoin ==
    ASSUME NEW S, NEW x \in S, NEW y \in S
    PROVE  <<x>> \o <<y>> = <<x, y>> /\ <<x>> \o <<>> = <<x>>
<1> DEFINE a == <<x>> \o <<y>>
           b == <<x, y>>
<1>1. <<x>> \in Seq(S) /\ <<y>> \in Seq(S) /\ b \in Seq(S)
  OBVIOUS
<1>2. a \in Seq(S) /\ Len(a) = 2 /\ a[1] = x /\ a[2] = y
  BY <1>1, ConcatProperties
<1>3. Len(b) = 2 /\ b[1] = x /\ b[2] = y
  OBVIOUS
<1> HIDE DEF a, b
<1>4. a = b
  BY <1>1, <1>2, <1>3, SeqEqual
<1> QED
  BY <1>1, <1>4, ConcatEmptySeq DEF a, b

\* A log is rendered as messages.
LEMMA RenderType ==
    ASSUME NEW events \in Seq(Event)
    PROVE  Render(events) \in Seq(Message)
<1>1. Raw(events) \in Seq(Message)
  BY RawIs
<1>2. RepairWith(Raw(events), AnsweredIn(Raw(events))) \in Seq(Message)
  BY <1>1, PatchesType, EachType DEF RepairWith
<1> QED
  BY <1>1, <1>2, RepairIs DEF Render

\* The tool messages of an event are its answer, and the calls its questions.
LEMMA OneRendered ==
    ASSUME NEW e \in Event
    PROVE  /\ {m.call : m \in {x \in Range(Rendered[e]) : x.role = "tool"}}
                = IF Answers(e) THEN {e.call} ELSE {}
           /\ UNION {Range(m.calls) : m \in Range(Rendered[e])}
                = IF Asks(e) THEN Range(e.calls) ELSE {}
<1>1. Rendered[e] = MessagesOf(e)
  BY DEF Rendered
<1>2. Range(<<>>) = {} /\ \A x : Range(<<x>>) = {x}
  BY DEF Range
<1>3. CASE e.kind \in MessageKinds
  <2>1. Range(Rendered[e]) = {UserMessage(e.id)}
    BY <1>1, <1>2, <1>3 DEF MessagesOf, MessageKinds
  <2> QED
    BY <1>2, <1>3, <2>1 DEF UserMessage, MessageKinds, Answers, Asks
<1>4. CASE e.kind = "assistant.message"
  <2>1. Range(Rendered[e]) = {AssistantMessage(e.id, e.calls)}
    BY <1>1, <1>2, <1>4 DEF MessagesOf, MessageKinds
  <2> QED
    BY <1>4, <2>1 DEF AssistantMessage, Answers, Asks
<1>5. CASE e.kind = "tool.result"
  <2> DEFINE t == ToolMessage(e.id, e.call)
             u == UserMessage(e.id)
  <2>1. Range(Rendered[e]) = IF e.image THEN {t, u} ELSE {t}
    <3>1. MessagesOf(e) = IF e.image THEN <<t, u>> ELSE <<t>>
      <4>1. MessagesOf(e) = <<t>> \o (IF e.image THEN <<u>> ELSE <<>>)
        BY <1>5 DEF MessagesOf, MessageKinds
      <4>2. t \in Message /\ u \in Message
        BY <1>5, BoundsAssumption DEF Event, MessageKinds, ToolMessage, UserMessage, Message
      <4> HIDE DEF t, u
      <4>3. <<t>> \o <<u>> = <<t, u>> /\ <<t>> \o <<>> = <<t>>
        BY <4>2, TwoJoin
      <4> QED
        BY <4>1, <4>3
    <3>2. Range(<<t, u>>) = {t, u}
      BY DEF Range
    <3> HIDE DEF t, u
    <3> QED
      BY <1>1, <1>2, <3>1, <3>2
  <2>2. /\ t.role = "tool" /\ t.call = e.call /\ t.calls = <<>>
        /\ u.role = "user" /\ u.calls = <<>>
    BY DEF ToolMessage, UserMessage
  <2> HIDE DEF t, u
  <2> QED
    BY <1>2, <1>5, <2>1, <2>2 DEF Answers, Asks
<1>6. CASE e.kind \notin MessageKinds \cup {"assistant.message", "tool.result"}
  <2>1. Range(Rendered[e]) = {}
    BY <1>1, <1>2, <1>6 DEF MessagesOf, MessageKinds
  <2> QED
    BY <1>6, <2>1 DEF Answers, Asks
<1> QED
  BY <1>3, <1>4, <1>5, <1>6

\* The calls and results of the messages are those of the events.
LEMMA RawAsksAndAnswers ==
    ASSUME NEW events \in Seq(Event)
    PROVE  /\ AnsweredIn(Raw(events)) = Answered(events)
           /\ Asking(Raw(events)) = Asked(events)
<1> DEFINE R == Range(Raw(events))
           E == Range(events)
<1>1. R = UNION {Range(Rendered[e]) : e \in E} /\ E \subseteq Event
  <2>1. Raw(events) = Each(Rendered, events)
    BY RawIs
  <2>2. Range(Each(Rendered, events)) = UNION {Range(Rendered[e]) : e \in E}
    BY RenderedType, EachElements
  <2>3. E \subseteq Event
    BY RangeOfSeq
  <2> QED
    BY <2>1, <2>2, <2>3
<1>2. AnsweredIn(Raw(events)) = {m.call : m \in {x \in R : x.role = "tool"}}
  BY DEF AnsweredIn, Range
<1> HIDE DEF R, E
<1>3. {m.call : m \in {x \in R : x.role = "tool"}} = {e.call : e \in {x \in E : Answers(x)}}
  <2>1. ASSUME NEW m \in R, m.role = "tool"
        PROVE  \E e \in E : Answers(e) /\ m.call = e.call
    <3>1. PICK e \in E : m \in Range(Rendered[e])
      BY <1>1
    <3>2. m.call \in (IF Answers(e) THEN {e.call} ELSE {})
      BY <1>1, <2>1, <3>1, OneRendered
    <3> QED
      BY <3>2
  <2>2. ASSUME NEW e \in E, Answers(e)
        PROVE  \E m \in R : m.role = "tool" /\ m.call = e.call
    <3>1. e.call \in {m.call : m \in {x \in Range(Rendered[e]) : x.role = "tool"}}
      BY <1>1, <2>2, OneRendered
    <3> QED
      BY <1>1, <3>1
  <2> QED
    BY <2>1, <2>2
<1>4. UNION {Range(m.calls) : m \in R} = UNION {Range(e.calls) : e \in {x \in E : Asks(x)}}
  <2>1. ASSUME NEW m \in R, NEW c \in Range(m.calls)
        PROVE  \E e \in E : Asks(e) /\ c \in Range(e.calls)
    <3>1. PICK e \in E : m \in Range(Rendered[e])
      BY <1>1
    <3>2. c \in (IF Asks(e) THEN Range(e.calls) ELSE {})
      BY <1>1, <3>1, OneRendered
    <3> QED
      BY <3>2
  <2>2. ASSUME NEW e \in E, Asks(e), NEW c \in Range(e.calls)
        PROVE  \E m \in R : c \in Range(m.calls)
    <3>1. c \in UNION {Range(m.calls) : m \in Range(Rendered[e])}
      BY <1>1, <2>2, OneRendered
    <3> QED
      BY <1>1, <3>1
  <2> DEFINE X == UNION {Range(m.calls) : m \in R}
             Y == UNION {Range(e.calls) : e \in {x \in E : Asks(x)}}
  <2>3. ASSUME NEW c \in X
        PROVE  c \in Y
    <3>1. PICK m \in R : c \in Range(m.calls)
      OBVIOUS
    <3>2. PICK e \in E : Asks(e) /\ c \in Range(e.calls)
      BY <2>1, <3>1
    <3> QED
      BY <3>2
  <2>4. ASSUME NEW c \in Y
        PROVE  c \in X
    <3>1. PICK e \in E : Asks(e) /\ c \in Range(e.calls)
      OBVIOUS
    <3>2. PICK m \in R : c \in Range(m.calls)
      BY <2>2, <3>1
    <3> QED
      BY <3>2
  <2> QED
    BY <2>3, <2>4
<1> QED
  BY <1>2, <1>3, <1>4 DEF Answered, Asked, Asking, R, E

\* Parts of a log that do not answer each other's calls are rendered apart.
LEMMA RenderJoins ==
    ASSUME NEW a \in Seq(Event), NEW b \in Seq(Event),
           Answered(a) \cap Asked(b) = {}, Answered(b) \cap Asked(a) = {}
    PROVE  Render(a \o b) = Render(a) \o Render(b)
<1> DEFINE x == Raw(a)
           y == Raw(b)
<1>1. /\ x \in Seq(Message) /\ y \in Seq(Message)
      /\ Raw(a \o b) = x \o y /\ x \o y \in Seq(Message)
      /\ AnsweredIn(x) = Answered(a) /\ AnsweredIn(y) = Answered(b)
      /\ Asking(x) = Asked(a) /\ Asking(y) = Asked(b)
      /\ AnsweredIn(x \o y) = Answered(a \o b)
  <2>1. a \o b \in Seq(Event)
    BY ConcatProperties
  <2>2. Raw(a \o b) = Raw(a) \o Raw(b)
    <3>1. Each(Rendered, a \o b) = Each(Rendered, a) \o Each(Rendered, b)
      BY RenderedType, EachJoins
    <3> QED
      BY <2>1, <3>1, RawIs
  <2> QED
    BY <2>1, <2>2, RawIs, RawAsksAndAnswers
<1>2. Answered(a \o b) = Answered(a) \cup Answered(b)
  BY RangeConcatenation DEF Answered
<1> HIDE DEF x, y
<1> DEFINE A == Answered(a)
           B == Answered(b)
<1>3. /\ RepairWith(x, A \cup B) = RepairWith(x, A)
      /\ RepairWith(y, A \cup B) = RepairWith(y, B)
  <2>1. (A \cup B) \cap Asking(x) = A \cap Asking(x)
    BY <1>1
  <2>2. (A \cup B) \cap Asking(y) = B \cap Asking(y)
    BY <1>1
  <2> HIDE DEF A, B
  <2> QED
    BY <1>1, <2>1, <2>2, RepairWithSame
<1>4. RepairWith(x \o y, A \cup B) = RepairWith(x, A \cup B) \o RepairWith(y, A \cup B)
  <2>1. x \in Seq(Message) /\ y \in Seq(Message)
    BY <1>1
  <2> QED
    BY <2>1, RepairWithJoins
<1>5. Repair(x \o y) = RepairWith(x, A) \o RepairWith(y, B)
  BY <1>1, <1>2, <1>3, <1>4, RepairIs
<1>6. Repair(x) = RepairWith(x, A) /\ Repair(y) = RepairWith(y, B)
  BY <1>1, RepairIs
<1> QED
  BY <1>1, <1>5, <1>6 DEF Render, x, y

\* A sequence is cut in two.
LEMMA Parts ==
    ASSUME NEW S, NEW s \in Seq(S), NEW n \in 0..Len(s)
    PROVE  /\ SubSeq(s, 1, n) \in Seq(S) /\ Len(SubSeq(s, 1, n)) = n
           /\ \A i \in 1..n : SubSeq(s, 1, n)[i] = s[i]
           /\ SubSeq(s, n + 1, Len(s)) \in Seq(S)
           /\ Len(SubSeq(s, n + 1, Len(s))) = Len(s) - n
           /\ \A i \in 1..(Len(s) - n) : SubSeq(s, n + 1, Len(s))[i] = s[n + i]
           /\ SubSeq(s, 1, n) \o SubSeq(s, n + 1, Len(s)) = s
<1> DEFINE L == Len(s)
           a == SubSeq(s, 1, n)
           b == SubSeq(s, n + 1, L)
<1>1. L \in Nat /\ n \in Nat /\ n <= L /\ \A i \in 1..L : s[i] \in S
  OBVIOUS
<1>2. a \in Seq(S) /\ Len(a) = n /\ \A i \in 1..n : a[i] = s[i]
  <2>1. 1 \in Int /\ n \in Int /\ \A i \in 1..n : s[i] \in S
    BY <1>1
  <2>2. /\ a \in Seq(S) /\ Len(a) = IF 1 <= n THEN n - 1 + 1 ELSE 0
        /\ \A i \in 1..(n - 1 + 1) : a[i] = s[1 + i - 1]
    BY <2>1, SubSeqProperties
  <2>3. n - 1 + 1 = n /\ \A i \in 1..n : 1 + i - 1 = i
    BY <1>1
  <2> HIDE DEF a
  <2> QED
    BY <1>1, <2>2, <2>3
<1>3. b \in Seq(S) /\ Len(b) = L - n /\ \A i \in 1..(L - n) : b[i] = s[n + i]
  <2>1. n + 1 \in Int /\ L \in Int /\ \A i \in (n + 1)..L : s[i] \in S
    BY <1>1
  <2>2. /\ b \in Seq(S) /\ Len(b) = IF n + 1 <= L THEN L - (n + 1) + 1 ELSE 0
        /\ \A i \in 1..(L - (n + 1) + 1) : b[i] = s[(n + 1) + i - 1]
    BY <2>1, SubSeqProperties
  <2>3. L - (n + 1) + 1 = L - n /\ \A i \in 1..(L - n) : (n + 1) + i - 1 = n + i
    BY <1>1
  <2> HIDE DEF b
  <2>4. Len(b) = L - n
    BY <1>1, <2>2
  <2>5. ASSUME NEW i \in 1..(L - n)
        PROVE  b[i] = s[n + i]
    <3>1. b[i] = s[(n + 1) + i - 1]
      BY <2>2, <2>3
    <3>2. (n + 1) + i - 1 = n + i
      BY <2>3
    <3> QED
      BY <3>1, <3>2
  <2> QED
    BY <2>2, <2>4, <2>5
<1>4. a \o b = s
  <2>1. a \o b \in Seq(S) /\ Len(a \o b) = L
    <3> HIDE DEF a, b
    <3>1. a \o b \in Seq(S) /\ Len(a \o b) = Len(a) + Len(b)
      BY <1>2, <1>3, ConcatProperties
    <3> QED
      BY <1>1, <1>2, <1>3, <3>1
  <2>2. ASSUME NEW i \in 1..L
        PROVE  (a \o b)[i] = s[i]
    <3> HIDE DEF a, b
    <3>1. i \in 1..(Len(a) + Len(b))
      BY <1>1, <1>2, <1>3
    <3>2. (a \o b)[i] = IF i <= Len(a) THEN a[i] ELSE b[i - Len(a)]
      BY <1>2, <1>3, <3>1, ConcatProperties
    <3>3. CASE i <= n
      BY <1>2, <3>2, <3>3
    <3>4. CASE ~(i <= n)
      <4>1. i - n \in 1..(L - n) /\ n + (i - n) = i
        BY <1>1, <3>4
      <4> QED
        BY <1>2, <1>3, <3>2, <3>4, <4>1
    <3> QED
      BY <3>3, <3>4
  <2> HIDE DEF a, b
  <2> QED
    BY <2>1, <2>2, SeqEqual
<1> QED
  BY <1>2, <1>3, <1>4

-----------------------------------------------------------------------------
(* A log that grows, or is cut back first.                                 *)

\* Names grow along the log, a call bears the name of its message, and a result
\* comes after its call.
Ordered(events) ==
    /\ \A i, j \in DOMAIN events : i < j => events[i].id < events[j].id
    /\ \A i \in DOMAIN events : Asks(events[i]) =>
          \A k \in DOMAIN events[i].calls : events[i].calls[k] = <<events[i].id, k>>
    /\ \A j \in DOMAIN events : Answers(events[j]) => events[j].call[1] < events[j].id

\* After the event `id` no call from before it is answered.
ClosedAt(events, id) ==
    \A j \in DOMAIN events : Answers(events[j]) /\ events[j].id > id => events[j].call[1] > id

Fresh(events, now) == \A i \in DOMAIN events : events[i].id < now

\* Events are published with the next names, and answer what was asked before.
Named(new, now) ==
    \A i \in DOMAIN new :
        /\ new[i].id = now + i - 1
        /\ Asks(new[i]) =>
              \A k \in DOMAIN new[i].calls : new[i].calls[k] = <<new[i].id, k>>
        /\ Answers(new[i]) => new[i].call[1] < now

AnswersSince(new, id) == \A i \in DOMAIN new : Answers(new[i]) => new[i].call[1] > id

\* The first n events, and new ones.
Continues(later, events, n, new) ==
    /\ events \in Seq(Event) /\ later \in Seq(Event) /\ new \in Seq(Event)
    /\ n \in 0..Len(events) /\ n <= Len(later)
    /\ \A i \in 1..n : later[i] = events[i]
    /\ \A i \in 1..Len(later) : i > n => i - n \in 1..Len(new) /\ later[i] = new[i - n]

\* The types of what events carry.
LEMMA EventTyped ==
    ASSUME NEW e \in Event
    PROVE  /\ e.id \in Nat \ {0} /\ e.id <= MaxEvents
           /\ Asks(e) => e.calls \in Seq(Call)
           /\ Answers(e) => e.call \in Call /\ e.call[1] \in Nat
           /\ Sums(e) => e.summary \in Summary
<1>1. \A c \in Call : c[1] \in Nat
  BY DEF Call
<1>2. e.id \in 1..MaxEvents
  BY DEF Event, MessageKinds
<1>3. Asks(e) => e.calls \in Seq(Call)
  BY DEF Event, MessageKinds, Asks
<1>4. Answers(e) => e.call \in Call
  BY DEF Event, MessageKinds, Answers
<1>5. Sums(e) => e.summary \in Summary
  BY DEF Event, MessageKinds, Sums
<1> QED
  BY <1>1, <1>2, <1>3, <1>4, <1>5, BoundsAssumption

\* A log that is closed at an event is rendered in two parts.
LEMMA Splits ==
    ASSUME NEW events \in Seq(Event), Ordered(events),
           NEW n \in 1..Len(events), ClosedAt(events, events[n].id)
    PROVE  Render(events)
             = Render(SubSeq(events, 1, n)) \o Render(SubSeq(events, n + 1, Len(events)))
<1> DEFINE a == SubSeq(events, 1, n)
           b == SubSeq(events, n + 1, Len(events))
           L == Len(events)
<1>1. /\ L \in Nat /\ n \in Nat /\ n <= L /\ 1 <= n /\ DOMAIN events = 1..L
      /\ \A i \in 1..L : events[i] \in Event
  OBVIOUS
<1>2. /\ a \in Seq(Event) /\ Len(a) = n /\ \A i \in 1..n : a[i] = events[i]
      /\ b \in Seq(Event) /\ Len(b) = L - n /\ \A i \in 1..(L - n) : b[i] = events[n + i]
      /\ a \o b = events
  <2>1. n \in 0..Len(events)
    BY <1>1
  <2> QED
    BY <2>1, Parts
<1>3. a \o b = events
  BY <1>2
<1>4. /\ \A e \in Range(a) : \E i \in 1..n : e = events[i]
      /\ \A e \in Range(b) : \E i \in (n + 1)..L : e = events[i]
  <2>1. Range(a) = {a[i] : i \in 1..n} /\ Range(b) = {b[i] : i \in 1..(L - n)}
    BY <1>2, RangeEquality
  <2>2. \A i \in 1..(L - n) : n + i \in (n + 1)..L
    BY <1>1
  <2> HIDE DEF a, b, L
  <2>3. \A i \in 1..n : a[i] = events[i]
    BY <1>2
  <2>4. \A i \in 1..(L - n) : b[i] = events[n + i]
    BY <1>2
  <2>5. \A e \in Range(a) : \E i \in 1..n : e = events[i]
    BY <2>1, <2>3
  <2>6. \A e \in Range(b) : \E i \in (n + 1)..L : e = events[i]
    BY <2>1, <2>2, <2>4
  <2> QED
    BY <2>5, <2>6
<1> HIDE DEF a, b
<1>5. \A e \in Event : Asks(e) /\ e \in Range(events) => \A c \in Range(e.calls) : c[1] = e.id
  <2> TAKE e \in Event
  <2> HAVE Asks(e) /\ e \in Range(events)
  <2> TAKE c \in Range(e.calls)
  <2>1. PICK i \in DOMAIN events : e = events[i]
    BY DEF Range
  <2>2. PICK k \in DOMAIN e.calls : c = e.calls[k]
    BY DEF Range
  <2>3. c = <<e.id, k>>
    BY <2>1, <2>2 DEF Ordered
  <2> QED
    BY <2>3
<1>6. \A i \in 1..L : /\ events[i] \in Range(events) /\ events[i].id \in Nat
                      /\ i <= n => events[i].id <= events[n].id
                      /\ i > n => events[i].id > events[n].id
  <2>1. \A i \in 1..L : events[i] \in Range(events) /\ events[i].id \in Nat
    BY <1>1, EventTyped DEF Range
  <2>2. ASSUME NEW i \in 1..L
        PROVE  /\ i <= n => events[i].id <= events[n].id
               /\ i > n => events[i].id > events[n].id
    <3>1. i = n \/ i < n \/ i > n
      BY <1>1
    <3>2. n \in 1..L /\ events[n].id \in Nat /\ events[i].id \in Nat
      BY <1>1, <2>1
    <3>3. i < n => events[i].id < events[n].id
      BY <1>1, <3>2 DEF Ordered
    <3>4. i > n => events[n].id < events[i].id
      BY <1>1, <3>2 DEF Ordered
    <3> QED
      BY <1>1, <3>1, <3>2, <3>3, <3>4
  <2> QED
    BY <2>1, <2>2
<1>7. Answered(a) \cap Asked(b) = {}
  <2> SUFFICES ASSUME NEW c \in Answered(a), c \in Asked(b)
               PROVE  FALSE
    OBVIOUS
  <2>1. PICK e \in Range(a) : Answers(e) /\ c = e.call
    BY DEF Answered
  <2>2. PICK i \in 1..n : e = events[i]
    BY <1>4, <2>1
  <2>3. PICK f \in Range(b) : Asks(f) /\ c \in Range(f.calls)
    BY DEF Asked
  <2>4. PICK j \in (n + 1)..L : f = events[j]
    BY <1>4, <2>3
  <2>5. i \in 1..L /\ j \in 1..L /\ i <= n /\ j > n
    BY <1>1
  <2>6. c[1] < e.id /\ c[1] \in Nat
    BY <1>1, <2>1, <2>2, <2>5, EventTyped DEF Ordered
  <2>7. c[1] = f.id
    BY <1>1, <1>5, <1>6, <2>3, <2>4, <2>5
  <2> QED
    BY <1>1, <1>6, <2>2, <2>4, <2>5, <2>6, <2>7
<1>8. Answered(b) \cap Asked(a) = {}
  <2> SUFFICES ASSUME NEW c \in Answered(b), c \in Asked(a)
               PROVE  FALSE
    OBVIOUS
  <2>1. PICK e \in Range(b) : Answers(e) /\ c = e.call
    BY DEF Answered
  <2>2. PICK j \in (n + 1)..L : e = events[j]
    BY <1>4, <2>1
  <2>3. PICK f \in Range(a) : Asks(f) /\ c \in Range(f.calls)
    BY DEF Asked
  <2>4. PICK i \in 1..n : f = events[i]
    BY <1>4, <2>3
  <2>5. i \in 1..L /\ j \in 1..L /\ i <= n /\ j > n
    BY <1>1
  <2>6. c[1] > events[n].id /\ c[1] \in Nat
    BY <1>1, <1>6, <2>1, <2>2, <2>5, EventTyped DEF ClosedAt
  <2>7. c[1] = f.id
    BY <1>1, <1>5, <1>6, <2>3, <2>4, <2>5
  <2> QED
    BY <1>1, <1>6, <2>4, <2>5, <2>6, <2>7
<1>9. Render(a \o b) = Render(a) \o Render(b)
  BY <1>2, <1>7, <1>8, RenderJoins
<1> QED
  BY <1>3, <1>9 DEF a, b

\* What is kept of a log, and what is new.
LEMMA Grows ==
    ASSUME NEW events \in Seq(Event), Ordered(events),
           NEW now \in Nat, Fresh(events, now),
           NEW n \in 0..Len(events), NEW new \in Seq(Event), Named(new, now),
           NEW later, later = SubSeq(events, 1, n) \o new
    PROVE  /\ Continues(later, events, n, new)
           /\ Len(later) = n + Len(new)
           /\ Ordered(later)
           /\ Fresh(later, now + Len(new))
<1> DEFINE a == SubSeq(events, 1, n)
           N == Len(new)
<1>1. /\ n \in Nat /\ n <= Len(events) /\ Len(events) \in Nat /\ N \in Nat
      /\ DOMAIN events = 1..Len(events) /\ DOMAIN new = 1..N
      /\ \A i \in 1..Len(events) : events[i] \in Event
      /\ \A i \in 1..N : new[i] \in Event
  OBVIOUS
<1>2. a \in Seq(Event) /\ Len(a) = n /\ \A i \in 1..n : a[i] = events[i]
  BY Parts
<1>3. /\ later \in Seq(Event) /\ Len(later) = n + N
      /\ \A i \in 1..(n + N) : later[i] = IF i <= n THEN a[i] ELSE new[i - n]
  <2> HIDE DEF a
  <2>1. later = a \o new
    BY DEF a
  <2>2. /\ a \o new \in Seq(Event) /\ Len(a \o new) = Len(a) + Len(new)
        /\ \A i \in 1..(Len(a) + Len(new)) :
              (a \o new)[i] = IF i <= Len(a) THEN a[i] ELSE new[i - Len(a)]
    <3>1. a \in Seq(Event)
      BY <1>2
    <3> QED
      BY <3>1, ConcatProperties
  <2> QED
    BY <1>2, <2>1, <2>2
<1> HIDE DEF a
<1>4. /\ DOMAIN later = 1..(n + N)
      /\ \A i \in 1..n : i \in 1..Len(events) /\ later[i] = events[i]
      /\ \A i \in 1..(n + N) : i > n => i - n \in 1..N /\ later[i] = new[i - n]
  BY <1>1, <1>2, <1>3
<1>5. /\ \A i \in 1..Len(events) : events[i].id < now
      /\ \A i \in 1..N : /\ new[i].id = now + i - 1
                         /\ Asks(new[i]) =>
                               \A k \in DOMAIN new[i].calls : new[i].calls[k] = <<new[i].id, k>>
                         /\ Answers(new[i]) => new[i].call[1] < now
  BY <1>1 DEF Fresh, Named
<1>6. ASSUME NEW i \in 1..(n + N)
      PROVE  /\ i <= n => later[i].id < now
             /\ i > n => later[i].id = now + (i - n) - 1
             /\ later[i].id \in Nat
  <2>1. i <= n => i \in 1..n
    BY <1>1
  <2>2. i <= n => later[i].id < now
    BY <1>4, <1>5, <2>1
  <2>3. i > n => later[i].id = now + (i - n) - 1
    BY <1>1, <1>4, <1>5
  <2>4. later[i] \in Event
    BY <1>3, <1>4
  <2> QED
    BY <2>2, <2>3, <2>4, EventTyped
<1>7. Ordered(later)
  <2>1. ASSUME NEW i \in DOMAIN later, NEW j \in DOMAIN later, i < j
        PROVE  later[i].id < later[j].id
    <3>1. i \in 1..(n + N) /\ j \in 1..(n + N) /\ i \in Nat /\ j \in Nat
      BY <1>1, <1>4
    <3>2. CASE j <= n
      <4>1. i \in 1..n /\ j \in 1..n
        BY <1>1, <2>1, <3>1, <3>2
      <4>2. /\ later[i] = events[i] /\ later[j] = events[j]
            /\ i \in DOMAIN events /\ j \in DOMAIN events
        BY <1>1, <1>4, <4>1
      <4> QED
        BY <2>1, <4>2 DEF Ordered
    <3>3. CASE j > n /\ i <= n
      <4>1. later[i].id < now /\ later[i].id \in Nat
        BY <1>6, <3>1, <3>3
      <4>2. later[j].id = now + (j - n) - 1
        BY <1>6, <3>1, <3>3
      <4> QED
        BY <1>1, <3>1, <3>3, <4>1, <4>2
    <3>4. CASE j > n /\ i > n
      <4>1. later[i].id = now + (i - n) - 1
        BY <1>6, <3>1, <3>4
      <4>2. later[j].id = now + (j - n) - 1
        BY <1>6, <3>1, <3>4
      <4> QED
        BY <1>1, <2>1, <3>1, <3>4, <4>1, <4>2
    <3> QED
      BY <1>1, <3>1, <3>2, <3>3, <3>4
  <2>2. ASSUME NEW i \in DOMAIN later, Asks(later[i]), NEW k \in DOMAIN later[i].calls
        PROVE  later[i].calls[k] = <<later[i].id, k>>
    <3>1. CASE i <= n
      <4>1. i \in 1..n
        BY <1>1, <1>4, <3>1
      <4>2. later[i] = events[i] /\ i \in DOMAIN events
        BY <1>1, <1>4, <4>1
      <4> QED
        BY <2>2, <4>2 DEF Ordered
    <3>2. CASE i > n
      <4>1. later[i] = new[i - n] /\ i - n \in DOMAIN new
        BY <1>1, <1>4, <3>2
      <4> QED
        BY <1>1, <1>5, <2>2, <4>1
    <3> QED
      BY <1>1, <1>4, <3>1, <3>2
  <2>3. ASSUME NEW i \in DOMAIN later, Answers(later[i])
        PROVE  later[i].call[1] < later[i].id
    <3>1. CASE i <= n
      <4>1. i \in 1..n
        BY <1>1, <1>4, <3>1
      <4>2. later[i] = events[i] /\ i \in DOMAIN events
        BY <1>1, <1>4, <4>1
      <4> QED
        BY <2>3, <4>2 DEF Ordered
    <3>2. CASE i > n
      <4>1. later[i] = new[i - n] /\ i - n \in DOMAIN new /\ i - n >= 1
        BY <1>1, <1>4, <3>2
      <4>2. later[i].call[1] < now
        BY <1>1, <1>5, <2>3, <4>1
      <4>3. later[i].id = now + (i - n) - 1 /\ later[i] \in Event
        BY <1>1, <1>4, <1>6, <3>2, <4>1
      <4>4. later[i].call[1] \in Nat
        BY <2>3, <4>3, EventTyped
      <4> QED
        BY <1>1, <1>4, <4>1, <4>2, <4>3, <4>4
    <3> QED
      BY <1>1, <1>4, <3>1, <3>2
  <2> QED
    BY <2>1, <2>2, <2>3 DEF Ordered
<1>8. \A i \in DOMAIN later : later[i].id < now + N
  <2> TAKE i \in DOMAIN later
  <2>1. i \in 1..(n + N) /\ i \in Nat
    BY <1>1, <1>4
  <2>2. CASE i <= n
    <3>1. later[i].id < now /\ later[i].id \in Nat
      BY <1>6, <2>1, <2>2
    <3> QED
      BY <1>1, <3>1
  <2>3. CASE i > n
    <3>1. later[i].id = now + (i - n) - 1 /\ i - n <= N
      BY <1>1, <1>6, <2>1, <2>3
    <3> QED
      BY <1>1, <2>1, <3>1
  <2> QED
    BY <1>1, <2>1, <2>2, <2>3
<1>9. Continues(later, events, n, new)
  <2>1. n <= Len(later)
    BY <1>1, <1>3
  <2> QED
    BY <1>1, <1>3, <1>4, <2>1 DEF Continues
<1> QED
  BY <1>3, <1>7, <1>8, <1>9 DEF Fresh

\* A log stays closed at an event if what is new answers later calls only.
LEMMA ClosedGrows ==
    ASSUME NEW events, NEW later, NEW n, NEW new, Continues(later, events, n, new),
           NEW id, ClosedAt(events, id), AnswersSince(new, id)
    PROVE  ClosedAt(later, id)
<1> SUFFICES ASSUME NEW j \in DOMAIN later, Answers(later[j]), later[j].id > id
             PROVE  later[j].call[1] > id
  BY DEF ClosedAt
<1>1. /\ events \in Seq(Event) /\ later \in Seq(Event) /\ new \in Seq(Event)
      /\ n \in 0..Len(events)
      /\ \A i \in 1..n : later[i] = events[i]
      /\ \A i \in 1..Len(later) : i > n => i - n \in 1..Len(new) /\ later[i] = new[i - n]
  BY DEF Continues
<1>2. j \in 1..Len(later) /\ DOMAIN events = 1..Len(events) /\ DOMAIN new = 1..Len(new)
  BY <1>1
<1>3. CASE j <= n
  <2>1. j \in 1..n /\ j \in DOMAIN events
    BY <1>1, <1>2, <1>3
  <2> QED
    BY <1>1, <2>1 DEF ClosedAt
<1>4. CASE j > n
  <2>1. j - n \in DOMAIN new /\ later[j] = new[j - n]
    BY <1>1, <1>2, <1>4
  <2> QED
    BY <2>1 DEF AnswersSince
<1> QED
  BY <1>1, <1>2, <1>3, <1>4

\* The head of what is kept is the head of the log.
LEMMA HeadKept ==
    ASSUME NEW events, NEW later, NEW n, NEW new, Continues(later, events, n, new),
           NEW k \in 0..n
    PROVE  SubSeq(later, 1, k) = SubSeq(events, 1, k)
<1> DEFINE a == SubSeq(later, 1, k)
           b == SubSeq(events, 1, k)
<1>0. /\ events \in Seq(Event) /\ later \in Seq(Event)
      /\ n \in 0..Len(events) /\ n <= Len(later) /\ \A i \in 1..n : later[i] = events[i]
  BY DEF Continues
<1>1. k \in 0..Len(events) /\ k \in 0..Len(later) /\ \A i \in 1..k : i \in 1..n
  BY <1>0
<1>2. a \in Seq(Event) /\ Len(a) = k /\ \A i \in 1..k : a[i] = later[i]
  BY <1>0, <1>1, Parts
<1>3. b \in Seq(Event) /\ Len(b) = k /\ \A i \in 1..k : b[i] = events[i]
  BY <1>0, <1>1, Parts
<1> HIDE DEF a, b
<1>4. Len(a) = Len(b) /\ \A i \in 1..Len(a) : a[i] = b[i]
  BY <1>0, <1>1, <1>2, <1>3
<1>5. a = b
  BY <1>2, <1>3, <1>4, SeqEqual
<1> QED
  BY <1>5 DEF a, b

-----------------------------------------------------------------------------
(* Summaries and the cache.                                                *)

Cache == [last : Nat, count : Nat, messages : Seq(Message)]

\* A summary stands for the first messages, and those after it open on no result.
SumsUp(ms, s) ==
    /\ s.count \in 0..Len(ms)
    /\ s.folded = SubSeq(ms, 1, s.count)
    /\ s.count # 0 => s.count < Len(ms) /\ StartsClean(ms, s.count)

\* Each summary in the log stands for the head of the conversation it was
\* published after, and no call from before it is answered later.
Folded(events) ==
    \A i \in DOMAIN events : Sums(events[i]) =>
        /\ ClosedAt(events, events[i].id)
        /\ SumsUp(Render(SubSeq(events, 1, i)), events[i].summary)

\* A cache that is used is a rendering of the head of the log.
Cached(c, events) ==
    Extends(c, events) =>
        /\ ClosedAt(events, c.last)
        /\ c.messages = Render(SubSeq(events, 1, c.count))

\* What holds of the log, the counter of names and the cache.
Sound(events, now, c) ==
    /\ events \in Seq(Event) /\ now \in Nat \ {0} /\ c \in Cache
    /\ Ordered(events)
    /\ Fresh(events, now)
    /\ Folded(events)
    /\ c.last < now
    /\ Cached(c, events)

\* A summary of a conversation sums up one that goes on from it.
LEMMA SumsUpGrows ==
    ASSUME NEW ms \in Seq(Message), NEW more \in Seq(Message), NEW s \in Summary,
           SumsUp(ms, s)
    PROVE  SumsUp(ms \o more, s)
<1> DEFINE all == ms \o more
<1>1. /\ all \in Seq(Message) /\ Len(all) = Len(ms) + Len(more)
      /\ \A i \in 1..(Len(ms) + Len(more)) :
            all[i] = IF i <= Len(ms) THEN ms[i] ELSE more[i - Len(ms)]
  BY ConcatProperties
<1>2. /\ s.count \in 0..Len(ms) /\ s.count \in Nat
      /\ s.folded = SubSeq(ms, 1, s.count)
      /\ s.count # 0 => s.count < Len(ms) /\ ms[s.count + 1].role # "tool"
      /\ Len(ms) \in Nat /\ Len(more) \in Nat
  BY DEF SumsUp, StartsClean
<1> HIDE DEF all
<1>3. s.count \in 0..Len(all) /\ \A i \in 1..Len(ms) : all[i] = ms[i]
  BY <1>1, <1>2
<1>4. SubSeq(all, 1, s.count) = SubSeq(ms, 1, s.count)
  <2> DEFINE a == SubSeq(all, 1, s.count)
             b == SubSeq(ms, 1, s.count)
  <2>1. a \in Seq(Message) /\ Len(a) = s.count /\ \A i \in 1..s.count : a[i] = all[i]
    BY <1>1, <1>3, Parts
  <2>2. b \in Seq(Message) /\ Len(b) = s.count /\ \A i \in 1..s.count : b[i] = ms[i]
    BY <1>2, Parts
  <2> HIDE DEF a, b
  <2>3. Len(a) = Len(b) /\ \A i \in 1..Len(a) : a[i] = b[i]
    BY <1>2, <1>3, <2>1, <2>2
  <2>4. a = b
    BY <2>1, <2>2, <2>3, SeqEqual
  <2> QED
    BY <2>4 DEF a, b
<1>5. s.count # 0 => s.count < Len(all) /\ all[s.count + 1].role # "tool"
  BY <1>1, <1>2, <1>3
<1> QED
  BY <1>2, <1>3, <1>4, <1>5 DEF SumsUp, StartsClean, all

\* A cache of a log is a cache of one that goes on from it, or is not used on it.
LEMMA CachedGrows ==
    ASSUME NEW events, NEW later, NEW n, NEW new, Continues(later, events, n, new),
           NEW now \in Nat, Named(new, now),
           NEW c \in Cache, c.last < now, Cached(c, events), AnswersSince(new, c.last)
    PROVE  Cached(c, later)
<1> SUFFICES ASSUME Extends(c, later)
             PROVE  /\ ClosedAt(later, c.last)
                    /\ c.messages = Render(SubSeq(later, 1, c.count))
  BY DEF Cached
<1>1. /\ events \in Seq(Event) /\ later \in Seq(Event) /\ new \in Seq(Event)
      /\ n \in 0..Len(events) /\ n <= Len(later)
      /\ \A i \in 1..n : later[i] = events[i]
      /\ \A i \in 1..Len(later) : i > n => i - n \in 1..Len(new) /\ later[i] = new[i - n]
  BY DEF Continues
<1>2. /\ c.count \in Nat /\ c.last \in Nat /\ c.count > 0 /\ c.count <= Len(later)
      /\ later[c.count].id = c.last
  BY DEF Extends, Cache
<1>3. /\ DOMAIN new = 1..Len(new)
      /\ Len(later) \in Nat /\ Len(events) \in Nat /\ n \in Nat /\ n <= Len(events)
  BY <1>1
<1>4. c.count <= n
  <2> SUFFICES ASSUME c.count > n
               PROVE  FALSE
    BY <1>2, <1>3
  <2>1. c.count - n \in DOMAIN new /\ later[c.count] = new[c.count - n]
    BY <1>1, <1>2, <1>3
  <2>2. c.last = now + (c.count - n) - 1
    BY <1>2, <2>1 DEF Named
  <2> QED
    BY <1>2, <1>3, <2>2
<1>5. Extends(c, events)
  <2>1. events[c.count] = later[c.count]
    BY <1>1, <1>2, <1>3, <1>4
  <2> QED
    BY <1>2, <1>3, <1>4, <2>1 DEF Extends
<1>6. ClosedAt(events, c.last) /\ c.messages = Render(SubSeq(events, 1, c.count))
  BY <1>5 DEF Cached
<1>7. ClosedAt(later, c.last)
  BY <1>6, ClosedGrows
<1>8. SubSeq(later, 1, c.count) = SubSeq(events, 1, c.count)
  <2>1. c.count \in 0..n
    BY <1>2, <1>3, <1>4
  <2> QED
    BY <2>1, HeadKept
<1> QED
  BY <1>6, <1>7, <1>8

\* What is new answers nothing from before a summary.
AnswersSinceSummaries(new, events) ==
    \A j \in DOMAIN events : Sums(events[j]) => AnswersSince(new, events[j].id)

\* A new summary stands for the log it is published after.
SumsUpLater(new, later, n) ==
    \A i \in DOMAIN new : Sums(new[i]) =>
        /\ ClosedAt(later, new[i].id)
        /\ SumsUp(Render(SubSeq(later, 1, n + i)), new[i].summary)

\* The summaries that are kept, and the new ones, are sound in the log that goes on.
LEMMA FoldedGrows ==
    ASSUME NEW events, NEW later, NEW n, NEW new, Continues(later, events, n, new),
           Folded(events), AnswersSinceSummaries(new, events), SumsUpLater(new, later, n)
    PROVE  Folded(later)
<1> SUFFICES ASSUME NEW i \in DOMAIN later, Sums(later[i])
             PROVE  /\ ClosedAt(later, later[i].id)
                    /\ SumsUp(Render(SubSeq(later, 1, i)), later[i].summary)
  BY DEF Folded
<1>1. /\ events \in Seq(Event) /\ later \in Seq(Event) /\ new \in Seq(Event)
      /\ n \in 0..Len(events) /\ n <= Len(later)
      /\ \A k \in 1..n : later[k] = events[k]
      /\ \A k \in 1..Len(later) : k > n => k - n \in 1..Len(new) /\ later[k] = new[k - n]
  BY DEF Continues
<1>2. /\ i \in 1..Len(later) /\ n \in Nat /\ n <= Len(events) /\ Len(events) \in Nat
      /\ DOMAIN events = 1..Len(events) /\ DOMAIN new = 1..Len(new) /\ Len(later) \in Nat
  BY <1>1
<1>3. CASE i <= n
  <2>1. i \in 1..n /\ i \in DOMAIN events /\ later[i] = events[i] /\ i \in 0..n
    BY <1>1, <1>2, <1>3
  <2>2. /\ ClosedAt(events, events[i].id)
        /\ SumsUp(Render(SubSeq(events, 1, i)), events[i].summary)
    BY <2>1 DEF Folded
  <2>3. AnswersSince(new, events[i].id)
    BY <2>1 DEF AnswersSinceSummaries
  <2>4. ClosedAt(later, events[i].id)
    BY <2>2, <2>3, ClosedGrows
  <2>5. SubSeq(later, 1, i) = SubSeq(events, 1, i)
    BY <2>1, HeadKept
  <2> QED
    BY <2>1, <2>2, <2>4, <2>5
<1>4. CASE i > n
  <2>1. i - n \in DOMAIN new /\ later[i] = new[i - n] /\ n + (i - n) = i
    BY <1>1, <1>2, <1>4
  <2> QED
    BY <2>1 DEF SumsUpLater
<1> QED
  BY <1>2, <1>3, <1>4

\* A rewind and a publication leave the log sound.
LEMMA SoundGrows ==
    ASSUME NEW events, NEW now, NEW c, Sound(events, now, c),
           NEW n \in 0..Len(events), NEW new \in Seq(Event), Named(new, now),
           AnswersSince(new, c.last), AnswersSinceSummaries(new, events),
           NEW later, later = SubSeq(events, 1, n) \o new, SumsUpLater(new, later, n)
    PROVE  Sound(later, now + Len(new), c)
<1>1. /\ events \in Seq(Event) /\ now \in Nat \ {0} /\ c \in Cache
      /\ Ordered(events) /\ Fresh(events, now)
      /\ Folded(events) /\ c.last < now /\ Cached(c, events)
  BY DEF Sound
<1>2. c.last \in Nat /\ now \in Nat /\ Len(new) \in Nat
  BY <1>1 DEF Cache
<1>3. /\ Continues(later, events, n, new)
      /\ Ordered(later) /\ Fresh(later, now + Len(new))
  BY <1>1, <1>2, Grows
<1>4. Cached(c, later)
  BY <1>1, <1>2, <1>3, CachedGrows
<1>5. Folded(later)
  BY <1>1, <1>3, FoldedGrows
<1>6. now + Len(new) \in Nat \ {0} /\ c.last < now + Len(new)
  BY <1>1, <1>2
<1>7. later \in Seq(Event)
  BY <1>3 DEF Continues
<1> QED
  BY <1>1, <1>3, <1>4, <1>5, <1>6, <1>7 DEF Sound

-----------------------------------------------------------------------------
(* The invariant.                                                          *)

Typed ==
    /\ next \in 1..(MaxEvents + 1)
    /\ phase \in {"idle", "step", "fitting", "asking", "tools"}
    /\ todo \in Seq(Call)
    /\ todo # <<>> <=> phase = "tools"
    /\ conv \in Seq(Message) /\ summary \in Summary

\* The calls that wait are later than what the cache and the summaries cover.
Later ==
    \A k \in DOMAIN todo :
        /\ todo[k][1] < next
        /\ todo[k][1] > cache.last
        /\ \A i \in DOMAIN log : Sums(log[i]) => todo[k][1] > log[i].id

\* After its first n events a log has summaries and what was said elsewhere.
Since(events, n) ==
    \A i \in (n + 1)..Len(events) :
       events[i].kind \in Asides \cup {"agent.context.summarized"}

\* The conversation in hand is that of the log as it was when it was assembled, of
\* which the cache keeps the length, and the summary is its head.
InHand ==
    phase \in {"fitting", "asking"} =>
        /\ cache.count \in 0..Len(log)
        /\ conv = Render(SubSeq(log, 1, cache.count))
        /\ SumsUp(conv, summary)
        /\ Since(log, cache.count)

Inv == Typed /\ Sound(log, next, cache) /\ Later /\ InHand

\* Outside a batch no call waits.
LEMMA NoneLeft ==
    ASSUME Typed, phase # "tools"
    PROVE  todo = <<>> /\ DOMAIN todo = {}
BY DEF Typed

\* An empty cache is sound.
LEMMA NoCacheSound ==
    ASSUME NEW events, NEW now, NEW c, Sound(events, now, c)
    PROVE  Sound(events, now, NoCache)
<1>1. NoCache \in Cache /\ NoCache.last = 0 /\ NoCache.count = 0
  <2>1. <<>> \in Seq(Message)
    OBVIOUS
  <2> QED
    BY <2>1 DEF NoCache, Cache
<1>2. ~Extends(NoCache, events)
  BY <1>1 DEF Extends
<1>3. \A x \in Nat \ {0} : 0 < x
  OBVIOUS
<1> QED
  BY <1>1, <1>2, <1>3 DEF Sound, Cached

\* Publishing an event of which nothing is asked.
LEMMA PublishedSound ==
    ASSUME Inv, NEW new \in Seq(Event), Publish(new), Named(new, next),
           AnswersSince(new, cache.last), AnswersSinceSummaries(new, log),
           SumsUpLater(new, log', Len(log))
    PROVE  /\ Sound(log', next', cache)
           /\ next' \in 1..(MaxEvents + 1) /\ next' = next + Len(new)
<1>1. /\ log \in Seq(Event) /\ next \in Nat /\ Len(log) \in 0..Len(log) /\ Len(new) \in Nat
      /\ Sound(log, next, cache)
  BY DEF Inv, Sound
<1>2. SubSeq(log, 1, Len(log)) = log
  BY <1>1, SubSeqFull
<1>3. log' = SubSeq(log, 1, Len(log)) \o new /\ next' = next + Len(new)
  BY <1>2 DEF Publish
<1>4. Sound(log', next + Len(new), cache)
  BY <1>1, <1>3, SoundGrows
<1>5. next + Len(new) \in 1..(MaxEvents + 1)
  BY <1>1, BoundsAssumption DEF Publish, Room, Inv, Typed
<1> QED
  BY <1>3, <1>4, <1>5

\* One event that neither answers nor sums up.
LEMMA PlainSound ==
    ASSUME Inv, NEW e, Publish(<<e>>), next <= MaxEvents => e \in Event,
           e.id = next, ~Answers(e), ~Sums(e),
           Asks(e) => \A k \in DOMAIN e.calls : e.calls[k] = <<e.id, k>>
    PROVE  /\ Sound(log', next', cache)
           /\ next' \in 1..(MaxEvents + 1) /\ next' = next + 1 /\ next <= MaxEvents
<1> DEFINE new == <<e>>
<1>1. Len(new) = 1 /\ DOMAIN new = {1} /\ new[1] = e
  OBVIOUS
<1>2. next <= MaxEvents /\ next \in Nat
  BY <1>1, BoundsAssumption DEF Publish, Room, Inv, Typed
<1>3. new \in Seq(Event)
  BY <1>2
<1>4. Publish(new)
  OBVIOUS
<1> HIDE DEF new
<1>5. Named(new, next)
  BY <1>1, <1>2 DEF Named
<1>6. /\ AnswersSince(new, cache.last) /\ AnswersSinceSummaries(new, log)
      /\ SumsUpLater(new, log', Len(log))
  BY <1>1 DEF AnswersSince, AnswersSinceSummaries, SumsUpLater
<1> QED
  BY <1>1, <1>2, <1>3, <1>4, <1>5, <1>6, PublishedSound

\* Prompt preserves the invariant.
LEMMA PromptKeeps ==
    ASSUME Inv, Prompt
    PROVE  Inv'
<1> DEFINE e == Said("user.message", next)
<1>1. /\ Publish(<<e>>) /\ phase = "idle" /\ phase' = "step"
      /\ UNCHANGED <<todo, cache, cleared, conv, summary>>
  BY DEF Prompt
<1>2. /\ next <= MaxEvents => e \in Event
      /\ e.id = next /\ ~Answers(e) /\ ~Sums(e) /\ ~Asks(e)
  BY BoundsAssumption DEF Inv, Typed, Said, MessageKinds, Event, Answers, Sums, Asks
<1> HIDE DEF e
<1>3. Sound(log', next', cache) /\ next' \in 1..(MaxEvents + 1)
  BY <1>1, <1>2, PlainSound
<1>4. todo = <<>> /\ DOMAIN todo = {}
  BY <1>1, NoneLeft DEF Inv
<1> QED
  BY <1>1, <1>3, <1>4 DEF Inv, Typed, Later, InHand

\* A log goes on with a summary or with something said elsewhere.
LEMMA SinceGrows ==
    ASSUME NEW events \in Seq(Event), NEW n \in 0..Len(events), Since(events, n),
           NEW e \in Event, e.kind \in Asides \cup {"agent.context.summarized"},
           NEW later, later = events \o <<e>>
    PROVE  /\ n \in 0..Len(later) /\ later \in Seq(Event)
           /\ SubSeq(later, 1, n) = SubSeq(events, 1, n)
           /\ Since(later, n)
<1>1. PICK l \in Nat : l = Len(events)
  OBVIOUS
<1>2. /\ later \in Seq(Event) /\ Len(later) = l + 1 /\ later[l + 1] = e
      /\ \A i \in 1..l : later[i] = events[i]
  BY <1>1
<1>3. n \in 0..l /\ n \in 0..Len(later)
  BY <1>1, <1>2
<1>4. SubSeq(later, 1, n) = SubSeq(events, 1, n)
  <2>1. PICK a \in Seq(Event) :
           /\ a = SubSeq(later, 1, n) /\ Len(a) = n /\ \A i \in 1..n : a[i] = later[i]
    <3>1. SubSeq(later, 1, n) \in Seq(Event) /\ Len(SubSeq(later, 1, n)) = n
      BY <1>2, <1>3, Parts
    <3>2. \A i \in 1..n : SubSeq(later, 1, n)[i] = later[i]
      BY <1>2, <1>3, Parts
    <3> QED
      BY <3>1, <3>2
  <2>2. PICK b \in Seq(Event) :
           /\ b = SubSeq(events, 1, n) /\ Len(b) = n /\ \A i \in 1..n : b[i] = events[i]
    <3>1. SubSeq(events, 1, n) \in Seq(Event) /\ Len(SubSeq(events, 1, n)) = n
      BY Parts
    <3>2. \A i \in 1..n : SubSeq(events, 1, n)[i] = events[i]
      BY Parts
    <3> QED
      BY <3>1, <3>2
  <2>3. \A i \in 1..n : a[i] = b[i]
    BY <1>2, <1>3, <2>1, <2>2
  <2> QED
    BY <2>1, <2>2, <2>3, SeqEqual
<1>5. Since(later, n)
  <2> SUFFICES ASSUME NEW i \in (n + 1)..(l + 1)
               PROVE  later[i].kind \in Asides \cup {"agent.context.summarized"}
    BY <1>2 DEF Since
  <2>1. i = l + 1 \/ (i \in 1..l /\ i \in (n + 1)..Len(events))
    BY <1>1, <1>3
  <2> QED
    BY <1>2, <2>1 DEF Since
<1> QED
  BY <1>2, <1>3, <1>4, <1>5

\* What has come since is rendered after what was there.
LEMMA SinceRendered ==
    ASSUME NEW events \in Seq(Event), NEW n \in 0..Len(events), Since(events, n)
    PROVE  \E more \in Seq(Message) :
              Render(events) = Render(SubSeq(events, 1, n)) \o more
<1>1. PICK a \in Seq(Event) : a = SubSeq(events, 1, n)
  BY Parts
<1>2. PICK b \in Seq(Event) :
         /\ b = SubSeq(events, n + 1, Len(events))
         /\ Len(b) = Len(events) - n
         /\ \A i \in 1..(Len(events) - n) : b[i] = events[n + i]
  <2>1. SubSeq(events, n + 1, Len(events)) \in Seq(Event)
    BY Parts
  <2>2. Len(SubSeq(events, n + 1, Len(events))) = Len(events) - n
    BY Parts
  <2>3. \A i \in 1..(Len(events) - n) :
           SubSeq(events, n + 1, Len(events))[i] = events[n + i]
    BY Parts
  <2> QED
    BY <2>1, <2>2, <2>3
<1>3. events = a \o b
  BY <1>1, <1>2, Parts
<1>4. \A e \in Range(b) : ~Asks(e) /\ ~Answers(e)
  <2> TAKE e \in Range(b)
  <2>1. PICK i \in 1..Len(b) : e = b[i]
    BY DEF Range
  <2>2. n + i \in (n + 1)..Len(events) /\ e = events[n + i]
    BY <1>2, <2>1
  <2>3. e.kind \in Asides \cup {"agent.context.summarized"}
    BY <2>2 DEF Since
  <2> QED
    BY <2>3, BoundsAssumption DEF MessageKinds, Asks, Answers
<1>5. Asked(b) = {} /\ Answered(b) = {}
  BY <1>4 DEF Asked, Answered
<1>6. Render(a \o b) = Render(a) \o Render(b)
  BY <1>5, RenderJoins
<1>7. Render(b) \in Seq(Message)
  BY RenderType
<1> QED
  BY <1>1, <1>3, <1>6, <1>7

\* Hear preserves the invariant.
LEMMA HearKeeps ==
    ASSUME Inv, NEW kind \in Asides, Hear(kind)
    PROVE  Inv'
<1>1. PICK e : e = Said(kind, next)
  OBVIOUS
<1>2. /\ Publish(<<e>>)
      /\ phase' \in IF phase = "idle" THEN {"idle", "step"} ELSE {phase}
      /\ UNCHANGED <<todo, cache, cleared, conv, summary>>
  BY <1>1 DEF Hear
<1>3. /\ next <= MaxEvents => e \in Event
      /\ e.id = next /\ ~Answers(e) /\ ~Sums(e) /\ ~Asks(e) /\ e.kind = kind
  <2>1. kind \in MessageKinds
    BY BoundsAssumption
  <2>2. e = [kind |-> kind, id |-> next] /\ next \in 1..(MaxEvents + 1) /\ MaxEvents \in Nat
    BY <1>1, BoundsAssumption DEF Said, Inv, Typed
  <2>3. next <= MaxEvents => e \in Event
    BY <2>1, <2>2 DEF Event
  <2> QED
    BY <2>1, <2>2, <2>3 DEF MessageKinds, Answers, Sums, Asks
<1>4. /\ Sound(log', next', cache) /\ next' \in 1..(MaxEvents + 1)
      /\ next' = next + 1 /\ next <= MaxEvents
  BY <1>2, <1>3, PlainSound
<1>5. e \in Event /\ log \in Seq(Event) /\ log' = log \o <<e>> /\ next \in Nat
  BY <1>2, <1>3, <1>4 DEF Publish, Inv, Sound
<1>6. Later'
  <2> SUFFICES ASSUME NEW k \in DOMAIN todo
               PROVE  /\ todo[k][1] < next'
                      /\ todo[k][1] > cache.last
                      /\ \A i \in DOMAIN log' : Sums(log'[i]) => todo[k][1] > log'[i].id
    BY <1>2 DEF Later
  <2>1. /\ todo[k][1] < next /\ todo[k][1] > cache.last
        /\ \A i \in DOMAIN log : Sums(log[i]) => todo[k][1] > log[i].id
    BY DEF Inv, Later
  <2>2. todo[k][1] < next'
    <3>1. todo[k] \in Call
      BY DEF Inv, Typed
    <3>2. todo[k][1] \in Int
      BY <3>1, BoundsAssumption DEF Call
    <3> QED
      BY <1>4, <1>5, <2>1, <3>2
  <2>3. ASSUME NEW i \in DOMAIN log', Sums(log'[i])
        PROVE  i \in DOMAIN log /\ log'[i] = log[i]
    <3>1. i \in DOMAIN log => log'[i] = log[i]
      BY <1>5
    <3>2. i \notin DOMAIN log => log'[i] = e
      BY <1>5
    <3> QED
      BY <1>3, <2>3, <3>1, <3>2
  <2> QED
    BY <2>1, <2>2, <2>3
<1>7. InHand'
  <2> SUFFICES ASSUME phase' \in {"fitting", "asking"}
               PROVE  /\ cache.count \in 0..Len(log')
                      /\ conv = Render(SubSeq(log', 1, cache.count))
                      /\ SumsUp(conv, summary)
                      /\ Since(log', cache.count)
    BY <1>2 DEF InHand
  <2>1. phase \in {"fitting", "asking"}
    BY <1>2
  <2>2. PICK n : n = cache.count
    OBVIOUS
  <2>3. /\ n \in 0..Len(log) /\ conv = Render(SubSeq(log, 1, n))
        /\ SumsUp(conv, summary) /\ Since(log, n)
    BY <2>1, <2>2 DEF Inv, InHand
  <2>4. /\ n \in 0..Len(log') /\ SubSeq(log', 1, n) = SubSeq(log, 1, n)
        /\ Since(log', n)
    BY <1>3, <1>5, <2>3, SinceGrows
  <2> QED
    BY <2>2, <2>3, <2>4
<1>8. Typed'
  <2>1. todo # <<>> <=> phase' = "tools"
    BY <1>2 DEF Inv, Typed
  <2>2. phase' \in {"idle", "step", "fitting", "asking", "tools"}
    BY <1>2 DEF Inv, Typed
  <2> QED
    BY <1>2, <1>4, <2>1, <2>2 DEF Inv, Typed
<1> QED
  BY <1>2, <1>4, <1>6, <1>7, <1>8 DEF Inv

\* Send preserves the invariant.
LEMMA SendKeeps ==
    ASSUME Inv, Send
    PROVE  Inv'
<1>1. phase = "fitting" /\ phase' = "asking"
      /\ UNCHANGED <<repairs, log, next, todo, cache, cleared, conv, summary>>
  BY DEF Send
<1> QED
  BY <1>1 DEF Inv, Typed, Later, InHand

\* Respond preserves the invariant.
LEMMA RespondKeeps ==
    ASSUME Inv, NEW n \in 0..MaxCalls, Respond(n)
    PROVE  Inv'
<1> DEFINE e == Assistant(next, n)
           q == [k \in 1..n |-> <<next, k>>]
<1>1. /\ Publish(<<e>>) /\ phase = "asking" /\ todo' = q
      /\ phase' = IF n = 0 THEN "idle" ELSE "tools"
      /\ conv' = <<>> /\ summary' = NoSummary /\ cache' = cache
  BY DEF Respond, Done
<1>2. /\ n \in Nat /\ next \in Nat /\ DOMAIN q = 1..n /\ Len(q) = n
      /\ next <= MaxEvents => q \in Seq(Call)
      /\ q # <<>> <=> n # 0
  <2>1. n \in Nat /\ n <= MaxCalls /\ next \in Nat /\ next \in 1..(MaxEvents + 1)
    BY BoundsAssumption DEF Inv, Typed
  <2>2. DOMAIN q = 1..n /\ Len(q) = n
    BY <2>1
  <2>3. q # <<>> <=> n # 0
    BY <2>1, <2>2
  <2>4. ASSUME next <= MaxEvents
        PROVE  q \in Seq(Call)
    <3>1. \A k \in 1..n : <<next, k>> \in Call
      BY <2>1, <2>4, BoundsAssumption DEF Call
    <3>2. q \in [1..n -> Call]
      BY <3>1
    <3> HIDE DEF q
    <3> QED
      BY <2>1, <3>2
  <2> QED
    BY <2>1, <2>2, <2>3, <2>4
<1>3. /\ next <= MaxEvents => e \in Event
      /\ e.id = next /\ ~Answers(e) /\ ~Sums(e) /\ e.calls = q
  BY <1>2, BoundsAssumption DEF Inv, Typed, Assistant, Event, Answers, Sums
<1>4. \A k \in DOMAIN e.calls : e.calls[k] = <<e.id, k>>
  BY <1>3
<1> HIDE DEF e
<1>5. /\ Sound(log', next', cache) /\ next' \in 1..(MaxEvents + 1)
      /\ next' = next + 1 /\ next <= MaxEvents
  BY <1>1, <1>3, <1>4, PlainSound
<1>6. \A k \in DOMAIN q : q[k][1] = next
  OBVIOUS
<1> HIDE DEF q
<1>7. Later'
  <2>1. cache.last < next
    BY DEF Inv, Sound
  <2>2. ASSUME NEW i \in DOMAIN log', Sums(log'[i])
        PROVE  log'[i].id < next
    <3>1. log' = log \o <<e>> /\ log \in Seq(Event) /\ <<e>> \in Seq(Event)
      BY <1>1, <1>3, <1>5 DEF Publish, Inv, Sound
    <3>2. CASE i \in DOMAIN log
      <4>1. log'[i] = log[i]
        BY <3>1, <3>2
      <4> QED
        BY <3>2, <4>1 DEF Inv, Sound, Fresh
    <3>3. CASE i \notin DOMAIN log
      <4>1. log'[i] = e
        BY <3>1, <3>3
      <4> QED
        BY <1>3, <2>2, <4>1
    <3> QED
      BY <3>2, <3>3
  <2> QED
    BY <1>1, <1>2, <1>5, <1>6, <2>1, <2>2 DEF Later
<1>8. Typed'
  <2>1. <<>> \in Seq(Message) /\ NoSummary \in Summary
    BY DEF NoSummary, Summary
  <2> QED
    BY <1>1, <1>2, <1>5, <2>1 DEF Typed
<1> QED
  BY <1>1, <1>5, <1>7, <1>8 DEF Inv, InHand

\* Publishing results of calls that wait.
LEMMA ResultsSound ==
    ASSUME Inv, NEW new \in Seq(Event), Publish(new),
           \A i \in DOMAIN new :
              /\ Answers(new[i]) /\ new[i].id = next + i - 1
              /\ \E k \in DOMAIN todo : new[i].call = todo[k]
    PROVE  /\ Sound(log', next', cache)
           /\ next' \in 1..(MaxEvents + 1) /\ next' = next + Len(new)
<1>1. \A i \in DOMAIN new : ~Asks(new[i]) /\ ~Sums(new[i])
  BY DEF Answers, Asks, Sums
<1>2. ASSUME NEW i \in DOMAIN new
      PROVE  /\ new[i].call[1] < next /\ new[i].call[1] > cache.last
             /\ \A j \in DOMAIN log : Sums(log[j]) => new[i].call[1] > log[j].id
  <2>1. PICK k \in DOMAIN todo : new[i].call = todo[k]
    BY <1>2
  <2> QED
    BY <2>1 DEF Inv, Later
<1>3. Named(new, next)
  BY <1>1, <1>2 DEF Named
<1>4. /\ AnswersSince(new, cache.last) /\ AnswersSinceSummaries(new, log)
      /\ SumsUpLater(new, log', Len(log))
  BY <1>1, <1>2 DEF AnswersSince, AnswersSinceSummaries, SumsUpLater
<1> QED
  BY <1>3, <1>4, PublishedSound

\* No summary of a log that grows by results is new.
LEMMA SummariesStay ==
    ASSUME NEW new \in Seq(Event), log \in Seq(Event), log' = log \o new,
           \A i \in DOMAIN new : ~Sums(new[i])
    PROVE  \A i \in DOMAIN log' : Sums(log'[i]) => i \in DOMAIN log /\ log'[i] = log[i]
<1> SUFFICES ASSUME NEW i \in DOMAIN log', Sums(log'[i])
             PROVE  i \in DOMAIN log /\ log'[i] = log[i]
  OBVIOUS
<1>1. /\ i \in 1..(Len(log) + Len(new)) /\ Len(log) \in Nat /\ Len(new) \in Nat
      /\ DOMAIN new = 1..Len(new) /\ DOMAIN log = 1..Len(log)
      /\ log'[i] = IF i <= Len(log) THEN log[i] ELSE new[i - Len(log)]
  OBVIOUS
<1>2. i <= Len(log)
  <2>1. ~(i <= Len(log)) => i - Len(log) \in DOMAIN new
    BY <1>1
  <2> QED
    BY <1>1, <2>1
<1> QED
  BY <1>1, <1>2

\* Answer preserves the invariant.
LEMMA AnswerKeeps ==
    ASSUME Inv, NEW image \in Images, Answer(image)
    PROVE  Inv'
<1> DEFINE e == Result(next, Head(todo), image)
           new == <<e>>
<1>1. /\ phase = "tools" /\ Publish(new) /\ todo' = Tail(todo)
      /\ phase' = IF Len(todo) = 1 THEN "step" ELSE "tools"
      /\ UNCHANGED <<cache, cleared, conv, summary>>
  BY DEF Answer
<1>2. /\ todo \in Seq(Call) /\ todo # <<>> /\ Len(todo) \in Nat \ {0}
      /\ DOMAIN todo = 1..Len(todo)
  BY <1>1, EmptySeq DEF Inv, Typed
<1>3. /\ Head(todo) \in Call /\ 1 \in DOMAIN todo /\ Head(todo) = todo[1]
      /\ Tail(todo) \in Seq(Call) /\ Len(Tail(todo)) = Len(todo) - 1
      /\ \A k \in DOMAIN Tail(todo) : k + 1 \in DOMAIN todo /\ Tail(todo)[k] = todo[k + 1]
  BY <1>2
<1>4. Len(new) = 1 /\ DOMAIN new = {1} /\ new[1] = e
  OBVIOUS
<1>5. next <= MaxEvents /\ next \in 1..(MaxEvents + 1)
  <2>1. Room(1)
    BY <1>1, <1>4 DEF Publish
  <2> QED
    BY <2>1, BoundsAssumption DEF Room, Inv, Typed
<1>6. e \in Event /\ Answers(e) /\ e.id = next /\ e.call = todo[1] /\ ~Sums(e)
  <2>1. image \in BOOLEAN
    BY BoundsAssumption
  <2> QED
    BY <1>3, <1>5, <2>1, BoundsAssumption DEF Result, Event, Answers, Sums
<1>7. new \in Seq(Event)
  BY <1>6
<1> HIDE DEF e, new
<1>8. \A i \in DOMAIN new :
        /\ Answers(new[i]) /\ ~Sums(new[i]) /\ new[i].id = next + i - 1
        /\ \E k \in DOMAIN todo : new[i].call = todo[k]
  BY <1>3, <1>4, <1>5, <1>6
<1>9. /\ Sound(log', next', cache)
      /\ next' \in 1..(MaxEvents + 1) /\ next' = next + 1
  BY <1>1, <1>4, <1>7, <1>8, ResultsSound
<1>10. \A i \in DOMAIN log' : Sums(log'[i]) => i \in DOMAIN log /\ log'[i] = log[i]
  <2>1. log \in Seq(Event) /\ log' = log \o new
    BY <1>1 DEF Inv, Sound, Publish
  <2> QED
    BY <1>7, <1>8, <2>1, SummariesStay
<1>11. Later'
  <2>1. ASSUME NEW k \in DOMAIN todo'
        PROVE  /\ todo'[k][1] < next' /\ todo'[k][1] > cache'.last
               /\ \A i \in DOMAIN log' : Sums(log'[i]) => todo'[k][1] > log'[i].id
    <3>1. k + 1 \in DOMAIN todo /\ todo'[k] = todo[k + 1]
      BY <1>1, <1>3, <2>1
    <3>2. /\ todo[k + 1][1] < next /\ todo[k + 1][1] > cache.last
          /\ \A i \in DOMAIN log : Sums(log[i]) => todo[k + 1][1] > log[i].id
      BY <3>1 DEF Inv, Later
    <3>3. todo[k + 1] \in Call /\ todo[k + 1][1] \in Nat
      BY <1>2, <3>1 DEF Call
    <3> QED
      BY <1>1, <1>5, <1>9, <1>10, <3>1, <3>2, <3>3
  <2> QED
    BY <2>1 DEF Later
<1>12. Typed'
  <2>1. Tail(todo) # <<>> <=> Len(todo) # 1
    <3>1. PICK t \in Seq(Call) : t = Tail(todo)
      BY <1>3
    <3>2. t = <<>> <=> Len(t) = 0
      OBVIOUS
    <3>3. Len(t) = Len(todo) - 1
      BY <1>3, <3>1
    <3> QED
      BY <1>2, <3>1, <3>2, <3>3
  <2> QED
    BY <1>1, <1>2, <1>3, <1>9, <2>1 DEF Inv, Typed
<1>13. InHand'
  BY <1>1 DEF InHand
<1> QED
  BY <1>1, <1>9, <1>11, <1>12, <1>13 DEF Inv

\* A repair gives each call that waits a result, in the order of the calls.
LEMMA ReconciledIs ==
    ASSUME Inv, Publish(Reconciled)
    PROVE  /\ Reconciled \in Seq(Event)
           /\ ~repairs => Reconciled = <<>>
           /\ repairs =>
                 /\ DOMAIN Reconciled = DOMAIN todo
                 /\ \A k \in DOMAIN todo :
                       /\ Answers(Reconciled[k]) /\ ~Reconciled[k].image
                       /\ Reconciled[k].id = next + k - 1 /\ Reconciled[k].call = todo[k]
<1> DEFINE new == Reconciled
<1>1. CASE repairs
  <2>1. new = [k \in DOMAIN todo |-> Result(next + k - 1, todo[k], FALSE)]
    BY <1>1 DEF Reconciled
  <2>2. /\ todo \in Seq(Call) /\ Len(todo) \in Nat /\ DOMAIN todo = 1..Len(todo)
        /\ \A k \in DOMAIN todo : todo[k] \in Call
    BY DEF Inv, Typed
  <2>3. DOMAIN new = 1..Len(todo) /\ Len(new) = Len(todo)
    BY <2>1, <2>2
  <2>4. next + Len(todo) - 1 <= MaxEvents /\ next \in Nat \ {0}
    BY <2>3, BoundsAssumption DEF Publish, Room, Inv, Typed
  <2>5. ASSUME NEW k \in 1..Len(todo)
        PROVE  /\ new[k] \in Event /\ Answers(new[k]) /\ new[k].id = next + k - 1
               /\ new[k].call = todo[k] /\ ~new[k].image
    <3>1. next + k - 1 \in 1..MaxEvents
      BY <2>2, <2>4, BoundsAssumption
    <3>2. new[k] = Result(next + k - 1, todo[k], FALSE) /\ todo[k] \in Call
      BY <2>1, <2>2
    <3> QED
      BY <3>1, <3>2 DEF Result, Event, Answers
  <2> HIDE DEF new
  <2>6. new \in Seq(Event)
    <3>1. new \in [1..Len(todo) -> Event]
      BY <2>1, <2>2, <2>5
    <3> QED
      BY <2>2, <3>1
  <2> QED
    BY <1>1, <2>2, <2>3, <2>5, <2>6 DEF new
<1>2. CASE ~repairs
  BY <1>2 DEF Reconciled
<1> QED
  BY <1>1, <1>2

\* A repair publishes what may be published.
LEMMA ReconciledSound ==
    ASSUME Inv, Publish(Reconciled)
    PROVE  Sound(log', next', cache) /\ next' \in 1..(MaxEvents + 1)
<1> DEFINE new == Reconciled
<1>1. new \in Seq(Event) /\ Publish(new)
  BY ReconciledIs
<1>2. \A k \in DOMAIN new : /\ Answers(new[k]) /\ new[k].id = next + k - 1
                            /\ \E l \in DOMAIN todo : new[k].call = todo[l]
  <2>1. CASE repairs
    BY <2>1, ReconciledIs
  <2>2. CASE ~repairs
    <3>1. new = <<>> /\ DOMAIN <<>> = {}
      BY <2>2, ReconciledIs
    <3> QED
      BY <3>1
  <2> QED
    BY <2>1, <2>2
<1> HIDE DEF new
<1> QED
  BY <1>1, <1>2, ResultsSound

\* Drop preserves the invariant.
LEMMA DropKeeps ==
    ASSUME Inv, Drop
    PROVE  Inv'
<1>1. /\ Publish(Reconciled) /\ todo' = <<>> /\ phase' = "idle" /\ conv' = <<>>
      /\ summary' = NoSummary /\ cache' = cache
  BY DEF Drop, Done
<1>2. Sound(log', next', cache') /\ next' \in 1..(MaxEvents + 1)
  BY <1>1, ReconciledSound
<1>3. <<>> \in Seq(Call) /\ <<>> \in Seq(Message) /\ NoSummary \in Summary
  BY DEF NoSummary, Summary
<1> QED
  BY <1>1, <1>2, <1>3 DEF Inv, Typed, Later, InHand

\* Restart preserves the invariant.
LEMMA RestartKeeps ==
    ASSUME Inv, Restart
    PROVE  Inv'
<1>1. /\ Publish(Reconciled) /\ todo' = <<>> /\ phase' = "idle" /\ conv' = <<>>
      /\ summary' = NoSummary /\ cache' = NoCache
  BY DEF Restart, Done
<1>2. Sound(log', next', cache') /\ next' \in 1..(MaxEvents + 1)
  BY <1>1, ReconciledSound, NoCacheSound
<1>3. <<>> \in Seq(Call) /\ <<>> \in Seq(Message) /\ NoSummary \in Summary
  BY DEF NoSummary, Summary
<1> QED
  BY <1>1, <1>2, <1>3 DEF Inv, Typed, Later, InHand

\* Rewind preserves the invariant.
LEMMA RewindKeeps ==
    ASSUME Inv, NEW pos \in DOMAIN log, Rewind(pos)
    PROVE  Inv'
<1> DEFINE e == Tombstone(next)
           new == <<e>>
<1>1. /\ phase = "idle" /\ Room(1) /\ next' = next + 1
      /\ log' = Append(SubSeq(log, 1, pos - 1), e)
      /\ UNCHANGED <<repairs, phase, todo, cache, cleared, conv, summary>>
  BY DEF Rewind
<1>2. next <= MaxEvents /\ next \in 1..(MaxEvents + 1)
  BY <1>1, BoundsAssumption DEF Room, Inv, Typed
<1>3. e \in Event /\ ~Answers(e) /\ ~Sums(e) /\ ~Asks(e) /\ e.id = next
  BY <1>2, BoundsAssumption DEF Tombstone, Event, Answers, Sums, Asks
<1>4. log \in Seq(Event) /\ pos - 1 \in 0..Len(log)
  BY DEF Inv, Sound
<1>5. SubSeq(log, 1, pos - 1) \in Seq(Event)
  BY <1>4, Parts
<1>6. Len(new) = 1 /\ DOMAIN new = {1} /\ new[1] = e /\ new \in Seq(Event)
  BY <1>3
<1>7. log' = SubSeq(log, 1, pos - 1) \o new
  <2> HIDE DEF e
  <2> QED
    BY <1>1, <1>3, <1>5, AppendIsConcat
<1> HIDE DEF e, new
<1>8. Named(new, next)
  BY <1>2, <1>3, <1>6 DEF Named
<1>9. /\ AnswersSince(new, cache.last) /\ AnswersSinceSummaries(new, log)
      /\ SumsUpLater(new, log', pos - 1)
  BY <1>3, <1>6 DEF AnswersSince, AnswersSinceSummaries, SumsUpLater
<1>10. Sound(log', next + Len(new), cache)
  <2>1. Sound(log, next, cache)
    BY DEF Inv
  <2> QED
    BY <1>4, <1>6, <1>7, <1>8, <1>9, <2>1, SoundGrows
<1>11. todo = <<>> /\ DOMAIN todo = {}
  BY <1>1, NoneLeft DEF Inv
<1>12. next' \in 1..(MaxEvents + 1)
  BY <1>1, <1>2, BoundsAssumption
<1> QED
  BY <1>1, <1>6, <1>10, <1>11, <1>12 DEF Inv, Typed, Later, InHand

-----------------------------------------------------------------------------
(* Assembling and folding.                                                 *)

\* build_with_cache renders the log, whatever the cache holds.
LEMMA BuildIsRender ==
    ASSUME NEW events, NEW now, NEW c, Sound(events, now, c)
    PROVE  BuildWithCache(c, events) = Render(events)
<1>1. CASE Extends(c, events)
  <2>1. events \in Seq(Event) /\ c \in Cache /\ Ordered(events) /\ Cached(c, events)
    BY DEF Sound
  <2>2. c.count \in 1..Len(events) /\ events[c.count].id = c.last
    BY <1>1, <2>1 DEF Extends, Cache
  <2>3. ClosedAt(events, c.last) /\ c.messages = Render(SubSeq(events, 1, c.count))
    BY <1>1, <2>1 DEF Cached
  <2>4. ClosedAt(events, events[c.count].id)
    BY <2>2, <2>3
  <2>5. Render(events)
          = Render(SubSeq(events, 1, c.count)) \o Render(SubSeq(events, c.count + 1, Len(events)))
    BY <2>1, <2>2, <2>4, Splits
  <2> QED
    BY <1>1, <2>3, <2>5 DEF BuildWithCache
<1>2. CASE ~Extends(c, events)
  BY <1>2 DEF BuildWithCache
<1> QED
  BY <1>1, <1>2

\* The newest summary of a sound log stands for the head of all of it.
LEMMA NewestSumsUp ==
    ASSUME NEW events, NEW now, NEW c, Sound(events, now, c)
    PROVE  /\ SummaryFromLog(events) \in Summary
           /\ SumsUp(Render(events), SummaryFromLog(events))
<1> DEFINE at == {i \in DOMAIN events : events[i].kind = "agent.context.summarized"}
<1>1. events \in Seq(Event) /\ Ordered(events) /\ Folded(events)
  BY DEF Sound
<1>2. /\ DOMAIN events = 1..Len(events) /\ Len(events) \in Nat
      /\ \A i \in DOMAIN events : events[i] \in Event
  BY <1>1
<1>3. Render(events) \in Seq(Message)
  BY <1>1, RenderType
<1>4. CASE at = {}
  <2>1. SummaryFromLog(events) = NoSummary
    BY <1>4 DEF SummaryFromLog
  <2>2. NoSummary \in Summary /\ NoSummary.count = 0 /\ NoSummary.folded = <<>>
    BY DEF NoSummary, Summary
  <2>3. SubSeq(Render(events), 1, 0) = <<>>
    BY SubSeqEmpty
  <2>4. 0 \in 0..Len(Render(events))
    BY <1>3
  <2> QED
    BY <2>1, <2>2, <2>3, <2>4 DEF SumsUp
<1>5. CASE at # {}
  <2> DEFINE i == Max(at)
  <2>1. i \in at
    <3>1. at \in SUBSET (0..Len(events))
      BY <1>2
    <3> HIDE DEF at
    <3> QED
      BY <1>2, <1>5, <3>1, MaxOf
  <2>2. SummaryFromLog(events) = events[i].summary
    BY <1>5 DEF SummaryFromLog
  <2>3. i \in DOMAIN events /\ Sums(events[i]) /\ i \in 1..Len(events)
    BY <1>2, <2>1 DEF Sums
  <2> HIDE DEF i
  <2>4. events[i].summary \in Summary
    BY <1>2, <2>3, EventTyped
  <2>5. /\ ClosedAt(events, events[i].id)
        /\ SumsUp(Render(SubSeq(events, 1, i)), events[i].summary)
    BY <1>1, <2>3 DEF Folded
  <2>6. Render(events)
          = Render(SubSeq(events, 1, i)) \o Render(SubSeq(events, i + 1, Len(events)))
    BY <1>1, <2>3, <2>5, Splits
  <2>7. SubSeq(events, 1, i) \in Seq(Event) /\ SubSeq(events, i + 1, Len(events)) \in Seq(Event)
    <3>1. i \in 0..Len(events)
      BY <2>3
    <3> QED
      BY <1>1, <3>1, Parts
  <2>8. /\ Render(SubSeq(events, 1, i)) \in Seq(Message)
        /\ Render(SubSeq(events, i + 1, Len(events))) \in Seq(Message)
    BY <2>7, RenderType
  <2>9. SumsUp(Render(events), events[i].summary)
    BY <2>4, <2>5, <2>6, <2>8, SumsUpGrows
  <2> QED
    BY <2>2, <2>4, <2>9
<1> QED
  BY <1>4, <1>5

\* A cache of a sound log is sound.
LEMMA NewCacheSound ==
    ASSUME NEW events, NEW now, NEW c, Sound(events, now, c)
    PROVE  Sound(events, now, CacheOf(events, Render(events)))
<1>1. /\ events \in Seq(Event) /\ Ordered(events) /\ Fresh(events, now)
      /\ DOMAIN events = 1..Len(events) /\ Len(events) \in Nat
      /\ \A i \in DOMAIN events : events[i] \in Event
  BY DEF Sound
<1>2. CASE events = <<>>
  BY <1>2, NoCacheSound DEF CacheOf
<1>3. CASE events # <<>>
  <2> DEFINE d == CacheOf(events, Render(events))
             L == Len(events)
  <2>1. L \in DOMAIN events /\ Last(events) = events[L]
    BY <1>1, <1>3, EmptySeq DEF Last
  <2>2. d = [last |-> events[L].id, count |-> L, messages |-> Render(events)]
    BY <1>3, <2>1 DEF CacheOf
  <2>3. events[L].id \in Nat /\ events[L].id < now
    BY <1>1, <2>1, EventTyped DEF Fresh
  <2>4. d \in Cache
    BY <1>1, <2>2, <2>3, RenderType DEF Cache
  <2>5. ClosedAt(events, events[L].id)
    <3> SUFFICES ASSUME NEW j \in DOMAIN events, events[j].id > events[L].id
                 PROVE  FALSE
      BY DEF ClosedAt
    <3>1. j = L \/ j < L
      BY <1>1
    <3>2. events[j].id \in Nat
      BY <1>1, EventTyped
    <3>3. j < L => events[j].id < events[L].id
      BY <1>1, <2>1 DEF Ordered
    <3> QED
      BY <2>3, <3>1, <3>2, <3>3
  <2>6. SubSeq(events, 1, L) = events
    BY <1>1, SubSeqFull
  <2>7. Cached(d, events)
    <3>1. d.last = events[L].id /\ d.count = L /\ d.messages = Render(events)
      BY <2>2
    <3> HIDE DEF d, L
    <3> QED
      BY <2>5, <2>6, <3>1 DEF Cached
  <2> HIDE DEF d
  <2>8. d.last < now
    BY <2>2, <2>3
  <2>9. Sound(events, now, d)
    BY <2>4, <2>7, <2>8 DEF Sound
  <2> QED
    BY <2>9 DEF d
<1> QED
  BY <1>2, <1>3

\* Assemble preserves the invariant.
LEMMA AssembleKeeps ==
    ASSUME Inv, Assemble
    PROVE  Inv'
<1>1. /\ phase = "step" /\ phase' = "fitting"
      /\ cache' = CacheOf(log, BuildWithCache(cache, log))
      /\ conv' = BuildWithCache(cache, log)
      /\ summary' = SummaryFromLog(log)
      /\ UNCHANGED <<repairs, log, next, todo>>
  BY DEF Assemble
<1>2. Sound(log, next, cache)
  BY DEF Inv
<1>3. BuildWithCache(cache, log) = Render(log)
  BY <1>2, BuildIsRender
<1>4. Sound(log, next, cache')
  BY <1>1, <1>2, <1>3, NewCacheSound
<1>5. summary' \in Summary /\ SumsUp(Render(log), summary')
  BY <1>1, <1>2, NewestSumsUp
<1>6. Render(log) \in Seq(Message)
  BY <1>2, RenderType DEF Sound
<1>7. todo = <<>> /\ DOMAIN todo = {}
  BY <1>1, NoneLeft DEF Inv
<1>8. cache'.count = Len(log) /\ log \in Seq(Event)
  <2>1. log \in Seq(Event)
    BY <1>2 DEF Sound
  <2>2. log = <<>> => Len(log) = 0
    OBVIOUS
  <2> QED
    BY <1>1, <2>1, <2>2 DEF CacheOf, NoCache
<1>9. /\ cache'.count \in 0..Len(log) /\ SubSeq(log, 1, cache'.count) = log
      /\ Since(log, cache'.count)
  <2>1. PICK n \in Nat : n = Len(log)
    BY <1>8
  <2>2. (n + 1)..Len(log) = {}
    BY <2>1
  <2> QED
    BY <1>8, <2>1, <2>2, SubSeqFull DEF Since
<1> QED
  BY <1>1, <1>3, <1>4, <1>5, <1>6, <1>7, <1>9 DEF Inv, Typed, Later, InHand

\* The newest message is never folded.
LEMMA CeilingBelow ==
    ASSUME NEW ms \in Seq(Message)
    PROVE  Ceiling(ms) \in Int /\ Ceiling(ms) < Len(ms)
<1> DEFINE T == {KeepMessages, 1}
<1>1. KeepMessages \in Nat
  BY BoundsAssumption
<1>2. \E x \in T : \A y \in T : x >= y
  BY <1>1
<1>3. Max(T) \in T /\ Max(T) >= 1
  BY <1>2 DEF Max
<1> HIDE DEF T
<1>4. Max(T) \in Nat
  BY <1>1, <1>3 DEF T
<1>5. Ceiling(ms) = Len(ms) - Max(T) /\ Len(ms) \in Nat
  BY DEF Ceiling, T
<1> QED
  BY <1>3, <1>4, <1>5

\* A summary is not a message.
LEMMA NothingRendered ==
    ASSUME NEW e \in Event, Sums(e)
    PROVE  Render(<<e>>) = <<>>
<1>1. <<e>> \in Seq(Event) /\ Len(<<e>>) = 1 /\ DOMAIN <<e>> = {1} /\ <<e>>[1] = e
  OBVIOUS
<1>2. MessagesOf(e) = <<>>
  BY DEF Sums, MessagesOf, MessageKinds
<1>3. Range(Raw(<<e>>)) = {}
  <2>1. Raw(<<e>>) = Each(Rendered, <<e>>)
    BY <1>1, RawIs
  <2>2. Range(Each(Rendered, <<e>>)) = UNION {Range(Rendered[x]) : x \in Range(<<e>>)}
    <3>1. PICK s \in Seq(Event) : s = <<e>>
      BY <1>1
    <3>2. Range(Each(Rendered, s)) = UNION {Range(Rendered[x]) : x \in Range(s)}
      BY RenderedType, EachElements
    <3> QED
      BY <3>1, <3>2
  <2>3. Range(<<e>>) = {e} /\ Range(<<>>) = {}
    BY DEF Range
  <2>4. Rendered[e] = <<>>
    BY <1>2 DEF Rendered
  <2> QED
    BY <2>1, <2>2, <2>3, <2>4
<1>4. Raw(<<e>>) = <<>>
  <2>1. Raw(<<e>>) \in Seq(Message)
    BY <1>1, RawIs
  <2>2. DOMAIN Raw(<<e>>) = {}
    BY <1>3 DEF Range
  <2> QED
    BY <2>1, <2>2, EmptySeq
<1>5. Repair(<<>>) = <<>>
  <2>1. DOMAIN <<>> = {} /\ Len(<<>>) = 0
    OBVIOUS
  <2>2. [i \in DOMAIN <<>> |-> Patched(<<>>[i], AnsweredIn(<<>>))] = <<>>
    BY <2>1
  <2> QED
    BY <2>1, <2>2 DEF Repair, FlattenSeq
<1> QED
  BY <1>4, <1>5 DEF Render

\* Fold preserves the invariant.
LEMMA FoldKeeps ==
    ASSUME Inv, NEW raw \in summary.count..Ceiling(conv), Fold(raw)
    PROVE  Inv'
<1> DEFINE cutoff == ChooseCutoff(conv, summary.count, raw)
           e == Summarized(next, summary')
           new == <<e>>
<1>1. /\ phase = "fitting" /\ Ceiling(conv) > summary.count /\ cutoff > summary.count
      /\ summary' = [count |-> cutoff,
                     folded |-> summary.folded \o SubSeq(conv, summary.count + 1, cutoff)]
      /\ Publish(new)
      /\ UNCHANGED <<phase, todo, cache, cleared, conv>>
  BY DEF Fold
<1>2. /\ conv = Render(SubSeq(log, 1, cache.count)) /\ SumsUp(conv, summary)
      /\ cache.count \in 0..Len(log) /\ Since(log, cache.count) /\ conv \in Seq(Message)
      /\ summary \in Summary /\ summary.count \in Nat /\ log \in Seq(Event)
      /\ Sound(log, next, cache)
  BY <1>1 DEF Inv, InHand, Typed, Summary, Sound
<1>3. /\ cutoff \in summary.count..Ceiling(conv)
      /\ cutoff # summary.count => StartsClean(conv, cutoff)
  BY <1>1, <1>2, CutIsClean
<1> HIDE DEF cutoff
<1>4. /\ cutoff \in Nat /\ cutoff < Len(conv) /\ StartsClean(conv, cutoff)
      /\ Len(conv) \in Nat
  BY <1>1, <1>2, <1>3, CeilingBelow
<1>5. summary'.folded = SubSeq(conv, 1, cutoff)
  <2>1. summary.folded = SubSeq(conv, 1, summary.count)
    BY <1>2 DEF SumsUp
  <2>2. /\ 1 \in 1..(Len(conv) + 1) /\ summary.count \in (1 - 1)..Len(conv)
        /\ cutoff \in summary.count..Len(conv)
    BY <1>1, <1>2, <1>4
  <2>3. SubSeq(conv, 1, summary.count) \o SubSeq(conv, summary.count + 1, cutoff)
          = SubSeq(conv, 1, cutoff)
    BY <1>2, <2>2, ConcatAdjacentSubSeq
  <2> QED
    BY <1>1, <2>1, <2>3
<1>6. SumsUp(conv, summary') /\ summary' \in Summary
  <2>1. summary'.count = cutoff
    BY <1>1
  <2>2. cutoff \in 0..Len(conv)
    BY <1>4
  <2>3. SubSeq(conv, 1, cutoff) \in Seq(Message)
    BY <1>2, <2>2, Parts
  <2>4. summary' \in Summary
    BY <1>1, <1>4, <1>5, <2>3 DEF Summary
  <2> QED
    BY <1>4, <1>5, <2>1, <2>2, <2>4 DEF SumsUp
<1>7. Len(new) = 1 /\ DOMAIN new = {1} /\ new[1] = e
  OBVIOUS
<1>8. next <= MaxEvents /\ next \in 1..(MaxEvents + 1) /\ next' = next + 1
  BY <1>1, <1>7, BoundsAssumption DEF Publish, Room, Inv, Typed
<1>9. e \in Event /\ Sums(e) /\ ~Asks(e) /\ ~Answers(e) /\ e.id = next /\ e.summary = summary'
  BY <1>6, <1>8, BoundsAssumption DEF Summarized, Event, Sums, Asks, Answers
<1>10. new \in Seq(Event) /\ log' = log \o new
  BY <1>1, <1>9 DEF Publish
<1>11. /\ cache.count \in 0..Len(log') /\ log' \in Seq(Event)
       /\ SubSeq(log', 1, cache.count) = SubSeq(log, 1, cache.count)
       /\ Since(log', cache.count)
       /\ \E more \in Seq(Message) : Render(log') = conv \o more
  <2>1. e.kind = "agent.context.summarized" /\ log' = log \o <<e>>
    BY <1>10 DEF Summarized
  <2>2. PICK x : x = e
    OBVIOUS
  <2>3. PICK n : n = cache.count
    OBVIOUS
  <2>4. /\ n \in 0..Len(log) /\ Since(log, n) /\ x \in Event /\ log' = log \o <<x>>
        /\ x.kind \in Asides \cup {"agent.context.summarized"}
    BY <1>2, <1>9, <2>1, <2>2, <2>3
  <2> HIDE DEF e, new
  <2>5. /\ n \in 0..Len(log') /\ log' \in Seq(Event)
        /\ SubSeq(log', 1, n) = SubSeq(log, 1, n) /\ Since(log', n)
    BY <1>2, <2>4, SinceGrows
  <2>6. \E more \in Seq(Message) : Render(log') = Render(SubSeq(log', 1, n)) \o more
    BY <2>5, SinceRendered
  <2> QED
    BY <1>2, <2>3, <2>5, <2>6
<1> HIDE DEF e, new
<1>12. Named(new, next)
  BY <1>7, <1>8, <1>9 DEF Named
<1>13. AnswersSince(new, cache.last) /\ AnswersSinceSummaries(new, log)
  BY <1>7, <1>9 DEF AnswersSince, AnswersSinceSummaries
<1>14. SumsUpLater(new, log', Len(log))
  <2>5. PICK more \in Seq(Message) : Render(log') = conv \o more
    BY <1>11
  <2>6. SumsUp(Render(log'), summary')
    BY <1>2, <1>6, <2>5, SumsUpGrows
  <2>1. log' \in Seq(Event) /\ Len(log') = Len(log) + 1
    <3>1. PICK x \in Seq(Event) : x = log
      BY <1>2
    <3>2. PICK y \in Seq(Event) : y = new
      BY <1>10
    <3>3. x \o y \in Seq(Event) /\ Len(x \o y) = Len(x) + Len(y)
      BY ConcatProperties
    <3> QED
      BY <1>7, <1>10, <3>1, <3>2, <3>3
  <2>2. SubSeq(log', 1, Len(log) + 1) = log'
    BY <2>1, SubSeqFull
  <2>3. Fresh(log', next + 1)
    <3>1. Len(log) \in 0..Len(log) /\ log' = SubSeq(log, 1, Len(log)) \o new
      <4>1. log \in Seq(Event)
        BY <1>2
      <4>2. SubSeq(log, 1, Len(log)) = log
        BY <4>1, SubSeqFull
      <4>3. Len(log) \in Nat
        BY <4>1
      <4>4. Len(log) \in 0..Len(log)
        BY <4>3
      <4>5. log' = SubSeq(log, 1, Len(log)) \o new
        BY <1>10, <4>2
      <4> QED
        BY <4>4, <4>5
    <3>2. Ordered(log) /\ Fresh(log, next) /\ next \in Nat
      <4>1. Sound(log, next, cache)
        BY <1>2
      <4> QED
        BY <4>1 DEF Sound
    <3>3. log \in Seq(Event) /\ new \in Seq(Event)
      BY <1>2, <1>10
    <3>4. Fresh(log', next + Len(new))
      BY <1>12, <3>1, <3>2, <3>3, Grows
    <3> QED
      BY <1>7, <3>4
  <2>4. ClosedAt(log', next)
    <3>1. \A j \in DOMAIN log' : log'[j].id < next + 1 /\ log'[j].id \in Nat
      BY <2>1, <2>3, EventTyped DEF Fresh
    <3> QED
      BY <1>8, <3>1 DEF ClosedAt
  <2> QED
    BY <1>7, <1>9, <2>2, <2>4, <2>6 DEF SumsUpLater
<1>15. Sound(log', next', cache) /\ next' \in 1..(MaxEvents + 1)
  BY <1>1, <1>10, <1>12, <1>13, <1>14, PublishedSound
<1>16. todo = <<>> /\ DOMAIN todo = {}
  BY <1>1, NoneLeft DEF Inv
<1>17. InHand'
  BY <1>1, <1>2, <1>6, <1>11 DEF InHand
<1> QED
  BY <1>1, <1>2, <1>6, <1>15, <1>16, <1>17 DEF Inv, Typed, Later

-----------------------------------------------------------------------------

\* The invariant holds at the start.
LEMMA InitInv == Init => Inv
<1> SUFFICES ASSUME Init
             PROVE  Inv
  OBVIOUS
<1>1. /\ log = <<>> /\ next = 1 /\ phase = "idle" /\ todo = <<>> /\ cache = NoCache
      /\ conv = <<>> /\ summary = NoSummary
  BY DEF Init
<1>2. <<>> \in Seq(Call) /\ <<>> \in Seq(Message) /\ <<>> \in Seq(Event) /\ DOMAIN <<>> = {}
  OBVIOUS
<1>3. NoSummary \in Summary /\ NoCache \in Cache /\ NoCache.count = 0 /\ NoCache.last = 0
  BY <1>2 DEF NoSummary, Summary, NoCache, Cache
<1>4. Ordered(<<>>) /\ Fresh(<<>>, 1) /\ Folded(<<>>)
  BY <1>2 DEF Ordered, Fresh, Folded
<1>5. Cached(NoCache, <<>>)
  BY <1>3 DEF Cached, Extends
<1>6. Sound(log, next, cache)
  BY <1>1, <1>2, <1>3, <1>4, <1>5 DEF Sound
<1>7. 1 \in 1..(MaxEvents + 1)
  BY BoundsAssumption
<1> QED
  BY <1>1, <1>2, <1>3, <1>6, <1>7 DEF Inv, Typed, Later, InHand

\* Every step preserves the invariant.
LEMMA NextInv == Inv /\ [Next]_vars => Inv'
<1> SUFFICES ASSUME Inv, [Next]_vars
             PROVE  Inv'
  OBVIOUS
<1>1. CASE Prompt
  BY <1>1, PromptKeeps
<1>2. CASE Assemble
  BY <1>2, AssembleKeeps
<1>3. ASSUME NEW raw \in summary.count..Ceiling(conv), Fold(raw)
      PROVE  Inv'
  BY <1>3, FoldKeeps
<1>4. CASE Send
  BY <1>4, SendKeeps
<1>5. ASSUME NEW n \in 0..MaxCalls, Respond(n)
      PROVE  Inv'
  BY <1>5, RespondKeeps
<1>6. ASSUME NEW image \in Images, Answer(image)
      PROVE  Inv'
  BY <1>6, AnswerKeeps
<1>7. CASE Drop
  BY <1>7, DropKeeps
<1>8. CASE Restart
  BY <1>8, RestartKeeps
<1>9. ASSUME NEW pos \in DOMAIN log, Rewind(pos)
      PROVE  Inv'
  BY <1>9, RewindKeeps
<1>10. ASSUME NEW kind \in Asides, Hear(kind)
       PROVE  Inv'
  BY <1>10, HearKeeps
<1>11. CASE UNCHANGED vars
  BY <1>11 DEF vars, Inv, Typed, Later, InHand
<1> QED
  BY <1>1, <1>2, <1>3, <1>4, <1>5, <1>6, <1>7, <1>8, <1>9, <1>10, <1>11 DEF Next

\* The rendering that is cached is that of the head of the log whenever it is
\* used, and each summary stands for the head of the conversation.
THEOREM ContextInvariant == Spec => []Inv
<1> QED
  BY InitInv, NextInv, PTL DEF Spec

\* Whatever is cancelled, interrupted, restarted, rewound, folded or said elsewhere,
\* the request and what was folded before it are the whole conversation of the log
\* as it was assembled, in order, and only what was said elsewhere is younger.
THEOREM AllIsShown == Spec => []NothingSkipped
<1>1. Inv => NothingSkipped
  <2> SUFFICES ASSUME Inv, phase = "asking"
               PROVE  /\ summary.folded \o Request = Render(SubSeq(log, 1, cache.count))
                      /\ Since(log, cache.count)
    BY DEF NothingSkipped, Since
  <2>1. /\ conv = Render(SubSeq(log, 1, cache.count)) /\ Since(log, cache.count)
        /\ SumsUp(conv, summary) /\ conv \in Seq(Message)
    BY DEF Inv, InHand, Typed
  <2>2. summary.count \in 0..Len(conv) /\ summary.folded = SubSeq(conv, 1, summary.count)
    BY <2>1 DEF SumsUp
  <2>3. SubSeq(conv, 1, summary.count) \o SubSeq(conv, summary.count + 1, Len(conv)) = conv
    BY <2>1, <2>2, Parts
  <2> QED
    BY <2>1, <2>2, <2>3 DEF Request, Tail1
<1> QED
  BY <1>1, ContextInvariant, PTL

-----------------------------------------------------------------------------
(* Places.                                                                 *)

\* Where each part of a flattened sequence begins.
Places(off, s, all) ==
    /\ off \in [1..(Len(s) + 1) -> Nat]
    /\ Len(all) = off[Len(s) + 1]
    /\ \A n \in 1..Len(s) : off[n + 1] = off[n] + Len(s[n])
    /\ \A n \in 1..Len(s) : \A k \in 1..Len(s[n]) :
          off[n] + k \in 1..Len(all) /\ all[off[n] + k] = s[n][k]
    /\ \A p \in 1..Len(all) : \E n \in 1..Len(s) : \E k \in 1..Len(s[n]) : p = off[n] + k
    /\ \A m, n \in 1..Len(s) : m < n => off[m] + Len(s[m]) <= off[n]

\* The parts of a flattened sequence lie side by side.
LEMMA FlattenPlaces ==
    ASSUME NEW S, NEW s \in Seq(Seq(S))
    PROVE  \E off : Places(off, s, FlattenSeq(s))
<1> DEFINE L == Len(s)
           all == FlattenSeq(s)
<1>1. L \in Nat /\ \A n \in 1..L : s[n] \in Seq(S) /\ Len(s[n]) \in Nat
  OBVIOUS
<1>2. PICK f \in [0..Len(s) -> Seq(S)] :
              /\ f[0] = <<>>
              /\ \A n \in 1..Len(s) : f[n] = f[n - 1] \o s[n]
              /\ all = f[Len(s)]
  BY FlattenIs
<1> HIDE DEF all
<1>3. PICK off : off = [n \in 1..(L + 1) |-> Len(f[n - 1])]
  OBVIOUS
<1>4. ASSUME NEW n \in 1..(L + 1)
      PROVE  off[n] = Len(f[n - 1]) /\ off[n] \in Nat /\ f[n - 1] \in Seq(S)
  <2>1. n - 1 \in 0..L
    BY <1>1
  <2>2. f[n - 1] \in Seq(S)
    BY <1>2, <2>1
  <2> QED
    BY <1>3, <2>2
<1>5. off \in [1..(L + 1) -> Nat]
  BY <1>3, <1>4
<1>6. ASSUME NEW n \in 1..L
      PROVE  /\ n \in 1..(L + 1) /\ n + 1 \in 1..(L + 1)
             /\ f[n] \in Seq(S) /\ f[n - 1] \in Seq(S)
             /\ off[n] = Len(f[n - 1]) /\ off[n + 1] = Len(f[n])
             /\ off[n + 1] = off[n] + Len(s[n])
             /\ \A i \in 1..off[n] : f[n][i] = f[n - 1][i]
             /\ \A k \in 1..Len(s[n]) : f[n][off[n] + k] = s[n][k]
  <2>1. n \in 1..(L + 1) /\ n + 1 \in 1..(L + 1) /\ (n + 1) - 1 = n
    BY <1>1
  <2>2. off[n] = Len(f[n - 1]) /\ off[n + 1] = Len(f[n]) /\ f[n - 1] \in Seq(S) /\ f[n] \in Seq(S)
    BY <1>4, <2>1
  <2>3. PICK q \in Seq(S) : q = f[n - 1]
    BY <2>2
  <2>4. PICK t \in Seq(S) : t = s[n]
    BY <1>1
  <2>5. f[n] = q \o t
    BY <1>2, <2>3, <2>4
  <2>6. /\ Len(q \o t) = Len(q) + Len(t)
        /\ \A i \in 1..Len(q) : (q \o t)[i] = q[i]
        /\ \A k \in 1..Len(t) : (q \o t)[Len(q) + k] = t[k]
    OBVIOUS
  <2> QED
    BY <2>1, <2>2, <2>3, <2>4, <2>5, <2>6
<1>7. \A m \in 1..L : \A n \in 1..L : m < n => off[m + 1] <= off[n]
  <2> TAKE m \in 1..L
  <2> DEFINE G == {n \in Nat : n <= L => (m < n => off[m + 1] <= off[n])}
  <2>1. 0 \in G
    BY <1>1
  <2>2. ASSUME NEW n \in G, n < L
        PROVE  n + 1 \in G
    <3> SUFFICES ASSUME m < n + 1
                 PROVE  off[m + 1] <= off[n + 1]
      OBVIOUS
    <3>1. n \in 1..L /\ n \in Nat /\ m <= n
      BY <1>1, <2>2
    <3>2. off[n + 1] = off[n] + Len(s[n]) /\ off[n] \in Nat /\ Len(s[n]) \in Nat
      BY <1>1, <1>4, <1>6, <3>1
    <3>3. off[m + 1] \in Nat
      BY <1>4, <1>6
    <3>4. CASE m = n
      BY <3>2, <3>3, <3>4
    <3>5. CASE m # n
      <4>1. m < n /\ n <= L
        BY <3>1, <3>5
      <4>2. off[m + 1] <= off[n]
        BY <2>2, <4>1
      <4> QED
        BY <3>2, <3>3, <4>2
    <3> QED
      BY <3>4, <3>5
  <2>3. G \in SUBSET Nat
    OBVIOUS
  <2> HIDE DEF G
  <2>4. 0..L \subseteq G
    BY <1>1, <2>1, <2>2, <2>3, Induction
  <2>5. \A n \in 1..L : n \in G /\ n \in Nat /\ n <= L
    <3>1. \A n \in 1..L : n \in 0..L /\ n \in Nat /\ n <= L
      BY <1>1
    <3> QED
      BY <2>4, <3>1
  <2> QED
    BY <2>5 DEF G
<1>8. \A n \in 0..L :
        /\ \A i \in 1..Len(f[n]) : \E m \in 1..n : \E k \in 1..Len(s[m]) : i = off[m] + k
        /\ \A m \in 1..n : \A k \in 1..Len(s[m]) :
              off[m] + k \in 1..Len(f[n]) /\ f[n][off[m] + k] = s[m][k]
  <2> DEFINE P(n) == \A i \in 1..Len(f[n]) : \E m \in 1..n : \E k \in 1..Len(s[m]) : i = off[m] + k
             Q(n) == \A m \in 1..n : \A k \in 1..Len(s[m]) :
                        off[m] + k \in 1..Len(f[n]) /\ f[n][off[m] + k] = s[m][k]
             G == {n \in Nat : n <= L => P(n) /\ Q(n)}
  <2>1. 0 \in G
    <3>1. Len(f[0]) = 0
      BY <1>2
    <3>2. P(0)
      BY <3>1
    <3>3. Q(0)
      OBVIOUS
    <3> QED
      BY <3>2, <3>3
  <2>2. ASSUME NEW n \in G, n < L
        PROVE  n + 1 \in G
    <3>0. PICK x \in Nat : x = n + 1
      OBVIOUS
    <3>1. /\ n \in Nat /\ x \in 1..L /\ x - 1 = n /\ x \in Nat /\ n <= L
          /\ 1..x = (1..n) \cup {x}
      BY <1>1, <2>2, <3>0
    <3>2. P(n) /\ Q(n)
      BY <2>2, <3>1
    <3>3. /\ off[x] = Len(f[n]) /\ Len(f[x]) = off[x] + Len(s[x])
          /\ \A i \in 1..off[x] : f[x][i] = f[n][i]
          /\ \A k \in 1..Len(s[x]) : f[x][off[x] + k] = s[x][k]
          /\ off[x] \in Nat /\ Len(s[x]) \in Nat /\ Len(f[n]) \in Nat
      <4>1. /\ x \in 1..(L + 1) /\ f[x] \in Seq(S)
            /\ off[x] = Len(f[x - 1]) /\ off[x + 1] = Len(f[x])
            /\ off[x + 1] = off[x] + Len(s[x])
            /\ \A i \in 1..off[x] : f[x][i] = f[x - 1][i]
            /\ \A k \in 1..Len(s[x]) : f[x][off[x] + k] = s[x][k]
        BY <1>6, <3>1
      <4>2. off[x] \in Nat
        BY <1>4, <4>1
      <4> QED
        BY <1>1, <3>1, <4>1, <4>2
    <3> HIDE DEF P, Q
    <3>6. PICK a \in Nat : a = off[x]
      BY <3>3
    <3>7. PICK b \in Nat : b = Len(s[x])
      BY <3>3
    <3>8. Len(f[n]) = a /\ Len(f[x]) = a + b
      BY <3>3, <3>6, <3>7
    <3>4. P(x)
      <4> SUFFICES ASSUME NEW i \in 1..Len(f[x])
                   PROVE  \E m \in 1..x : \E k \in 1..Len(s[m]) : i = off[m] + k
        BY DEF P
      <4>0. i \in 1..(a + b)
        BY <3>8
      <4>1. CASE i <= a
        <5>1. i \in 1..Len(f[n])
          BY <3>8, <4>0, <4>1
        <5>2. PICK m \in 1..n : \E k \in 1..Len(s[m]) : i = off[m] + k
          BY <3>2, <5>1 DEF P
        <5> QED
          BY <3>1, <5>2
      <4>2. CASE ~(i <= a)
        <5>1. i - a \in 1..b /\ i = a + (i - a)
          BY <4>0, <4>2
        <5> QED
          BY <3>1, <3>6, <3>7, <5>1
      <4> QED
        BY <4>1, <4>2
    <3>5. Q(x)
      <4> SUFFICES ASSUME NEW m \in 1..x, NEW k \in 1..Len(s[m])
                   PROVE  off[m] + k \in 1..(a + b) /\ f[x][off[m] + k] = s[m][k]
        BY <3>8 DEF Q
      <4>1. CASE m \in 1..n
        <5>1. off[m] + k \in 1..a /\ f[n][off[m] + k] = s[m][k]
          BY <3>2, <3>8, <4>1 DEF Q
        <5>2. PICK y \in 1..a : y = off[m] + k
          BY <5>1
        <5>3. y \in 1..(a + b)
          OBVIOUS
        <5> QED
          BY <3>3, <3>6, <5>1, <5>2, <5>3
      <4>2. CASE m = x
        <5>1. k \in 1..b
          BY <3>7, <4>2
        <5>2. f[x][a + k] = s[x][k]
          BY <3>3, <3>6, <3>7, <5>1
        <5>3. a + k \in 1..(a + b)
          BY <5>1
        <5> QED
          BY <3>6, <4>2, <5>2, <5>3
      <4> QED
        BY <3>1, <4>1, <4>2
    <3> QED
      BY <3>0, <3>1, <3>4, <3>5
  <2>3. G \in SUBSET Nat
    OBVIOUS
  <2> HIDE DEF G
  <2>4. 0..L \subseteq G
    BY <1>1, <2>1, <2>2, <2>3, Induction
  <2>5. \A n \in 0..L : n \in G /\ n <= L
    BY <1>1, <2>4
  <2>6. \A n \in 0..L : P(n) /\ Q(n)
    BY <2>5 DEF G
  <2> QED
    BY <2>6
<1>9. Len(all) = off[L + 1] /\ L \in 0..L /\ all = f[L]
  <2>1. L + 1 \in 1..(L + 1) /\ (L + 1) - 1 = L
    BY <1>1
  <2> QED
    BY <1>1, <1>2, <1>4, <2>1
<1>10. \A m, n \in 1..L : m < n => off[m] + Len(s[m]) <= off[n]
  BY <1>6, <1>7
<1>11. /\ \A n \in 1..L : \A k \in 1..Len(s[n]) :
              off[n] + k \in 1..Len(all) /\ all[off[n] + k] = s[n][k]
       /\ \A p \in 1..Len(all) : \E n \in 1..L : \E k \in 1..Len(s[n]) : p = off[n] + k
  BY <1>8, <1>9
<1>12. \A n \in 1..L : off[n + 1] = off[n] + Len(s[n])
  BY <1>6
<1>13. Places(off, s, all)
  BY <1>5, <1>9, <1>10, <1>11, <1>12 DEF Places
<1> QED
  BY <1>13 DEF all

-----------------------------------------------------------------------------
(* Calls and results.                                                      *)

IsTool(m) == m.role = "tool"

\* A result, or something said while the results are awaited.
Beside(m) == m.role # "assistant"

Distinct(calls) == \A k, l \in DOMAIN calls : calls[k] = calls[l] => k = l

\* The results of a batch come after the message that made its calls, before the
\* assistant says anything else, and each call is
\* made once and answered once at the most.
Linked(ms) ==
    /\ \A i \in DOMAIN ms : Distinct(ms[i].calls)
    /\ \A i \in DOMAIN ms : IF IsTool(ms[i]) THEN ms[i].calls = <<>> ELSE ms[i].call = NoCall
    /\ \A i, j \in DOMAIN ms :
          IsTool(ms[i]) /\ IsTool(ms[j]) /\ ms[i].call = ms[j].call => i = j
    /\ \A i, j \in DOMAIN ms : Range(ms[i].calls) \cap Range(ms[j].calls) # {} => i = j
    /\ \A j \in DOMAIN ms : IsTool(ms[j]) =>
          \E i \in 1..(j - 1) :
             /\ ms[j].call \in Range(ms[i].calls)
             /\ \A k \in (i + 1)..(j - 1) : Beside(ms[k])

\* Each call has one result, and the assistant says nothing in between.
Paired(ms) ==
    /\ \A i \in DOMAIN ms : \A c \in Range(ms[i].calls) :
          \E j \in DOMAIN ms :
             /\ i < j /\ ms[j].call = c
             /\ \A k \in (i + 1)..j : Beside(ms[k])
             /\ \A k \in DOMAIN ms : ms[k].call = c => k = j
    /\ \A j \in DOMAIN ms : IsTool(ms[j]) =>
          \E i \in 1..(j - 1) : ms[j].call \in Range(ms[i].calls)

\* A call that has no result is given one.
LEMMA MadeUpIs ==
    ASSUME NEW calls \in Seq(Call), Distinct(calls), NEW answered
    PROVE  LET made == MadeUp(calls, answered)
           IN  /\ \A p \in DOMAIN made :
                     /\ IsTool(made[p]) /\ made[p].calls = <<>>
                     /\ made[p].call \in Range(calls) \ answered
               /\ \A c \in Range(calls) \ answered : \E p \in DOMAIN made : made[p].call = c
               /\ \A p, q \in DOMAIN made : made[p].call = made[q].call => p = q
<1> DEFINE made == MadeUp(calls, answered)
           s == [k \in DOMAIN calls |->
                   IF calls[k] \in answered THEN <<>> ELSE <<ToolMessage(0, calls[k])>>]
<1>1. /\ DOMAIN calls = 1..Len(calls) /\ Len(calls) \in Nat
      /\ \A k \in 1..Len(calls) : calls[k] \in Call
  OBVIOUS
<1>2. ASSUME NEW k \in 1..Len(calls)
      PROVE  /\ calls[k] \in answered => s[k] = <<>> /\ Len(s[k]) = 0
             /\ calls[k] \notin answered =>
                   /\ s[k] = <<ToolMessage(0, calls[k])>> /\ Len(s[k]) = 1
                   /\ s[k][1] = ToolMessage(0, calls[k])
  <2>1. s[k] = IF calls[k] \in answered THEN <<>> ELSE <<ToolMessage(0, calls[k])>>
    BY <1>1
  <2>2. Len(<<>>) = 0 /\ \A x : Len(<<x>>) = 1 /\ <<x>>[1] = x
    OBVIOUS
  <2> HIDE DEF s
  <2> QED
    BY <2>1, <2>2
<1>3. \A c \in Call : /\ ToolMessage(0, c) \in Message /\ ToolMessage(0, c).call = c
                      /\ IsTool(ToolMessage(0, c)) /\ ToolMessage(0, c).calls = <<>>
  BY BoundsAssumption DEF ToolMessage, Message, IsTool
<1>4. s \in Seq(Seq(Message)) /\ Len(s) = Len(calls)
  <2>1. \A k \in 1..Len(calls) : s[k] \in Seq(Message)
    BY <1>1, <1>2, <1>3
  <2>2. s \in [1..Len(calls) -> Seq(Message)]
    BY <1>1, <2>1
  <2> HIDE DEF s
  <2> QED
    BY <1>1, <2>2
<1>5. made = FlattenSeq(s)
  BY DEF MadeUp
<1> HIDE DEF s
<1>6. PICK off : Places(off, s, made)
  BY <1>4, <1>5, FlattenPlaces
<1>7. made \in Seq(Message) /\ DOMAIN made = 1..Len(made)
  BY MadeUpType
<1> HIDE DEF made
<1>8. ASSUME NEW p \in DOMAIN made
      PROVE  \E n \in 1..Len(calls) :
                /\ calls[n] \notin answered /\ p = off[n] + 1
                /\ made[p] = ToolMessage(0, calls[n])
  <2>1. PICK n \in 1..Len(calls) : \E k \in 1..Len(s[n]) : p = off[n] + k
    BY <1>4, <1>6, <1>7 DEF Places
  <2>2. PICK k \in 1..Len(s[n]) : p = off[n] + k
    BY <2>1
  <2>3. calls[n] \notin answered
    <3>1. calls[n] \in answered => Len(s[n]) = 0
      BY <1>2
    <3>2. \A x \in 1..Len(s[n]) : Len(s[n]) # 0
      OBVIOUS
    <3> QED
      BY <2>2, <3>1, <3>2
  <2>4. s[n][1] = ToolMessage(0, calls[n]) /\ Len(s[n]) = 1
    BY <1>2, <2>3
  <2>5. k = 1
    BY <2>4
  <2>6. made[off[n] + k] = s[n][k]
    BY <1>4, <1>6, <2>2 DEF Places
  <2> QED
    BY <2>2, <2>3, <2>4, <2>5, <2>6
<1>9. ASSUME NEW c \in Range(calls) \ answered
      PROVE  \E p \in DOMAIN made : made[p].call = c
  <2>1. PICK n \in 1..Len(calls) : calls[n] = c
    BY <1>1 DEF Range
  <2>2. 1 \in 1..Len(s[n]) /\ s[n][1] = ToolMessage(0, c)
    <3>1. Len(s[n]) = 1 /\ s[n][1] = ToolMessage(0, c)
      BY <1>2, <2>1
    <3> QED
      BY <3>1
  <2>3. off[n] + 1 \in 1..Len(made) /\ made[off[n] + 1] = ToolMessage(0, c)
    BY <1>4, <1>6, <2>2 DEF Places
  <2> QED
    BY <1>1, <1>3, <1>7, <2>1, <2>3
<1>10. ASSUME NEW p \in DOMAIN made, NEW q \in DOMAIN made, made[p].call = made[q].call
       PROVE  p = q
  <2>1. PICK m \in 1..Len(calls) : p = off[m] + 1 /\ made[p] = ToolMessage(0, calls[m])
    BY <1>8
  <2>2. PICK n \in 1..Len(calls) : q = off[n] + 1 /\ made[q] = ToolMessage(0, calls[n])
    BY <1>8
  <2>3. calls[m] = calls[n]
    BY <1>1, <1>3, <1>10, <2>1, <2>2
  <2>4. m = n
    BY <1>1, <2>3 DEF Distinct
  <2> QED
    BY <2>1, <2>2, <2>4
<1>11. ASSUME NEW p \in DOMAIN made
       PROVE  /\ IsTool(made[p]) /\ made[p].calls = <<>>
              /\ made[p].call \in Range(calls) \ answered
  <2>1. PICK n \in 1..Len(calls) : calls[n] \notin answered /\ made[p] = ToolMessage(0, calls[n])
    BY <1>8
  <2> QED
    BY <1>1, <1>3, <2>1 DEF Range
<1> QED
  BY <1>9, <1>10, <1>11 DEF made

\* A message and what was made up for it.
LEMMA PatchedIs ==
    ASSUME NEW m \in Message, Distinct(m.calls), NEW answered, NEW part,
           part = Patched(m, answered)
    PROVE  /\ part \in Seq(Message) /\ Len(part) \in Nat \ {0} /\ part[1] = m
           /\ \A k \in 2..Len(part) :
                 /\ IsTool(part[k]) /\ part[k].calls = <<>>
                 /\ part[k].call \in Range(m.calls) \ answered
           /\ \A c \in Range(m.calls) \ answered : \E k \in 2..Len(part) : part[k].call = c
           /\ \A k, l \in 2..Len(part) : part[k].call = part[l].call => k = l
<1> DEFINE made == MadeUp(m.calls, answered)
<1>1. m.calls \in Seq(Call)
  BY DEF Message
<1>2. /\ \A p \in DOMAIN made :
            /\ IsTool(made[p]) /\ made[p].calls = <<>>
            /\ made[p].call \in Range(m.calls) \ answered
      /\ \A c \in Range(m.calls) \ answered : \E p \in DOMAIN made : made[p].call = c
      /\ \A p, q \in DOMAIN made : made[p].call = made[q].call => p = q
  BY <1>1, MadeUpIs
<1>3. made \in Seq(Message) /\ part = <<m>> \o made
  BY <1>1, MadeUpType DEF Patched
<1> HIDE DEF made
<1>4. Len(made) \in Nat /\ DOMAIN made = 1..Len(made) /\ <<m>> \in Seq(Message)
  BY <1>3
<1>5. /\ part \in Seq(Message) /\ Len(part) = Len(made) + 1 /\ part[1] = m
      /\ \A k \in 2..(Len(made) + 1) : part[k] = made[k - 1]
  BY <1>3, <1>4
<1>6. /\ \A k \in 2..Len(part) : k - 1 \in DOMAIN made /\ part[k] = made[k - 1]
      /\ \A p \in DOMAIN made : p + 1 \in 2..Len(part) /\ part[p + 1] = made[p]
  <2>1. \A k \in 2..Len(part) : k - 1 \in DOMAIN made /\ part[k] = made[k - 1]
    BY <1>4, <1>5
  <2>2. \A p \in DOMAIN made : p + 1 \in 2..Len(part) /\ (p + 1) - 1 = p
    BY <1>4, <1>5
  <2> QED
    BY <2>1, <2>2
<1>7. ASSUME NEW k \in 2..Len(part)
      PROVE  /\ IsTool(part[k]) /\ part[k].calls = <<>>
             /\ part[k].call \in Range(m.calls) \ answered
  BY <1>2, <1>6
<1>8. ASSUME NEW c \in Range(m.calls) \ answered
      PROVE  \E k \in 2..Len(part) : part[k].call = c
  <2>1. PICK p \in DOMAIN made : made[p].call = c
    BY <1>2
  <2> QED
    BY <1>6, <2>1
<1>9. ASSUME NEW k \in 2..Len(part), NEW l \in 2..Len(part), part[k].call = part[l].call
      PROVE  k = l
  <2>1. /\ k - 1 \in DOMAIN made /\ part[k] = made[k - 1]
        /\ l - 1 \in DOMAIN made /\ part[l] = made[l - 1]
    BY <1>6
  <2>2. k - 1 = l - 1
    BY <1>2, <1>9, <2>1
  <2> QED
    BY <2>2
<1>10. Len(part) \in Nat \ {0}
  BY <1>4, <1>5
<1> QED
  BY <1>5, <1>7, <1>8, <1>9, <1>10

\* What is made of each element is laid out in the order of the elements.
LEMMA EachPlaces ==
    ASSUME NEW S, NEW T, NEW F, Lists(F, S, T), NEW s \in Seq(S)
    PROVE  \E parts \in Seq(Seq(T)) : \E off :
              /\ Len(parts) = Len(s)
              /\ \A n \in 1..Len(s) : parts[n] = F[s[n]]
              /\ Places(off, parts, Each(F, s))
<1> DEFINE parts == [i \in DOMAIN s |-> F[s[i]]]
<1>1. parts \in Seq(Seq(T)) /\ Len(parts) = Len(s)
  BY EachMaps DEF Lists
<1>2. \A n \in 1..Len(s) : parts[n] = F[s[n]]
  OBVIOUS
<1>3. Each(F, s) = FlattenSeq(parts)
  BY DEF Each
<1> HIDE DEF parts
<1>4. \E off : Places(off, parts, FlattenSeq(parts))
  BY <1>1, FlattenPlaces
<1> QED
  BY <1>1, <1>2, <1>3, <1>4

\* The messages and what was made up for each are laid out in order.
LEMMA RepairedPlaces ==
    ASSUME NEW ms \in Seq(Message), NEW answered, NEW out, out = RepairWith(ms, answered)
    PROVE  \E s \in Seq(Seq(Message)) : \E off :
              /\ Len(s) = Len(ms)
              /\ \A n \in 1..Len(ms) : s[n] = Patched(ms[n], answered)
              /\ Places(off, s, out)
<1> DEFINE F == [m \in Message |-> Patched(m, answered)]
<1>1. Lists(F, Message, Message)
  BY PatchesType
<1>2. \A n \in 1..Len(ms) : F[ms[n]] = Patched(ms[n], answered)
  OBVIOUS
<1>3. out = Each(F, ms)
  BY DEF RepairWith
<1> HIDE DEF F
<1>4. PICK s \in Seq(Seq(Message)) : \E off :
              /\ Len(s) = Len(ms)
              /\ \A n \in 1..Len(ms) : s[n] = F[ms[n]]
              /\ Places(off, s, Each(F, ms))
  BY <1>1, EachPlaces
<1> QED
  BY <1>2, <1>3, <1>4

\* Once every call has a result, each has one that follows it closely.
LEMMA RepairPairs ==
    ASSUME NEW ms \in Seq(Message), Linked(ms)
    PROVE  Paired(RepairWith(ms, AnsweredIn(ms)))
<1> DEFINE A == AnsweredIn(ms)
<1>1. PICK out : out = RepairWith(ms, A)
  OBVIOUS
<1>2. PICK s \in Seq(Seq(Message)) : \E off :
              /\ Len(s) = Len(ms)
              /\ \A n \in 1..Len(ms) : s[n] = Patched(ms[n], A)
              /\ Places(off, s, out)
  BY <1>1, RepairedPlaces
<1>3. PICK off :
              /\ Len(s) = Len(ms)
              /\ \A n \in 1..Len(ms) : s[n] = Patched(ms[n], A)
              /\ Places(off, s, out)
  BY <1>2
<1>4. PICK L \in Nat : L = Len(ms)
  OBVIOUS
<1>5. DOMAIN ms = 1..L /\ \A n \in 1..L : ms[n] \in Message
  BY <1>4
<1>6. \A m \in Range(ms) : m.call = NoCall \/ m.call \in A
  <2>1. \A n \in 1..L : IsTool(ms[n]) => ms[n].call \in A
    BY <1>5 DEF AnsweredIn, IsTool
  <2>2. \A n \in 1..L : ~IsTool(ms[n]) => ms[n].call = NoCall
    BY <1>5 DEF Linked
  <2> QED
    BY <1>5, <2>1, <2>2 DEF Range
<1>7. ASSUME NEW c \in A
      PROVE  \E m \in 1..L : IsTool(ms[m]) /\ ms[m].call = c
  BY <1>5 DEF AnsweredIn, IsTool
<1> HIDE DEF A
<1>8. ASSUME NEW n \in 1..L
      PROVE  /\ s[n] \in Seq(Message) /\ Len(s[n]) \in Nat \ {0} /\ s[n][1] = ms[n]
             /\ \A k \in 2..Len(s[n]) :
                   /\ IsTool(s[n][k]) /\ s[n][k].calls = <<>>
                   /\ s[n][k].call \in Range(ms[n].calls) \ A
             /\ \A c \in Range(ms[n].calls) \ A : \E k \in 2..Len(s[n]) : s[n][k].call = c
             /\ \A k, l \in 2..Len(s[n]) : s[n][k].call = s[n][l].call => k = l
  <2>1. ms[n] \in Message /\ Distinct(ms[n].calls) /\ s[n] = Patched(ms[n], A)
    BY <1>3, <1>4, <1>5 DEF Linked
  <2>2. PICK m \in Message : m = ms[n]
    BY <2>1
  <2>3. PICK x : x = Patched(m, A)
    OBVIOUS
  <2>4. /\ x \in Seq(Message) /\ Len(x) \in Nat \ {0} /\ x[1] = m
        /\ \A k \in 2..Len(x) :
              /\ IsTool(x[k]) /\ x[k].calls = <<>>
              /\ x[k].call \in Range(m.calls) \ A
        /\ \A c \in Range(m.calls) \ A : \E k \in 2..Len(x) : x[k].call = c
        /\ \A k, l \in 2..Len(x) : x[k].call = x[l].call => k = l
    <3>1. Distinct(m.calls)
      BY <2>1, <2>2
    <3>2. PICK a : a = A
      OBVIOUS
    <3>3. x = Patched(m, a)
      BY <2>3, <3>2
    <3>4. /\ x \in Seq(Message) /\ Len(x) \in Nat \ {0} /\ x[1] = m
          /\ \A k \in 2..Len(x) :
                /\ IsTool(x[k]) /\ x[k].calls = <<>>
                /\ x[k].call \in Range(m.calls) \ a
          /\ \A c \in Range(m.calls) \ a : \E k \in 2..Len(x) : x[k].call = c
          /\ \A k, l \in 2..Len(x) : x[k].call = x[l].call => k = l
      BY <3>1, <3>3, PatchedIs
    <3> QED
      BY <3>2, <3>4
  <2>5. x = s[n] /\ m = ms[n]
    BY <2>1, <2>2, <2>3
  <2> QED
    BY <2>4, <2>5
<1>19. Len(s) = L /\ Places(off, s, out)
  BY <1>3, <1>4
<1>9. \A n \in 1..L : off[n] \in Nat
  <2>1. \A n \in 1..L : n \in 1..(L + 1)
    OBVIOUS
  <2>2. off \in [1..(L + 1) -> Nat]
    BY <1>19 DEF Places
  <2> QED
    BY <2>1, <2>2
<1>20. \A n \in 1..L : \A k \in 1..Len(s[n]) :
         off[n] + k \in 1..Len(out) /\ out[off[n] + k] = s[n][k]
  BY <1>19 DEF Places
<1>21. \A p \in 1..Len(out) : \E n \in 1..L : \E k \in 1..Len(s[n]) : p = off[n] + k
  BY <1>19 DEF Places
<1>22. \A m, n \in 1..L : m < n => off[m] + Len(s[m]) <= off[n]
  BY <1>19 DEF Places
<1>10. ASSUME NEW n \in 1..L
       PROVE  off[n] + 1 \in 1..Len(out) /\ out[off[n] + 1] = ms[n]
  <2>1. 1 \in 1..Len(s[n])
    BY <1>8
  <2> QED
    BY <1>8, <1>20, <2>1
<1>11. ASSUME NEW p \in 1..Len(out)
       PROVE  \E n \in 1..L :
                 \/ p = off[n] + 1 /\ out[p] = ms[n]
                 \/ \E k \in 2..Len(s[n]) : p = off[n] + k /\ out[p] = s[n][k]
  <2>1. PICK n \in 1..L : \E k \in 1..Len(s[n]) : p = off[n] + k
    BY <1>21
  <2>2. PICK k \in 1..Len(s[n]) : p = off[n] + k
    BY <2>1
  <2>3. out[p] = s[n][k]
    BY <1>20, <2>2
  <2>4. k = 1 \/ k \in 2..Len(s[n])
    BY <1>8
  <2> QED
    BY <1>8, <2>2, <2>3, <2>4
<1>12. ASSUME NEW n \in 1..L, NEW m \in 1..L, n < m,
              \A k \in (n + 1)..m : Beside(ms[k]),
              NEW p \in (off[n] + 2)..(off[m] + 1)
       PROVE  Beside(out[p])
  <2>1. /\ off[n] \in Nat /\ off[m] \in Nat /\ off[n] + Len(s[n]) <= off[m]
        /\ Len(s[n]) \in Nat \ {0} /\ Len(s[m]) \in Nat \ {0}
        /\ off[m] + 1 \in 1..Len(out)
    <3>1. off[n] \in Nat /\ off[m] \in Nat
      BY <1>9
    <3>2. off[n] + Len(s[n]) <= off[m]
      BY <1>12, <1>22
    <3>3. Len(s[n]) \in Nat \ {0} /\ Len(s[m]) \in Nat \ {0}
      BY <1>8
    <3>4. off[m] + 1 \in 1..Len(out)
      BY <1>10
    <3> QED
      BY <3>1, <3>2, <3>3, <3>4
  <2>2. p \in 1..Len(out) /\ p \in Nat
    <3>1. PICK a \in Nat : a = off[n]
      BY <2>1
    <3>2. PICK b \in Nat : b = off[m]
      BY <2>1
    <3>3. p \in (a + 2)..(b + 1) /\ b + 1 <= Len(out)
      BY <2>1, <3>1, <3>2
    <3> QED
      BY <3>3
  <2>3. PICK x \in 1..L :
                 \/ p = off[x] + 1 /\ out[p] = ms[x]
                 \/ \E k \in 2..Len(s[x]) : p = off[x] + k /\ out[p] = s[x][k]
    BY <1>11, <2>2
  <2>4. CASE \E k \in 2..Len(s[x]) : p = off[x] + k /\ out[p] = s[x][k]
    <3>1. IsTool(out[p])
      BY <1>8, <2>4
    <3> QED
      BY <3>1 DEF IsTool, Beside
  <2>5. CASE p = off[x] + 1 /\ out[p] = ms[x]
    <3>1. off[x] \in Nat /\ off[x] > off[n] /\ off[x] <= off[m]
      <4>1. off[x] \in Nat
        BY <1>9
      <4>2. PICK a \in Nat : a = off[n]
        BY <2>1
      <4>3. PICK b \in Nat : b = off[m]
        BY <2>1
      <4>4. PICK o \in Nat : o = off[x]
        BY <4>1
      <4>5. o + 1 \in (a + 2)..(b + 1)
        BY <2>5, <4>2, <4>3, <4>4
      <4>6. o > a /\ o <= b
        BY <4>5
      <4> QED
        BY <4>2, <4>3, <4>4, <4>6
    <3>2. ~(x < n)
      <4>1. x < n => off[x] + Len(s[x]) <= off[n]
        BY <1>22
      <4>2. PICK l \in Nat \ {0} : l = Len(s[x])
        BY <1>8
      <4>3. PICK a \in Nat : a = off[n]
        BY <2>1
      <4>4. PICK o \in Nat : o = off[x]
        BY <3>1
      <4>5. ~(o + l <= a)
        BY <3>1, <4>3, <4>4
      <4>6. x < n => o + l <= a
        BY <4>1, <4>2, <4>3, <4>4
      <4> QED
        BY <4>5, <4>6
    <3>3. x # n
      BY <2>1, <3>1
    <3>4. ~(m < x)
      <4>1. m < x => off[m] + Len(s[m]) <= off[x]
        BY <1>22
      <4>2. PICK b \in Nat : b = off[m]
        BY <2>1
      <4>3. PICK l \in Nat \ {0} : l = Len(s[m])
        BY <2>1
      <4>4. PICK o \in Nat : o = off[x]
        BY <3>1
      <4>5. o <= b
        BY <3>1, <4>2, <4>4
      <4>6. ~(b + l <= o)
        BY <4>5
      <4> QED
        BY <4>1, <4>2, <4>3, <4>4, <4>6
    <3>5. x \in (n + 1)..m
      BY <3>2, <3>3, <3>4
    <3> QED
      BY <1>12, <2>5, <3>5
  <2> QED
    BY <2>3, <2>4, <2>5
<1>13. out \in Seq(Message) /\ DOMAIN out = 1..Len(out)
  <2>1. out \in Seq(Message)
    BY <1>1, PatchesType, EachType DEF RepairWith
  <2> QED
    BY <2>1
<1>14. ASSUME NEW i \in DOMAIN out, NEW c \in Range(out[i].calls)
       PROVE  \E n \in 1..L : i = off[n] + 1 /\ c \in Range(ms[n].calls)
  <2>1. PICK n \in 1..L :
                 \/ i = off[n] + 1 /\ out[i] = ms[n]
                 \/ \E k \in 2..Len(s[n]) : i = off[n] + k /\ out[i] = s[n][k]
    BY <1>11, <1>13
  <2>2. Range(<<>>) = {}
    BY DEF Range
  <2> QED
    BY <1>8, <2>1, <2>2
<1>15. ASSUME NEW n \in 1..L, NEW c \in Range(ms[n].calls)
       PROVE  /\ c # NoCall
              /\ \A x \in 1..L : c \in Range(ms[x].calls) => x = n
  <2>1. c \in Call
    <3>1. ms[n].calls \in Seq(Call)
      BY <1>5 DEF Message
    <3> QED
      BY <3>1, RangeOfSeq
  <2>2. NoCall \notin Call
    BY DEF NoCall, Call
  <2>3. \A x \in 1..L : Range(ms[x].calls) \cap Range(ms[n].calls) # {} => x = n
    BY <1>5 DEF Linked
  <2> QED
    BY <2>1, <2>2, <2>3
<1>16. ASSUME NEW i \in DOMAIN out, NEW c \in Range(out[i].calls)
       PROVE  \E j \in DOMAIN out :
                 /\ i < j /\ out[j].call = c
                 /\ \A k \in (i + 1)..j : Beside(out[k])
                 /\ \A k \in DOMAIN out : out[k].call = c => k = j
  <2>1. PICK n \in 1..L : i = off[n] + 1 /\ c \in Range(ms[n].calls)
    BY <1>14
  <2>2. off[n] \in Nat
    BY <1>9
  <2>3. CASE c \in A
    <3>1. PICK m \in 1..L : IsTool(ms[m]) /\ ms[m].call = c
      BY <1>7, <2>3
    <3>2. PICK x \in 1..(m - 1) :
             /\ ms[m].call \in Range(ms[x].calls)
             /\ \A k \in (x + 1)..(m - 1) : Beside(ms[k])
      BY <1>5, <3>1 DEF Linked
    <3>3. x \in 1..L /\ x < m /\ x = n
      <4>1. x \in 1..L /\ x < m
        OBVIOUS
      <4>2. c \in Range(ms[x].calls)
        BY <3>1, <3>2
      <4> QED
        BY <1>15, <2>1, <4>1, <4>2
    <3>4. \A k \in (n + 1)..m : Beside(ms[k])
      <4>1. \A k \in (n + 1)..m : k = m \/ k \in (n + 1)..(m - 1)
        OBVIOUS
      <4>2. Beside(ms[m])
        BY <3>1 DEF IsTool, Beside
      <4> QED
        BY <3>2, <3>3, <4>1, <4>2
    <3>5. PICK j : j = off[m] + 1
      OBVIOUS
    <3>6. j \in 1..Len(out) /\ out[j] = ms[m]
      BY <1>10, <3>5
    <3>7. i < j
      <4>1. off[n] + Len(s[n]) <= off[m] /\ off[m] \in Nat /\ Len(s[n]) \in Nat \ {0}
        BY <1>8, <1>9, <1>22, <3>3
      <4>2. PICK a \in Nat : a = off[n]
        BY <2>2
      <4>3. PICK b \in Nat : b = off[m]
        BY <4>1
      <4>4. PICK h \in Nat \ {0} : h = Len(s[n])
        BY <4>1
      <4>5. a + h <= b
        BY <4>1, <4>2, <4>3, <4>4
      <4>6. a + 1 < b + 1
        BY <4>5
      <4> QED
        BY <2>1, <3>5, <4>2, <4>3, <4>6
    <3>8. \A k \in (i + 1)..j : Beside(out[k])
      <4>1. i + 1 = off[n] + 2
        BY <2>1, <2>2
      <4> QED
        BY <1>12, <3>3, <3>4, <3>5, <4>1
    <3>9. ASSUME NEW p \in 1..Len(out), out[p].call = c
          PROVE  p = j
      <4>1. PICK y \in 1..L :
                 \/ p = off[y] + 1 /\ out[p] = ms[y]
                 \/ \E k \in 2..Len(s[y]) : p = off[y] + k /\ out[p] = s[y][k]
        BY <1>11
      <4>2. p = off[y] + 1 /\ out[p] = ms[y]
        BY <1>8, <2>3, <3>9, <4>1
      <4>3. IsTool(ms[y])
        <5>1. c # NoCall
          BY <1>15, <2>1
        <5> QED
          BY <1>5, <3>9, <4>2, <5>1 DEF Linked
      <4>4. y = m
        BY <1>5, <3>1, <3>9, <4>2, <4>3 DEF Linked
      <4> QED
        BY <3>5, <4>2, <4>4
    <3> QED
      BY <1>13, <3>1, <3>6, <3>7, <3>8, <3>9
  <2>4. CASE c \notin A
    <3>1. PICK y \in 2..Len(s[n]) : s[n][y].call = c
      BY <1>8, <2>1, <2>4
    <3>2. PICK j : j = off[n] + y
      OBVIOUS
    <3>3. \A k \in 1..Len(s[n]) : off[n] + k \in 1..Len(out) /\ out[off[n] + k] = s[n][k]
      BY <1>20
    <3>4. j \in 1..Len(out) /\ out[j] = s[n][y] /\ i < j
      <4>1. y \in 1..Len(s[n]) /\ y > 1
        BY <1>8
      <4>2. j \in 1..Len(out) /\ out[j] = s[n][y]
        BY <3>2, <3>3, <4>1
      <4>3. off[n] + 1 < off[n] + y
        BY <2>2, <4>1
      <4> QED
        BY <2>1, <3>2, <4>2, <4>3
    <3>5. ASSUME NEW p \in (i + 1)..j
          PROVE  Beside(out[p])
      <4>1. PICK k : k = p - off[n]
        OBVIOUS
      <4>2. k \in 2..Len(s[n]) /\ k \in 1..Len(s[n]) /\ p = off[n] + k
        <5>1. PICK o \in Nat : o = off[n]
          BY <2>2
        <5>2. PICK l \in Nat : l = Len(s[n])
          BY <1>8
        <5>3. y \in 2..l /\ p \in (o + 2)..(o + y) /\ k = p - o
          <6>1. i = o + 1
            BY <2>1, <5>1
          <6>2. j = o + y
            BY <3>2, <5>1
          <6>3. y \in 2..l
            BY <5>2
          <6>4. p \in (o + 2)..(o + y)
            BY <6>1, <6>2, <6>3
          <6> QED
            BY <4>1, <5>1, <6>3, <6>4
        <5>4. k \in 2..l /\ k \in 1..l /\ p = o + k
          BY <5>3
        <5> QED
          BY <5>1, <5>2, <5>4
      <4>3. out[p] = s[n][k]
        BY <3>3, <4>2
      <4>4. IsTool(out[p])
        BY <1>8, <4>2, <4>3
      <4> QED
        BY <4>4 DEF IsTool, Beside
    <3>6. ASSUME NEW p \in 1..Len(out), out[p].call = c
          PROVE  p = j
      <4>1. PICK x \in 1..L :
                 \/ p = off[x] + 1 /\ out[p] = ms[x]
                 \/ \E k \in 2..Len(s[x]) : p = off[x] + k /\ out[p] = s[x][k]
        BY <1>11
      <4>2. ~(p = off[x] + 1 /\ out[p] = ms[x])
        <5>1. ms[x] \in Range(ms)
          BY <1>5 DEF Range
        <5> QED
          BY <1>6, <1>15, <2>1, <2>4, <3>6, <5>1
      <4>3. PICK z \in 2..Len(s[x]) : p = off[x] + z /\ out[p] = s[x][z]
        BY <4>1, <4>2
      <4>4. c \in Range(ms[x].calls)
        BY <1>8, <3>6, <4>3
      <4>5. x = n
        BY <1>15, <2>1, <4>4
      <4>6. z = y
        <5>1. \A k, l \in 2..Len(s[n]) : s[n][k].call = s[n][l].call => k = l
          BY <1>8
        <5>2. z \in 2..Len(s[n]) /\ s[n][z].call = s[n][y].call
          BY <3>1, <3>6, <4>3, <4>5
        <5> QED
          BY <5>1, <5>2
      <4> QED
        BY <3>2, <4>3, <4>5, <4>6
    <3> QED
      BY <1>13, <3>1, <3>4, <3>5, <3>6
  <2> QED
    BY <2>3, <2>4
<1>17. ASSUME NEW j \in DOMAIN out, IsTool(out[j])
       PROVE  \E i \in 1..(j - 1) : out[j].call \in Range(out[i].calls)
  <2>1. PICK x \in 1..L :
                 \/ j = off[x] + 1 /\ out[j] = ms[x]
                 \/ \E k \in 2..Len(s[x]) : j = off[x] + k /\ out[j] = s[x][k]
    BY <1>11, <1>13
  <2>2. CASE j = off[x] + 1 /\ out[j] = ms[x]
    <3>1. PICK n \in 1..(x - 1) : ms[x].call \in Range(ms[n].calls)
      BY <1>5, <1>17, <2>2 DEF Linked
    <3>2. n \in 1..L /\ n < x
      OBVIOUS
    <3>3. /\ off[n] + Len(s[n]) <= off[x] /\ off[n] \in Nat /\ off[x] \in Nat
          /\ Len(s[n]) \in Nat \ {0}
      BY <1>8, <1>9, <1>22, <3>2
    <3>4. off[n] + 1 \in 1..(j - 1)
      <4>1. PICK o \in Nat : o = off[n]
        BY <3>3
      <4>2. PICK q \in Nat : q = off[x]
        BY <3>3
      <4>3. PICK l \in Nat \ {0} : l = Len(s[n])
        BY <3>3
      <4>4. o + l <= q /\ j = q + 1
        BY <2>2, <3>3, <4>1, <4>2, <4>3
      <4>5. o + 1 \in 1..(j - 1)
        BY <4>4
      <4> QED
        BY <4>1, <4>5
    <3> QED
      BY <1>10, <2>2, <3>1, <3>2, <3>4
  <2>3. CASE \E k \in 2..Len(s[x]) : j = off[x] + k /\ out[j] = s[x][k]
    <3>1. PICK k \in 2..Len(s[x]) : j = off[x] + k /\ out[j] = s[x][k]
      BY <2>3
    <3>2. out[j].call \in Range(ms[x].calls)
      BY <1>8, <3>1
    <3>3. off[x] + 1 \in 1..(j - 1)
      <4>1. off[x] \in Nat
        BY <1>9
      <4> QED
        BY <3>1, <4>1
    <3> QED
      BY <1>10, <3>2, <3>3
  <2> QED
    BY <2>1, <2>2, <2>3
<1>18. Paired(out)
  BY <1>16, <1>17 DEF Paired
<1> QED
  BY <1>1, <1>18 DEF A

-----------------------------------------------------------------------------
(* Requests.                                                               *)

\* Where two sequences that are joined come from.
LEMMA Joined ==
    ASSUME NEW S, NEW a \in Seq(S), NEW b \in Seq(S), NEW z, z = a \o b
    PROVE  /\ z \in Seq(S) /\ DOMAIN z = 1..Len(z) /\ Len(z) = Len(a) + Len(b)
           /\ \A n \in 1..Len(a) : n \in 1..Len(z) /\ z[n] = a[n]
           /\ \A p \in 1..Len(b) : Len(a) + p \in 1..Len(z) /\ z[Len(a) + p] = b[p]
           /\ \A n \in 1..Len(z) : \/ n \in 1..Len(a)
                                   \/ \E p \in 1..Len(b) : n = Len(a) + p
<1>1. PICK l \in Nat : l = Len(a)
  OBVIOUS
<1>2. PICK m \in Nat : m = Len(b)
  OBVIOUS
<1>3. /\ z \in Seq(S) /\ DOMAIN z = 1..Len(z) /\ Len(z) = l + m
      /\ \A n \in 1..l : z[n] = a[n]
      /\ \A p \in 1..m : z[l + p] = b[p]
  BY <1>1, <1>2
<1>4. \A n \in 1..(l + m) : n \in 1..l \/ \E p \in 1..m : n = l + p
  <2> TAKE n \in 1..(l + m)
  <2>1. CASE n <= l
    BY <2>1
  <2>2. CASE ~(n <= l)
    <3>1. n - l \in 1..m /\ n = l + (n - l)
      BY <2>2
    <3> QED
      BY <3>1
  <2> QED
    BY <2>1, <2>2
<1>5. /\ \A n \in 1..l : n \in 1..(l + m)
      /\ \A p \in 1..m : l + p \in 1..(l + m)
  OBVIOUS
<1> QED
  BY <1>1, <1>2, <1>3, <1>4, <1>5

\* What is linked was linked before the last messages came.
LEMMA LinkedPrefix ==
    ASSUME NEW a \in Seq(Message), NEW b \in Seq(Message), Linked(a \o b)
    PROVE  Linked(a)
<1>1. PICK z : z = a \o b
  OBVIOUS
<1>2. /\ DOMAIN z = 1..Len(z) /\ DOMAIN a = 1..Len(a)
      /\ \A n \in 1..Len(a) : n \in 1..Len(z) /\ z[n] = a[n]
  BY <1>1, Joined
<1>3. Linked(z)
  BY <1>1
<1>4. \A n \in DOMAIN a : n \in DOMAIN z /\ z[n] = a[n]
  BY <1>2
<1>5. /\ \A i \in DOMAIN a : Distinct(a[i].calls)
      /\ \A i \in DOMAIN a : IF IsTool(a[i]) THEN a[i].calls = <<>> ELSE a[i].call = NoCall
  BY <1>3, <1>4 DEF Linked
<1>6. \A i, j \in DOMAIN a : IsTool(a[i]) /\ IsTool(a[j]) /\ a[i].call = a[j].call => i = j
  BY <1>3, <1>4 DEF Linked
<1>7. \A i, j \in DOMAIN a : Range(a[i].calls) \cap Range(a[j].calls) # {} => i = j
  BY <1>3, <1>4 DEF Linked
<1>8. ASSUME NEW j \in DOMAIN a, IsTool(a[j])
      PROVE  \E i \in 1..(j - 1) :
                /\ a[j].call \in Range(a[i].calls)
                /\ \A k \in (i + 1)..(j - 1) : Beside(a[k])
  <2>1. PICK i \in 1..(j - 1) :
                /\ z[j].call \in Range(z[i].calls)
                /\ \A k \in (i + 1)..(j - 1) : Beside(z[k])
    BY <1>3, <1>4, <1>8 DEF Linked
  <2>2. \A k \in 1..(j - 1) : k \in DOMAIN a
    BY <1>2
  <2>3. \A k \in (i + 1)..(j - 1) : k \in 1..(j - 1)
    OBVIOUS
  <2> QED
    BY <1>4, <1>8, <2>1, <2>2, <2>3
<1> QED
  BY <1>5, <1>6, <1>7, <1>8 DEF Linked

\* A message that is no result and makes new calls.
LEMMA LinkedOne ==
    ASSUME NEW a \in Seq(Message), Linked(a), NEW m \in Message,
           ~IsTool(m), m.call = NoCall, Distinct(m.calls), Range(m.calls) \cap Asking(a) = {}
    PROVE  Linked(a \o <<m>>)
<1>1. PICK z : z = a \o <<m>>
  OBVIOUS
<1>2. PICK l \in Nat : l = Len(a)
  OBVIOUS
<1>3. /\ DOMAIN z = 1..(l + 1) /\ DOMAIN a = 1..l /\ z[l + 1] = m
      /\ \A n \in 1..l : z[n] = a[n]
  BY <1>1, <1>2
<1>4. \A n \in 1..(l + 1) : n = l + 1 \/ n \in 1..l
  OBVIOUS
<1>5. /\ \A i \in DOMAIN z : Distinct(z[i].calls)
      /\ \A i \in DOMAIN z : IF IsTool(z[i]) THEN z[i].calls = <<>> ELSE z[i].call = NoCall
  BY <1>3, <1>4 DEF Linked
<1>6. \A i, j \in DOMAIN z : IsTool(z[i]) /\ IsTool(z[j]) /\ z[i].call = z[j].call => i = j
  BY <1>3, <1>4 DEF Linked
<1>7. \A i \in 1..l : Range(m.calls) \cap Range(a[i].calls) = {}
  <2>1. \A i \in 1..l : a[i] \in Range(a)
    BY <1>3 DEF Range
  <2>2. \A x \in Range(a) : Range(x.calls) \subseteq Asking(a)
    BY DEF Asking
  <2> QED
    BY <2>1, <2>2
<1>8. \A i, j \in DOMAIN z : Range(z[i].calls) \cap Range(z[j].calls) # {} => i = j
  <2> TAKE i, j \in DOMAIN z
  <2>1. CASE i \in 1..l /\ j \in 1..l
    BY <1>3, <2>1 DEF Linked
  <2>2. CASE i = l + 1 /\ j \in 1..l
    BY <1>3, <1>7, <2>2
  <2>3. CASE j = l + 1 /\ i \in 1..l
    BY <1>3, <1>7, <2>3
  <2> QED
    BY <1>3, <1>4, <2>1, <2>2, <2>3
<1>9. ASSUME NEW j \in DOMAIN z, IsTool(z[j])
      PROVE  \E i \in 1..(j - 1) :
                /\ z[j].call \in Range(z[i].calls)
                /\ \A k \in (i + 1)..(j - 1) : Beside(z[k])
  <2>1. j \in 1..l /\ IsTool(a[j]) /\ z[j] = a[j]
    BY <1>3, <1>4, <1>9
  <2>2. PICK i \in 1..(j - 1) :
                /\ a[j].call \in Range(a[i].calls)
                /\ \A k \in (i + 1)..(j - 1) : Beside(a[k])
    BY <1>3, <2>1 DEF Linked
  <2>3. i \in 1..l /\ \A k \in (i + 1)..(j - 1) : k \in 1..l
    BY <2>1
  <2> QED
    BY <1>3, <2>1, <2>2, <2>3
<1>10. Linked(z)
  BY <1>5, <1>6, <1>8, <1>9 DEF Linked
<1> QED
  BY <1>1, <1>10

\* One result at most for each of some calls, and what was said besides.
Batch(ms, calls) ==
    /\ \A p \in DOMAIN ms :
          /\ Beside(ms[p]) /\ ms[p].calls = <<>>
          /\ IF IsTool(ms[p]) THEN ms[p].call \in calls ELSE ms[p].call = NoCall
    /\ \A p, q \in DOMAIN ms :
          IsTool(ms[p]) /\ IsTool(ms[q]) /\ ms[p].call = ms[q].call => p = q

\* After the message at i the assistant says nothing.
Trailed(ms, i) == \A k \in (i + 1)..Len(ms) : Beside(ms[k])

Open(ms, i) == Range(ms[i].calls) \ AnsweredIn(ms)

\* Results for calls of the last message that makes any.
LEMMA LinkedBatch ==
    ASSUME NEW a \in Seq(Message), Linked(a), NEW i \in 1..Len(a), Trailed(a, i),
           NEW b \in Seq(Message), Batch(b, Open(a, i))
    PROVE  /\ Linked(a \o b)
           /\ Trailed(a \o b, i)
<1>1. PICK z : z = a \o b
  OBVIOUS
<1>2. PICK l \in Nat : l = Len(a)
  OBVIOUS
<1>3. PICK m \in Nat : m = Len(b)
  OBVIOUS
<1>4. /\ DOMAIN z = 1..(l + m) /\ DOMAIN a = 1..l /\ DOMAIN b = 1..m /\ Len(z) = l + m
      /\ \A n \in 1..l : z[n] = a[n]
      /\ \A p \in 1..m : z[l + p] = b[p]
      /\ \A n \in 1..(l + m) : n \in 1..l \/ \E p \in 1..m : n = l + p
  <2>1. DOMAIN z = 1..Len(z) /\ Len(z) = l + m
    BY <1>1, <1>2, <1>3, Joined
  <2>2. \A n \in 1..l : z[n] = a[n]
    BY <1>1, <1>2, Joined
  <2>3. \A p \in 1..m : z[l + p] = b[p]
    BY <1>1, <1>2, <1>3, Joined
  <2>4. \A n \in 1..(l + m) : n \in 1..l \/ \E p \in 1..m : n = l + p
    <3> TAKE n \in 1..(l + m)
    <3>1. n > l => n - l \in 1..m /\ n = l + (n - l)
      OBVIOUS
    <3> QED
      BY <3>1
  <2>5. DOMAIN a = 1..l /\ DOMAIN b = 1..m
    BY <1>2, <1>3
  <2> QED
    BY <2>1, <2>2, <2>3, <2>4, <2>5
<1>5. /\ \A p \in 1..m :
            /\ Beside(b[p]) /\ b[p].calls = <<>>
            /\ IF IsTool(b[p]) THEN b[p].call \in Open(a, i) ELSE b[p].call = NoCall
      /\ \A p, q \in 1..m :
            IsTool(b[p]) /\ IsTool(b[q]) /\ b[p].call = b[q].call => p = q
  BY <1>4 DEF Batch
<1>6. /\ Range(<<>>) = {} /\ Distinct(<<>>)
  BY DEF Range, Distinct
<1>7. \A n \in 1..(l + m) :
         \/ n \in 1..l /\ z[n] = a[n]
         \/ \E p \in 1..m :
               /\ n = l + p /\ z[n] = b[p] /\ Beside(z[n]) /\ z[n].calls = <<>>
               /\ IF IsTool(z[n]) THEN z[n].call \in Open(a, i) ELSE z[n].call = NoCall
  <2> TAKE n \in 1..(l + m)
  <2>1. CASE n \in 1..l
    BY <1>4, <2>1
  <2>2. ASSUME NEW p \in 1..m, n = l + p
        PROVE  /\ z[n] = b[p] /\ Beside(z[n]) /\ z[n].calls = <<>>
               /\ IF IsTool(z[n]) THEN z[n].call \in Open(a, i) ELSE z[n].call = NoCall
    <3>1. z[n] = b[p]
      BY <1>4, <2>2
    <3>2. /\ Beside(b[p]) /\ b[p].calls = <<>>
          /\ IF IsTool(b[p]) THEN b[p].call \in Open(a, i) ELSE b[p].call = NoCall
      BY <1>5
    <3> QED
      BY <3>1, <3>2, Zenon
  <2> QED
    BY <1>4, <2>1, <2>2
<1>8. \A n \in 1..l : IsTool(a[n]) => a[n].call \notin Open(a, i)
  BY <1>4 DEF AnsweredIn, IsTool, Open
<1>9. \A n \in DOMAIN z : Distinct(z[n].calls)
  BY <1>4, <1>6, <1>7 DEF Linked
<1>10. \A n \in DOMAIN z : IF IsTool(z[n]) THEN z[n].calls = <<>> ELSE z[n].call = NoCall
  BY <1>4, <1>7 DEF Linked
<1>11. ASSUME NEW x \in DOMAIN z, NEW y \in DOMAIN z,
              IsTool(z[x]), IsTool(z[y]), z[x].call = z[y].call
       PROVE  x = y
  <2>1. CASE x \in 1..l /\ y \in 1..l
    BY <1>4, <1>11, <2>1 DEF Linked
  <2>2. CASE x \in 1..l /\ y \notin 1..l
    BY <1>4, <1>7, <1>8, <1>11, <2>2
  <2>3. CASE x \notin 1..l /\ y \in 1..l
    BY <1>4, <1>7, <1>8, <1>11, <2>3
  <2>4. CASE x \notin 1..l /\ y \notin 1..l
    <3>1. PICK p \in 1..m : x = l + p /\ z[x] = b[p]
      BY <1>4, <1>7, <2>4
    <3>2. PICK q \in 1..m : y = l + q /\ z[y] = b[q]
      BY <1>4, <1>7, <2>4
    <3>3. p = q
      BY <1>5, <1>11, <3>1, <3>2
    <3> QED
      BY <3>1, <3>2, <3>3
  <2> QED
    BY <2>1, <2>2, <2>3, <2>4
<1>12. ASSUME NEW x \in DOMAIN z, NEW y \in DOMAIN z,
              Range(z[x].calls) \cap Range(z[y].calls) # {}
       PROVE  x = y
  <2>1. z[x].calls # <<>> /\ z[y].calls # <<>>
    BY <1>6, <1>12
  <2>2. x \in 1..l /\ y \in 1..l /\ z[x] = a[x] /\ z[y] = a[y]
    BY <1>4, <1>7, <2>1
  <2> QED
    BY <1>4, <1>12, <2>2 DEF Linked
<1>13. Trailed(z, i)
  <2> SUFFICES ASSUME NEW k \in (i + 1)..Len(z)
               PROVE  Beside(z[k])
    BY DEF Trailed
  <2>1. k \in 1..(l + m) /\ i \in 1..l
    BY <1>2, <1>4
  <2>2. k \in 1..l => k \in (i + 1)..Len(a)
    BY <1>2
  <2> QED
    BY <1>7, <2>1, <2>2 DEF Trailed
<1>14. ASSUME NEW j \in DOMAIN z, IsTool(z[j])
       PROVE  \E n \in 1..(j - 1) :
                /\ z[j].call \in Range(z[n].calls)
                /\ \A k \in (n + 1)..(j - 1) : Beside(z[k])
  <2>1. CASE j \in 1..l
    <3>1. PICK n \in 1..(j - 1) :
                /\ a[j].call \in Range(a[n].calls)
                /\ \A k \in (n + 1)..(j - 1) : Beside(a[k])
      BY <1>4, <1>14, <2>1 DEF Linked
    <3>2. n \in 1..l /\ \A k \in (n + 1)..(j - 1) : k \in 1..l
      BY <2>1
    <3> QED
      BY <1>4, <2>1, <3>1, <3>2
  <2>2. CASE j \notin 1..l
    <3>1. z[j].call \in Open(a, i) /\ j \in 1..(l + m)
      BY <1>4, <1>7, <1>14, <2>2
    <3>2. i \in 1..l /\ i \in 1..(j - 1)
      BY <1>2, <2>2, <3>1
    <3>3. z[i] = a[i] /\ z[j].call \in Range(z[i].calls)
      BY <1>4, <3>1, <3>2 DEF Open
    <3>4. \A k \in (i + 1)..(j - 1) : k \in (i + 1)..Len(z)
      BY <1>4, <3>1
    <3> QED
      BY <1>13, <3>2, <3>3, <3>4 DEF Trailed
  <2> QED
    BY <2>1, <2>2
<1>15. Linked(z)
  BY <1>9, <1>10, <1>11, <1>12, <1>14 DEF Linked
<1> QED
  BY <1>1, <1>13, <1>15

\* A log is rendered event by event.
LEMMA RawJoins ==
    ASSUME NEW a \in Seq(Event), NEW b \in Seq(Event)
    PROVE  Raw(a \o b) = Raw(a) \o Raw(b)
<1>1. a \o b \in Seq(Event)
  BY ConcatProperties
<1>2. Each(Rendered, a \o b) = Each(Rendered, a) \o Each(Rendered, b)
  BY RenderedType, EachJoins
<1> QED
  BY <1>1, <1>2, RawIs

\* One event is rendered by itself.
LEMMA RawOne ==
    ASSUME NEW e \in Event
    PROVE  Raw(<<e>>) = MessagesOf(e) /\ MessagesOf(e) \in Seq(Message)
<1>1. PICK x \in Seq(Message) : x = MessagesOf(e)
  BY RenderedType DEF Rendered, Lists
<1>2. Raw(<<e>>) = FlattenSeq(<<x>>)
  <2>1. [i \in DOMAIN <<e>> |-> MessagesOf(<<e>>[i])] = <<x>>
    <3>1. DOMAIN <<e>> = 1..1 /\ <<e>>[1] = e /\ 1..1 = {1}
      OBVIOUS
    <3>2. [i \in {1} |-> MessagesOf(<<e>>[i])] = [i \in {1} |-> x]
      BY <1>1, <3>1
    <3>3. <<x>> = [i \in {1} |-> x]
      OBVIOUS
    <3> QED
      BY <3>1, <3>2, <3>3
  <2> QED
    BY <2>1 DEF Raw
<1>3. PICK s \in Seq(Seq(Message)) : s = <<x>>
  <2>1. \A S : x \in S => <<x>> \in Seq(S)
    OBVIOUS
  <2> QED
    BY <2>1
<1>4. Len(s) = 1 /\ s[1] = x
  BY <1>3
<1>5. PICK f \in [0..Len(s) -> Seq(Message)] :
              /\ f[0] = <<>>
              /\ \A n \in 1..Len(s) : f[n] = f[n - 1] \o s[n]
              /\ FlattenSeq(s) = f[Len(s)]
  BY FlattenIs
<1>6. f[1] = f[0] \o x /\ FlattenSeq(s) = f[1]
  BY <1>4, <1>5
<1>7. FlattenSeq(s) = x
  BY <1>5, <1>6, ConcatEmptySeq
<1> QED
  BY <1>1, <1>2, <1>3, <1>7

\* Results without images, for different calls.
Replies(new, calls) ==
    /\ \A i \in DOMAIN new : Answers(new[i]) /\ ~new[i].image /\ new[i].call \in calls
    /\ \A i, j \in DOMAIN new : new[i].call = new[j].call => i = j

\* Each result is one message.
LEMMA RepliesAreBatch ==
    ASSUME NEW new \in Seq(Event), NEW calls, Replies(new, calls)
    PROVE  Batch(Raw(new), calls)
<1>1. PICK out : out = Raw(new)
  OBVIOUS
<1>2. out \in Seq(Message) /\ out = Each(Rendered, new)
  BY <1>1, RawIs
<1>3. PICK parts \in Seq(Seq(Message)) : \E off :
              /\ Len(parts) = Len(new)
              /\ \A n \in 1..Len(new) : parts[n] = Rendered[new[n]]
              /\ Places(off, parts, Each(Rendered, new))
  BY RenderedType, EachPlaces
<1>4. PICK off :
              /\ Len(parts) = Len(new)
              /\ \A n \in 1..Len(new) : parts[n] = Rendered[new[n]]
              /\ Places(off, parts, out)
  BY <1>2, <1>3
<1>5. DOMAIN new = 1..Len(new) /\ DOMAIN out = 1..Len(out)
  BY <1>2
<1>6. ASSUME NEW n \in 1..Len(new)
      PROVE  parts[n] = <<ToolMessage(new[n].id, new[n].call)>>
  <2>1. new[n] \in Event /\ Answers(new[n]) /\ ~new[n].image
    BY <1>5 DEF Replies
  <2>2. PICK t : t = ToolMessage(new[n].id, new[n].call)
    OBVIOUS
  <2>3. MessagesOf(new[n]) = <<t>> \o <<>>
    BY <2>1, <2>2 DEF MessagesOf, MessageKinds, Answers
  <2>4. t \in Message
    BY <2>1, <2>2, BoundsAssumption
       DEF Answers, Event, MessageKinds, ToolMessage, Message
  <2>5. <<t>> \o <<>> = <<t>>
    BY <2>4, TwoJoin
  <2>6. parts[n] = MessagesOf(new[n])
    BY <1>4, <2>1 DEF Rendered
  <2> QED
    BY <2>2, <2>3, <2>5, <2>6
<1>7. ASSUME NEW p \in DOMAIN out
      PROVE  \E n \in 1..Len(new) : p = off[n] + 1 /\ out[p] = ToolMessage(new[n].id, new[n].call)
  <2>1. PICK n \in 1..Len(new) : \E k \in 1..Len(parts[n]) : p = off[n] + k
    <3>1. \A x \in 1..Len(out) : \E n \in 1..Len(parts) : \E k \in 1..Len(parts[n]) :
             x = off[n] + k
      BY <1>4 DEF Places
    <3> QED
      BY <1>4, <1>5, <3>1
  <2>2. PICK k \in 1..Len(parts[n]) : p = off[n] + k
    BY <2>1
  <2>3. PICK t : t = ToolMessage(new[n].id, new[n].call)
    OBVIOUS
  <2>4. Len(parts[n]) = 1 /\ parts[n][1] = t
    <3>1. parts[n] = <<t>>
      BY <1>6, <2>3
    <3>2. Len(<<t>>) = 1 /\ <<t>>[1] = t
      OBVIOUS
    <3> QED
      BY <3>1, <3>2
  <2>5. k = 1
    BY <2>4
  <2>6. out[off[n] + k] = parts[n][k]
    BY <1>4, <2>2 DEF Places
  <2> QED
    BY <2>2, <2>3, <2>4, <2>5, <2>6
<1>8. \A id, c : /\ IsTool(ToolMessage(id, c)) /\ ToolMessage(id, c).calls = <<>>
                 /\ ToolMessage(id, c).call = c /\ Beside(ToolMessage(id, c))
  BY DEF IsTool, Beside, ToolMessage
<1>9. ASSUME NEW p \in DOMAIN out
      PROVE  /\ IsTool(out[p]) /\ Beside(out[p]) /\ out[p].calls = <<>>
             /\ out[p].call \in calls
  <2>1. PICK n \in 1..Len(new) : p = off[n] + 1 /\ out[p] = ToolMessage(new[n].id, new[n].call)
    BY <1>7
  <2>2. new[n].call \in calls
    BY <1>5 DEF Replies
  <2> QED
    BY <1>8, <2>1, <2>2
<1>10. ASSUME NEW p \in DOMAIN out, NEW q \in DOMAIN out, out[p].call = out[q].call
       PROVE  p = q
  <2>1. PICK m \in 1..Len(new) : p = off[m] + 1 /\ out[p] = ToolMessage(new[m].id, new[m].call)
    BY <1>7
  <2>2. PICK n \in 1..Len(new) : q = off[n] + 1 /\ out[q] = ToolMessage(new[n].id, new[n].call)
    BY <1>7
  <2>3. new[m].call = new[n].call
    BY <1>8, <1>10, <2>1, <2>2
  <2>4. m = n
    BY <1>5, <2>3 DEF Replies
  <2> QED
    BY <2>1, <2>2, <2>4
<1> QED
  BY <1>1, <1>9, <1>10 DEF Batch

\* One result, with its image or without, and something said.
LEMMA OneIsBatch ==
    ASSUME NEW e \in Event, NEW calls,
           \/ e.kind \in MessageKinds
           \/ Answers(e) /\ e.call \in calls
    PROVE  Batch(Raw(<<e>>), calls)
<1>1. Raw(<<e>>) = MessagesOf(e)
  BY RawOne
<1>2. PICK t : t = ToolMessage(e.id, e.call)
  OBVIOUS
<1>3. PICK u : u = UserMessage(e.id)
  OBVIOUS
<1>4. /\ ~IsTool(u) /\ Beside(u) /\ u.calls = <<>> /\ u.call = NoCall
      /\ IsTool(t) /\ Beside(t) /\ t.calls = <<>> /\ t.call = e.call
  BY <1>2, <1>3 DEF IsTool, Beside, ToolMessage, UserMessage
<1>5. CASE e.kind \in MessageKinds
  <2>1. MessagesOf(e) = <<u>>
    BY <1>3, <1>5 DEF MessagesOf, MessageKinds
  <2>2. DOMAIN <<u>> = {1} /\ <<u>>[1] = u
    OBVIOUS
  <2> QED
    BY <1>1, <1>4, <2>1, <2>2 DEF Batch
<1>6. CASE Answers(e) /\ e.call \in calls
  <2>1. t \in Message /\ u \in Message
    BY <1>2, <1>3, <1>6, BoundsAssumption
       DEF Answers, Event, MessageKinds, ToolMessage, UserMessage, Message
  <2>2. MessagesOf(e) = <<t>> \o (IF e.image THEN <<u>> ELSE <<>>)
    BY <1>2, <1>3, <1>6 DEF MessagesOf, MessageKinds, Answers
  <2>3. <<t>> \o <<u>> = <<t, u>> /\ <<t>> \o <<>> = <<t>>
    BY <2>1, TwoJoin
  <2>4. CASE e.image
    <3>1. MessagesOf(e) = <<t, u>>
      BY <2>2, <2>3, <2>4
    <3>2. DOMAIN <<t, u>> = {1, 2} /\ <<t, u>>[1] = t /\ <<t, u>>[2] = u
      OBVIOUS
    <3> QED
      BY <1>1, <1>4, <1>6, <3>1, <3>2 DEF Batch
  <2>5. CASE ~e.image
    <3>1. MessagesOf(e) = <<t>>
      BY <2>2, <2>3, <2>5
    <3>2. DOMAIN <<t>> = {1} /\ <<t>>[1] = t
      OBVIOUS
    <3> QED
      BY <1>1, <1>4, <1>6, <3>1, <3>2 DEF Batch
  <2> QED
    BY <2>4, <2>5
<1> QED
  BY <1>5, <1>6

\* Of the messages after the first n: each call has its one result, and each result
\* its call, or a message between itself and a call that comes before them.
ValidAfter(ms, n) ==
    /\ \A i \in (n + 1)..Len(ms) : \A c \in Range(ms[i].calls) :
          \E j \in (i + 1)..Len(ms) : {k \in DOMAIN ms : ms[k].call = c} = {j}
    /\ \A j \in (n + 1)..Len(ms) : ms[j].role = "tool" =>
          \E i \in 1..(j - 1) :
             /\ ms[j].call \in Range(ms[i].calls)
             /\ i <= n => \E k \in (i + 1)..(j - 1) : ms[k].role = "user"

\* A cut before a message that is no result divides only batches which a message
\* of the user's has come into.
LEMMA CutKeepsPairs ==
    ASSUME NEW ms \in Seq(Message), Paired(ms), NEW s, SumsUp(ms, s)
    PROVE  ValidAfter(ms, s.count)
<1>1. PICK L \in Nat : L = Len(ms)
  OBVIOUS
<1>2. PICK n \in 0..L : n = s.count
  BY <1>1 DEF SumsUp
<1>3. DOMAIN ms = 1..L
  BY <1>1
<1>4. n # 0 => n < L /\ ~IsTool(ms[n + 1])
  BY <1>1, <1>2 DEF SumsUp, StartsClean, IsTool
<1>5. ASSUME NEW i \in (n + 1)..L, NEW c \in Range(ms[i].calls)
      PROVE  \E j \in (i + 1)..L : {k \in DOMAIN ms : ms[k].call = c} = {j}
  <2>1. i \in DOMAIN ms
    BY <1>3
  <2>2. PICK j \in DOMAIN ms :
             /\ i < j /\ ms[j].call = c
             /\ \A k \in DOMAIN ms : ms[k].call = c => k = j
    BY <2>1, <1>5 DEF Paired
  <2>3. j \in (i + 1)..L
    BY <1>3, <2>2
  <2>4. {k \in DOMAIN ms : ms[k].call = c} = {j}
    BY <2>2
  <2> QED
    BY <2>3, <2>4
<1>6. ASSUME NEW j \in (n + 1)..L, ms[j].role = "tool"
      PROVE  \E i \in 1..(j - 1) :
                /\ ms[j].call \in Range(ms[i].calls)
                /\ i <= n => \E k \in (i + 1)..(j - 1) : ms[k].role = "user"
  <2>1. j \in DOMAIN ms /\ IsTool(ms[j])
    BY <1>3, <1>6 DEF IsTool
  <2>2. PICK i \in 1..(j - 1) : ms[j].call \in Range(ms[i].calls)
    BY <2>1 DEF Paired
  <2>3. ASSUME i <= n
        PROVE  \E k \in (i + 1)..(j - 1) : ms[k].role = "user"
    <3>1. n # 0 /\ n + 1 <= j /\ i \in DOMAIN ms
      BY <1>3, <2>2, <2>3
    <3>2. n + 1 # j
      BY <1>4, <2>1, <3>1
    <3>3. n + 1 \in (i + 1)..(j - 1) /\ n + 1 \in DOMAIN ms /\ n + 1 \in (i + 1)..j
      BY <1>3, <2>2, <2>3, <3>1, <3>2
    <3>4. PICK m \in DOMAIN ms :
             /\ ms[m].call = ms[j].call
             /\ \A k \in (i + 1)..m : Beside(ms[k])
             /\ \A k \in DOMAIN ms : ms[k].call = ms[j].call => k = m
      BY <2>2, <3>1 DEF Paired
    <3>5. m = j
      BY <2>1, <3>4
    <3>6. Beside(ms[n + 1]) /\ ~IsTool(ms[n + 1])
      BY <1>4, <3>1, <3>3, <3>4, <3>5
    <3>7. ms[n + 1].role \in {"user", "assistant", "tool"}
      <4>1. ms[n + 1] \in Message
        BY <3>3
      <4> QED
        BY <4>1 DEF Message
    <3> QED
      BY <3>3, <3>6, <3>7 DEF Beside, IsTool
  <2> QED
    BY <2>2, <2>3
<1> QED
  BY <1>1, <1>2, <1>5, <1>6 DEF ValidAfter

\* The calls that wait have no result, and the assistant has said nothing since.
Waits(ms, calls) ==
    /\ Distinct(calls)
    /\ \E i \in 1..Len(ms) : Trailed(ms, i) /\ Range(calls) \subseteq Open(ms, i)

\* The conversation as it is before it is repaired.
Chat ==
    /\ Linked(Raw(log))
    /\ phase = "tools" => Waits(Raw(log), todo)

\* One event is published.
LEMMA OnePublished ==
    ASSUME Inv, Inv', NEW e, Publish(<<e>>)
    PROVE  /\ e \in Event /\ log \in Seq(Event) /\ Raw(log) \in Seq(Message)
           /\ log' = log \o <<e>>
           /\ Raw(log') = Raw(log) \o MessagesOf(e) /\ MessagesOf(e) \in Seq(Message)
<1>1. log \in Seq(Event) /\ log' \in Seq(Event) /\ log' = log \o <<e>>
  BY DEF Inv, Sound, Publish
<1>2. e \in Event
  <2>1. Len(log) + 1 \in 1..Len(log') /\ log'[Len(log) + 1] = e
    BY <1>1
  <2> QED
    BY <1>1, <2>1
<1>3. <<e>> \in Seq(Event)
  BY <1>2
<1>4. Raw(log \o <<e>>) = Raw(log) \o Raw(<<e>>)
  BY <1>1, <1>3, RawJoins
<1>5. Raw(<<e>>) = MessagesOf(e) /\ MessagesOf(e) \in Seq(Message)
  BY <1>2, RawOne
<1> QED
  BY <1>1, <1>2, <1>4, <1>5, RawIs

\* The calls of the log and those answered in it bear names that are taken.
LEMMA CallsAreOld ==
    ASSUME Inv
    PROVE  \A c \in Asking(Raw(log)) \cup AnsweredIn(Raw(log)) : c[1] < next
<1>1. /\ log \in Seq(Event) /\ Ordered(log) /\ Fresh(log, next) /\ next \in Nat
  BY DEF Inv, Sound
<1>2. AnsweredIn(Raw(log)) = Answered(log) /\ Asking(Raw(log)) = Asked(log)
  BY <1>1, RawAsksAndAnswers
<1>3. ASSUME NEW c \in Asked(log)
      PROVE  c[1] < next
  <2>1. PICK e \in Range(log) : Asks(e) /\ c \in Range(e.calls)
    BY DEF Asked
  <2>2. PICK i \in DOMAIN log : e = log[i]
    BY <2>1 DEF Range
  <2>3. PICK k \in DOMAIN e.calls : c = e.calls[k]
    BY <2>1 DEF Range
  <2>4. c = <<e.id, k>>
    BY <1>1, <2>1, <2>2, <2>3 DEF Ordered
  <2> QED
    BY <1>1, <2>2, <2>4 DEF Fresh
<1>4. ASSUME NEW c \in Answered(log)
      PROVE  c[1] < next
  <2>1. PICK e \in Range(log) : Answers(e) /\ c = e.call
    BY DEF Answered
  <2>2. PICK i \in DOMAIN log : e = log[i]
    BY <2>1 DEF Range
  <2>3. c[1] < e.id /\ e.id < next
    BY <1>1, <2>1, <2>2 DEF Ordered, Fresh
  <2>4. c[1] \in Nat /\ e.id \in Nat
    BY <1>1, <2>1, <2>2, EventTyped
  <2> QED
    BY <1>1, <2>3, <2>4
<1> QED
  BY <1>2, <1>3, <1>4

\* A message that is no result, and the calls it makes.
LEMMA PlainChat ==
    ASSUME Inv, Inv', Chat, NEW e, Publish(<<e>>),
           NEW m, MessagesOf(e) = <<m>>, ~IsTool(m), m.call = NoCall,
           \A k \in DOMAIN m.calls : m.calls[k] = <<next, k>>
    PROVE  Linked(Raw(log'))
<1>1. /\ Raw(log) \in Seq(Message) /\ Raw(log') = Raw(log) \o <<m>>
      /\ <<m>> \in Seq(Message)
  BY OnePublished
<1>2. m \in Message
  <2>1. <<m>>[1] = m /\ 1 \in DOMAIN <<m>>
    OBVIOUS
  <2> QED
    BY <1>1, <2>1
<1>3. Distinct(m.calls)
  BY DEF Distinct
<1>4. Range(m.calls) \cap Asking(Raw(log)) = {}
  <2> SUFFICES ASSUME NEW c \in Range(m.calls), c \in Asking(Raw(log))
               PROVE  FALSE
    OBVIOUS
  <2>1. PICK k \in DOMAIN m.calls : c = m.calls[k]
    BY DEF Range
  <2>2. c[1] = next
    BY <2>1
  <2>3. c[1] < next /\ next \in Nat
    BY CallsAreOld DEF Inv, Sound
  <2> QED
    BY <2>2, <2>3
<1> QED
  BY <1>1, <1>2, <1>3, <1>4, LinkedOne DEF Chat

\* Results are published for calls that wait, or something is said meanwhile.
LEMMA ResultsChat ==
    ASSUME log \in Seq(Event), Linked(Raw(log)), NEW i \in 1..Len(Raw(log)), Trailed(Raw(log), i),
           NEW new \in Seq(Event), Batch(Raw(new), Open(Raw(log), i)), log' = log \o new
    PROVE  /\ Linked(Raw(log')) /\ Trailed(Raw(log'), i)
           /\ i \in 1..Len(Raw(log')) /\ Raw(log')[i] = Raw(log)[i]
<1>1. PICK a \in Seq(Message) : a = Raw(log)
  BY RawIs
<1>2. PICK b \in Seq(Message) : b = Raw(new)
  BY RawIs
<1>3. Raw(log') = a \o b
  BY <1>1, <1>2, RawJoins
<1>4. Batch(b, Open(a, i))
  BY <1>1, <1>2
<1>5. Linked(a \o b) /\ Trailed(a \o b, i)
  BY <1>1, <1>4, LinkedBatch
<1>6. i \in 1..Len(a \o b) /\ (a \o b)[i] = a[i]
  BY <1>1, Joined
<1> QED
  BY <1>1, <1>3, <1>5, <1>6

\* Prompt leaves each result after its call.
LEMMA PromptChat ==
    ASSUME Inv, Inv', Chat, Prompt
    PROVE  Chat'
<1>1. Publish(<<Said("user.message", next)>>) /\ phase' = "step"
  BY DEF Prompt
<1>2. MessagesOf(Said("user.message", next)) = <<UserMessage(next)>>
  BY DEF Said, MessageKinds, MessagesOf
<1>3. /\ ~IsTool(UserMessage(next)) /\ UserMessage(next).call = NoCall
      /\ DOMAIN UserMessage(next).calls = {}
  BY DEF UserMessage, IsTool
<1>4. Linked(Raw(log'))
  BY <1>1, <1>2, <1>3, PlainChat
<1> QED
  BY <1>1, <1>4 DEF Chat

\* Hear leaves each result after its call, in the midst of a batch too.
LEMMA HearChat ==
    ASSUME Inv, Inv', Chat, NEW kind \in Asides, Hear(kind)
    PROVE  Chat'
<1>1. PICK e : e = Said(kind, next)
  OBVIOUS
<1>2. /\ Publish(<<e>>) /\ todo' = todo
      /\ phase' \in IF phase = "idle" THEN {"idle", "step"} ELSE {phase}
  BY <1>1 DEF Hear
<1>3. e.kind \in MessageKinds /\ e.id = next
  BY <1>1, BoundsAssumption DEF Said
<1>4. MessagesOf(e) = <<UserMessage(next)>>
  BY <1>3 DEF MessagesOf, MessageKinds
<1>5. /\ ~IsTool(UserMessage(next)) /\ UserMessage(next).call = NoCall
      /\ DOMAIN UserMessage(next).calls = {}
  BY DEF UserMessage, IsTool
<1>6. Linked(Raw(log'))
  BY <1>2, <1>4, <1>5, PlainChat
<1>7. CASE phase # "tools"
  BY <1>2, <1>6, <1>7 DEF Chat
<1>8. CASE phase = "tools"
  <2>1. PICK i \in 1..Len(Raw(log)) :
           Trailed(Raw(log), i) /\ Range(todo) \subseteq Open(Raw(log), i)
    BY <1>8 DEF Chat, Waits
  <2>2. PICK new : new = <<e>>
    OBVIOUS
  <2>3. e \in Event /\ log \in Seq(Event) /\ log' = log \o new
    BY <1>2, <2>2, OnePublished
  <2>4. new \in Seq(Event)
    BY <2>2, <2>3
  <2>5. Batch(Raw(new), Open(Raw(log), i))
    BY <1>3, <2>2, <2>3, OneIsBatch
  <2>6. /\ Trailed(Raw(log'), i)
        /\ i \in 1..Len(Raw(log')) /\ Raw(log')[i] = Raw(log)[i]
    BY <2>1, <2>3, <2>4, <2>5, ResultsChat DEF Chat
  <2>7. AnsweredIn(Raw(log')) = AnsweredIn(Raw(log))
    <3>1. Range(log \o new) = Range(log) \cup Range(new)
      BY <2>3, <2>4, RangeConcatenation
    <3>2. Range(new) = {e}
      BY <2>2 DEF Range
    <3>3. ~Answers(e)
      BY <1>3 DEF MessageKinds, Answers
    <3>4. Answered(log') = Answered(log)
      BY <2>3, <3>1, <3>2, <3>3 DEF Answered
    <3>5. log' \in Seq(Event)
      BY DEF Inv, Sound
    <3> QED
      BY <2>3, <3>4, <3>5, RawAsksAndAnswers
  <2>8. Waits(Raw(log'), todo)
    <3>1. Distinct(todo)
      BY <1>8 DEF Chat, Waits
    <3>2. Range(todo) \subseteq Open(Raw(log'), i)
      BY <2>1, <2>6, <2>7 DEF Open
    <3> QED
      BY <2>6, <3>1, <3>2 DEF Waits
  <2> QED
    BY <1>2, <1>6, <2>8 DEF Chat
<1> QED
  BY <1>7, <1>8

\* Fold leaves each result after its call.
LEMMA FoldChat ==
    ASSUME Inv, Inv', Chat, NEW raw, Fold(raw)
    PROVE  Chat'
<1>1. Publish(<<Summarized(next, summary')>>) /\ phase = "fitting" /\ phase' = phase
  BY DEF Fold
<1>2. MessagesOf(Summarized(next, summary')) = <<>>
  BY DEF Summarized, MessageKinds, MessagesOf
<1>3. Raw(log') = Raw(log) \o <<>> /\ Raw(log) \in Seq(Message)
  BY <1>1, <1>2, OnePublished
<1>4. Raw(log') = Raw(log)
  BY <1>3, ConcatEmptySeq
<1> QED
  BY <1>1, <1>4 DEF Chat

\* Respond leaves each result after its call.
LEMMA RespondChat ==
    ASSUME Inv, Inv', Chat, NEW n \in 0..MaxCalls, Respond(n)
    PROVE  Chat'
<1> DEFINE q == [k \in 1..n |-> <<next, k>>]
           e == Assistant(next, n)
           m == AssistantMessage(next, q)
<1>1. Publish(<<e>>) /\ todo' = q
  BY DEF Respond
<1>2. MessagesOf(e) = <<m>>
  BY DEF Assistant, MessageKinds, MessagesOf
<1>3. ~IsTool(m) /\ m.call = NoCall /\ m.calls = q
  BY DEF AssistantMessage, IsTool
<1>4. /\ \A k \in DOMAIN q : q[k] = <<next, k>>
      /\ Distinct(q)
  BY DEF Distinct
<1> HIDE DEF q, e, m
<1>5. Linked(Raw(log'))
  BY <1>1, <1>2, <1>3, <1>4, PlainChat
<1>6. Waits(Raw(log'), q)
  <2>1. PICK a \in Seq(Message) : a = Raw(log)
    BY RawIs DEF Inv, Sound
  <2>2. PICK z : z = Raw(log')
    OBVIOUS
  <2>3. z = a \o <<m>>
    BY <1>1, <1>2, <2>1, <2>2, OnePublished
  <2>4. PICK l \in Nat : l = Len(a)
    OBVIOUS
  <2>5. /\ Len(z) = l + 1 /\ z[l + 1] = m /\ DOMAIN z = 1..(l + 1)
        /\ \A x \in 1..l : z[x] = a[x]
    BY <2>3, <2>4
  <2>6. Trailed(z, l + 1) /\ l + 1 \in 1..Len(z)
    BY <2>5 DEF Trailed
  <2>7. AnsweredIn(z) \subseteq AnsweredIn(a)
    <3>1. \A x \in 1..(l + 1) : z[x].role = "tool" => x \in 1..l
      BY <1>3, <2>5 DEF IsTool
    <3>2. DOMAIN a = 1..l
      BY <2>4
    <3> QED
      BY <2>5, <3>1, <3>2 DEF AnsweredIn
  <2>8. \A c \in Range(q) : c \notin AnsweredIn(a)
    <3> TAKE c \in Range(q)
    <3>1. c[1] = next
      BY <1>4 DEF Range
    <3>2. c \in AnsweredIn(a) => c[1] < next
      BY <2>1, CallsAreOld
    <3>3. next \in Nat
      BY DEF Inv, Sound
    <3> QED
      BY <3>1, <3>2, <3>3
  <2>9. Range(q) \subseteq Open(z, l + 1)
    BY <1>3, <2>5, <2>7, <2>8 DEF Open
  <2> QED
    BY <1>4, <2>2, <2>6, <2>9 DEF Waits
<1> QED
  BY <1>1, <1>5, <1>6 DEF Chat

\* Answer leaves each result after its call.
LEMMA AnswerChat ==
    ASSUME Inv, Inv', Chat, NEW image \in Images, Answer(image)
    PROVE  Chat'
<1> DEFINE e == Result(next, Head(todo), image)
           new == <<e>>
<1>1. /\ phase = "tools" /\ Publish(new) /\ todo' = Tail(todo)
      /\ phase' = IF Len(todo) = 1 THEN "step" ELSE "tools"
  BY DEF Answer
<1>2. /\ todo \in Seq(Call) /\ todo # <<>> /\ Len(todo) \in Nat \ {0}
      /\ DOMAIN todo = 1..Len(todo)
  BY <1>1, EmptySeq DEF Inv, Typed
<1>3. PICK c : c = todo[1]
  OBVIOUS
<1>4. /\ Head(todo) = c /\ c \in Range(todo)
      /\ DOMAIN Tail(todo) = 1..(Len(todo) - 1)
      /\ \A k \in DOMAIN Tail(todo) : k + 1 \in DOMAIN todo /\ Tail(todo)[k] = todo[k + 1]
  BY <1>2, <1>3 DEF Range
<1>5. Answers(e) /\ e.call = c
  BY <1>4 DEF Result, Answers
<1> HIDE DEF e
<1>6. e \in Event /\ log \in Seq(Event) /\ log' = log \o <<e>>
  BY <1>1, OnePublished
<1>7. new \in Seq(Event) /\ DOMAIN new = {1} /\ new[1] = e
  BY <1>6
<1> HIDE DEF new
<1>8. PICK i \in 1..Len(Raw(log)) :
         Trailed(Raw(log), i) /\ Range(todo) \subseteq Open(Raw(log), i)
  BY <1>1 DEF Chat, Waits
<1>9. Batch(Raw(new), Open(Raw(log), i))
  <2>1. e.call \in Open(Raw(log), i)
    BY <1>4, <1>5, <1>8
  <2> QED
    BY <1>5, <1>6, <2>1, OneIsBatch DEF new
<1>10. log' = log \o new
  BY <1>6 DEF new
<1>11. /\ Linked(Raw(log')) /\ Trailed(Raw(log'), i)
       /\ i \in 1..Len(Raw(log')) /\ Raw(log')[i] = Raw(log)[i]
  BY <1>6, <1>7, <1>8, <1>9, <1>10, ResultsChat DEF Chat
<1>12. AnsweredIn(Raw(log')) = AnsweredIn(Raw(log)) \cup {c}
  <2>1. Range(log') = Range(log) \cup {e}
    <3>1. Range(log \o new) = Range(log) \cup Range(new)
      BY <1>6, <1>7, RangeConcatenation
    <3> QED
      BY <1>7, <1>10, <3>1 DEF Range
  <2>2. Answered(log') = Answered(log) \cup {c}
    BY <1>5, <2>1 DEF Answered
  <2>3. log' \in Seq(Event)
    BY DEF Inv, Sound
  <2> QED
    BY <1>6, <2>2, <2>3, RawAsksAndAnswers
<1>13. Waits(Raw(log'), todo')
  <2>1. Distinct(todo)
    BY <1>1 DEF Chat, Waits
  <2>2. Distinct(Tail(todo))
    <3> SUFFICES ASSUME NEW k \in DOMAIN Tail(todo), NEW l \in DOMAIN Tail(todo),
                        Tail(todo)[k] = Tail(todo)[l]
                 PROVE  k = l
      BY DEF Distinct
    <3>1. k + 1 \in DOMAIN todo /\ l + 1 \in DOMAIN todo /\ todo[k + 1] = todo[l + 1]
      BY <1>4
    <3>2. k + 1 = l + 1 /\ k \in Nat /\ l \in Nat
      BY <1>2, <1>4, <2>1, <3>1 DEF Distinct
    <3> QED
      BY <3>2
  <2>3. ASSUME NEW d \in Range(Tail(todo))
        PROVE  d \in Range(todo) /\ d # c
    <3>1. PICK k \in DOMAIN Tail(todo) : d = Tail(todo)[k]
      BY DEF Range
    <3>2. k + 1 \in DOMAIN todo /\ d = todo[k + 1] /\ k \in Nat \ {0}
      BY <1>2, <1>4, <3>1
    <3>3. 1 \in DOMAIN todo /\ k + 1 # 1
      BY <1>2, <3>2
    <3> QED
      BY <1>3, <2>1, <3>2, <3>3 DEF Distinct, Range
  <2>4. Range(Tail(todo)) \subseteq Open(Raw(log'), i)
    BY <1>8, <1>11, <1>12, <2>3 DEF Open
  <2> QED
    BY <1>1, <1>11, <2>2, <2>4 DEF Waits
<1> QED
  BY <1>11, <1>13 DEF Chat

\* A repair answers calls that wait.
LEMMA ReconciledChat ==
    ASSUME Inv, Inv', Chat, Publish(Reconciled)
    PROVE  Linked(Raw(log'))
<1> DEFINE new == Reconciled
<1>1. /\ new \in Seq(Event) /\ log \in Seq(Event) /\ log' = log \o new
      /\ DOMAIN new = 1..Len(new) /\ Len(new) \in Nat
  BY ReconciledIs DEF Inv, Sound, Publish
<1>2. repairs =>
        /\ DOMAIN new = DOMAIN todo
        /\ \A k \in DOMAIN todo : /\ Answers(new[k]) /\ ~new[k].image /\ new[k].call = todo[k]
  BY ReconciledIs
<1>3. ~repairs => new = <<>>
  BY ReconciledIs
<1> HIDE DEF new
<1>4. CASE new = <<>>
  <2>1. log' = log
    BY <1>1, <1>4, ConcatEmptySeq
  <2> QED
    BY <2>1 DEF Chat
<1>5. CASE new # <<>>
  <2>1. repairs
    BY <1>3, <1>5
  <2>2. phase = "tools"
    <3>1. DOMAIN new # {}
      <4>1. PICK x \in Seq(Event) : x = new
        BY <1>1
      <4>2. Len(x) # 0
        BY <1>5, <4>1, EmptySeq
      <4>3. 1 \in DOMAIN x
        BY <4>2
      <4> QED
        BY <4>1, <4>3
    <3>2. phase # "tools" => DOMAIN todo = {}
      BY NoneLeft DEF Inv
    <3> QED
      BY <1>2, <2>1, <3>1, <3>2
  <2>3. Distinct(todo)
    BY <2>2 DEF Chat, Waits
  <2>4. PICK i \in 1..Len(Raw(log)) :
           Trailed(Raw(log), i) /\ Range(todo) \subseteq Open(Raw(log), i)
    BY <2>2 DEF Chat, Waits
  <2>5. \A k \in DOMAIN todo : todo[k] \in Open(Raw(log), i)
    BY <2>4 DEF Range
  <2>6. Replies(new, Open(Raw(log), i))
    BY <1>2, <2>1, <2>3, <2>5 DEF Replies, Distinct
  <2>7. Batch(Raw(new), Open(Raw(log), i))
    BY <1>1, <2>6, RepliesAreBatch
  <2> QED
    BY <1>1, <2>4, <2>7, ResultsChat DEF Chat
<1> QED
  BY <1>4, <1>5

\* Rewind leaves each result after its call.
LEMMA RewindChat ==
    ASSUME Inv, Inv', Chat, NEW pos \in DOMAIN log, Rewind(pos)
    PROVE  Chat'
<1>1. PICK e : e = Tombstone(next)
  OBVIOUS
<1>2. PICK n \in 0..Len(log) : n = pos - 1
  BY DEF Inv, Sound
<1>3. /\ phase' = "idle" /\ log' = Append(SubSeq(log, 1, n), e)
      /\ log \in Seq(Event) /\ log' \in Seq(Event)
  BY <1>1, <1>2 DEF Rewind, Inv, Sound
<1>4. PICK a \in Seq(Event) : a = SubSeq(log, 1, n)
  BY <1>3, Parts
<1>5. PICK b \in Seq(Event) : b = SubSeq(log, n + 1, Len(log))
  BY <1>3, Parts
<1>6. log = a \o b
  BY <1>3, <1>4, <1>5, Parts
<1>7. e \in Event /\ log' = a \o <<e>>
  <2>1. log' = Append(a, e)
    BY <1>3, <1>4
  <2>2. Len(a) + 1 \in 1..Len(log') /\ log'[Len(a) + 1] = e
    BY <2>1
  <2>3. e \in Event
    BY <1>3, <2>2
  <2> QED
    BY <2>1, <2>3, AppendIsConcat
<1>8. MessagesOf(e) = <<>>
  BY <1>1 DEF Tombstone, MessageKinds, MessagesOf
<1>9. Raw(log) = Raw(a) \o Raw(b) /\ Raw(a) \in Seq(Message) /\ Raw(b) \in Seq(Message)
  BY <1>6, RawJoins, RawIs
<1>10. Raw(log') = Raw(a)
  <2>1. Raw(<<e>>) = <<>>
    BY <1>7, <1>8, RawOne
  <2>2. <<e>> \in Seq(Event)
    BY <1>7
  <2>3. Raw(log') = Raw(a) \o <<>>
    BY <1>7, <2>1, <2>2, RawJoins
  <2> QED
    BY <1>9, <2>3, ConcatEmptySeq
<1>11. Linked(Raw(log'))
  BY <1>9, <1>10, LinkedPrefix DEF Chat
<1> QED
  BY <1>3, <1>11 DEF Chat

\* In the log results come after their calls, with what was said meanwhile.
LEMMA NextChat ==
    ASSUME Inv, Inv', Chat, [Next]_vars
    PROVE  Chat'
<1>1. CASE Prompt
  BY <1>1, PromptChat
<1>2. CASE Assemble
  BY <1>2 DEF Assemble, Chat
<1>3. ASSUME NEW raw \in summary.count..Ceiling(conv), Fold(raw)
      PROVE  Chat'
  BY <1>3, FoldChat
<1>4. CASE Send
  BY <1>4 DEF Send, Chat
<1>5. ASSUME NEW n \in 0..MaxCalls, Respond(n)
      PROVE  Chat'
  BY <1>5, RespondChat
<1>6. ASSUME NEW image \in Images, Answer(image)
      PROVE  Chat'
  BY <1>6, AnswerChat
<1>7. CASE Drop
  <2>1. Publish(Reconciled) /\ phase' = "idle"
    BY <1>7 DEF Drop, Done
  <2> QED
    BY <2>1, ReconciledChat DEF Chat
<1>8. CASE Restart
  <2>1. Publish(Reconciled) /\ phase' = "idle"
    BY <1>8 DEF Restart, Done
  <2> QED
    BY <2>1, ReconciledChat DEF Chat
<1>9. ASSUME NEW pos \in DOMAIN log, Rewind(pos)
      PROVE  Chat'
  BY <1>9, RewindChat
<1>10. ASSUME NEW kind \in Asides, Hear(kind)
       PROVE  Chat'
  BY <1>10, HearChat
<1>11. CASE UNCHANGED vars
  BY <1>11 DEF vars, Chat
<1> QED
  BY <1>1, <1>2, <1>3, <1>4, <1>5, <1>6, <1>7, <1>8, <1>9, <1>10, <1>11 DEF Next

\* In the log itself each result comes after its call and before the assistant says
\* anything more, whatever others say in between, though a dropped cycle may leave
\* calls that never get one.
THEOREM ChatInvariant == Spec => []Chat
<1>1. Init => Chat
  <2> SUFFICES ASSUME Init
               PROVE  Chat
    OBVIOUS
  <2>1. Raw(log) = <<>> /\ phase # "tools" /\ DOMAIN <<>> = {}
    <3>1. /\ log = <<>> /\ phase = "idle" /\ DOMAIN <<>> = {}
          /\ <<>> \in Seq(Event) /\ <<>> \in Seq(Message)
      BY DEF Init
    <3>2. Raw(<<>> \o <<>>) = Raw(<<>>) \o Raw(<<>>)
      BY <3>1, RawJoins
    <3>3. PICK r \in Seq(Message) : r = Raw(<<>>)
      BY <3>1, RawIs
    <3>4. r = r \o r
      BY <3>2, <3>3, <3>1, ConcatEmptySeq
    <3>5. Len(r) = Len(r) + Len(r)
      BY <3>4
    <3>6. r = <<>>
      BY <3>5, EmptySeq
    <3> QED
      BY <3>1, <3>3, <3>6
  <2> QED
    BY <2>1 DEF Chat, Linked
<1>2. Inv /\ Inv' /\ Chat /\ [Next]_vars => Chat'
  BY NextChat
<1> QED
  BY <1>1, <1>2, ContextInvariant, PTL DEF Spec

\* Wherever the conversation was cut, cancelled, interrupted or rewound, and whatever
\* is said elsewhere: in the request that goes out every call has its one result, and
\* every result its call, or a message between itself and its call that was folded.
THEOREM RequestsAreWhole == Spec => []OnlyDividedBatchesAreCut
<1>1. Inv /\ Chat => OnlyDividedBatchesAreCut
  <2> SUFFICES ASSUME Inv, Chat, phase = "asking"
               PROVE  OnlyDividedBatchesAreCut
    BY DEF OnlyDividedBatchesAreCut
  <2>1. /\ conv = Render(SubSeq(log, 1, cache.count)) /\ cache.count \in 0..Len(log)
        /\ SumsUp(conv, summary) /\ conv \in Seq(Message) /\ log \in Seq(Event)
    BY DEF Inv, InHand, Typed, Sound
  <2>2. PICK a \in Seq(Event) : a = SubSeq(log, 1, cache.count)
    BY <2>1, Parts
  <2>3. PICK b \in Seq(Event) : b = SubSeq(log, cache.count + 1, Len(log))
    BY <2>1, Parts
  <2>4. log = a \o b
    BY <2>1, <2>2, <2>3, Parts
  <2>5. Raw(a) \in Seq(Message) /\ Raw(b) \in Seq(Message) /\ Raw(log) = Raw(a) \o Raw(b)
    BY <2>4, RawIs, RawJoins
  <2>6. Linked(Raw(a))
    BY <2>5, LinkedPrefix DEF Chat
  <2>7. conv = RepairWith(Raw(a), AnsweredIn(Raw(a)))
    BY <2>1, <2>2, <2>5, RepairIs DEF Render
  <2>8. Paired(conv)
    BY <2>5, <2>6, <2>7, RepairPairs
  <2>9. ValidAfter(conv, summary.count)
    BY <2>1, <2>8, CutKeepsPairs
  <2> QED
    BY <2>9 DEF OnlyDividedBatchesAreCut, ValidAfter
<1> QED
  BY <1>1, ContextInvariant, ChatInvariant, PTL

=============================================================================
