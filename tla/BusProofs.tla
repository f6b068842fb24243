------------------------------- MODULE BusProofs -------------------------------
(***************************************************************************)
(* Proofs about the event bus and its persistence.                         *)
(*                                                                         *)
(* First what holds of the bus for every number of tasks, subscribers and  *)
(* events and every limit: its log, branches and registry, what its        *)
(* subscribers hear, and that it is the log of BusLog to its readers.      *)
(*                                                                         *)
(* Then what is exported and restored: it rebuilds the path and the        *)
(* branches of the bus, and drops nothing.  What restore_from computes is  *)
(* known by induction on the number of items read (Induction, for a set of *)
(* numbers).  Names grow along the path, the branches and the stream, and  *)
(* a sequence whose elements grow is known by its elements alone           *)
(* (RisingIsUnique): so the invariant speaks of sets of events, and        *)
(* sequences come out equal at the end.                                    *)
(***************************************************************************)
EXTENDS BusPersistence, FiniteSetTheorems, SequenceTheorems, WellFoundedInduction, TLAPS

-----------------------------------------------------------------------------
(* Sequences.                                                              *)

\* A sequence of names stays one when more events are published.
LEMMA SeqWiden ==
    ASSUME NEW S, NEW T, S \subseteq T, NEW s \in Seq(S)
    PROVE  s \in Seq(T)
OBVIOUS

\* `push` adds one event to what the path names.
LEMMA RangeOfAppend ==
    ASSUME NEW S, NEW s \in Seq(S), NEW x
    PROVE  Range(Append(s, x)) = Range(s) \cup {x}
<1>1. DOMAIN Append(s, x) = 1..(Len(s) + 1) /\ DOMAIN s = 1..Len(s)
  OBVIOUS
<1>2. /\ \A i \in 1..Len(s) : Append(s, x)[i] = s[i]
      /\ Append(s, x)[Len(s) + 1] = x
  OBVIOUS
<1>3. Len(s) \in Nat
  OBVIOUS
<1> QED
  BY <1>1, <1>2, <1>3 DEF Range

\* Cutting a sequence in two loses nothing and adds nothing.
LEMMA RangeOfCut ==
    ASSUME NEW S, NEW s \in Seq(S), NEW p \in 1..(Len(s) + 1)
    PROVE  Range(Before(s, p)) \cup Range(From(s, p)) = Range(s)
<1> DEFINE a == Before(s, p)
           b == From(s, p)
<1>1. DOMAIN a = 1..(p - 1) /\ \A i \in DOMAIN a : a[i] = s[i]
  BY DEF Before
<1>2. /\ DOMAIN b = 1..(Len(s) - p + 1)
      /\ \A i \in DOMAIN b : b[i] = s[p + i - 1]
  BY DEF From
<1>3. \A i \in DOMAIN s : i \in DOMAIN a \/ (i - p + 1) \in DOMAIN b
  BY <1>1, <1>2
<1>4. Range(s) \subseteq Range(a) \cup Range(b)
  <2> SUFFICES ASSUME NEW i \in DOMAIN s
               PROVE  s[i] \in Range(a) \cup Range(b)
    BY DEF Range
  <2>1. CASE i \in DOMAIN a
    BY <2>1, <1>1 DEF Range
  <2>2. CASE (i - p + 1) \in DOMAIN b
    BY <2>2, <1>2 DEF Range
  <2> QED
    BY <1>3, <2>1, <2>2
<1>5. Range(a) \subseteq Range(s) /\ Range(b) \subseteq Range(s)
  BY <1>1, <1>2 DEF Range
<1> QED
  BY <1>4, <1>5

-----------------------------------------------------------------------------
(* Types.                                                                  *)

\* A fan-out offers an item to every channel and keeps each one a channel.
LEMMA FanOutType ==
    ASSUME NEW S,
           NEW chs \in [Subs -> [state : {"off", "open", "gone"}, q : Seq(S)]],
           NEW item \in S
    PROVE  FanOut(chs, item)
             \in [Subs -> [state : {"off", "open", "gone"}, q : Seq(S)]]
<1> SUFFICES ASSUME NEW s \in Subs
             PROVE  TryDeliver(chs[s], item)
                      \in [state : {"off", "open", "gone"}, q : Seq(S)]
  BY DEF FanOut
<1>1. Append(chs[s].q, item) \in Seq(S)
  OBVIOUS
<1> QED
  BY <1>1 DEF TryDeliver

\* The tip that `publish` links to is on the path, or there is none.
LEMMA TipType ==
    ASSUME NEW S, NEW path \in Seq(S)
    PROVE  ActiveTip(path) \in S \cup {None}
BY DEF ActiveTip

\* A commit adds one name, the next one, to what is published.
LEMMA CommitType ==
    ASSUME TypeOK, NEW event \in Event, event.parent \in Published \cup {None},
           Commit(event)
    PROVE  /\ Published' = Published \cup {Len(history) + 1}
           /\ Len(history) + 1 \notin Published
           /\ history' \in Seq(Event)
           /\ nodes' \subseteq Published'
           /\ active_path' \in Seq(Published')
           /\ rejected_branches' \in Seq([parent : Published' \cup {None},
                                          ids    : Seq(Published')])
           /\ handed' \subseteq Published'
           /\ chan' \in [Subs -> [state : {"off", "open", "gone"},
                                  q     : Seq(Published' \cup {Ephemeral})]]
<1> DEFINE id == Len(history) + 1
           parent == IF event.parent = None THEN ActiveTip(active_path)
                                            ELSE event.parent
<1>1. history \in Seq(Event) /\ Published = 1..Len(history) /\ Len(history) \in Nat
  BY DEF TypeOK, Published
<1>2. parent \in Published \cup {None}
  BY TipType DEF TypeOK
<1>3. [event EXCEPT !.parent = parent] \in Event
  BY <1>1, <1>2 DEF Event, Id
<1>4. history' = Append(history, [event EXCEPT !.parent = parent])
  BY DEF Commit
<1>5. history' \in Seq(Event) /\ Len(history') = id
  BY <1>1, <1>3, <1>4
<1>6. Published' = Published \cup {id} /\ id \notin Published
  BY <1>1, <1>5 DEF Published
<1>7. nodes' \subseteq Published' /\ handed' \subseteq Published'
  BY <1>6 DEF Commit, TypeOK
<1>8. active_path' \in Seq(Published')
  <2>1. active_path \in Seq(Published')
    BY <1>6, SeqWiden DEF TypeOK
  <2> QED
    BY <1>6, <2>1 DEF Commit
<1>9. rejected_branches' \in Seq([parent : Published' \cup {None},
                                  ids    : Seq(Published')])
  <2>1. Seq(Published) \subseteq Seq(Published')
    BY <1>6, SeqWiden
  <2>2. [parent : Published \cup {None}, ids : Seq(Published)]
          \subseteq [parent : Published' \cup {None}, ids : Seq(Published')]
    BY <1>6, <2>1
  <2> QED
    BY <2>2, SeqWiden DEF Commit, TypeOK
<1>10. chan' \in [Subs -> [state : {"off", "open", "gone"},
                           q     : Seq(Published' \cup {Ephemeral})]]
  <2>1. Seq(Published \cup {Ephemeral}) \subseteq Seq(Published' \cup {Ephemeral})
    BY <1>6, SeqWiden
  <2>2. chan \in [Subs -> [state : {"off", "open", "gone"},
                           q     : Seq(Published' \cup {Ephemeral})]]
    BY <2>1 DEF TypeOK
  <2>3. chan' = FanOut(chan, id)
    BY DEF Commit
  <2> QED
    BY <1>6, <2>2, <2>3, FanOutType
<1> QED
  BY <1>5, <1>6, <1>7, <1>8, <1>9, <1>10

\* Sealing moves events from the path to a branch: both stay sequences of names.
LEMMA CutType ==
    ASSUME NEW S, NEW path \in Seq(S), NEW pos \in DOMAIN path
    PROVE  /\ Before(path, pos) \in Seq(S)
           /\ From(path, pos) \in Seq(S)
           /\ Range(From(path, pos)) \subseteq S
           /\ ParentAt(path, pos) \in S \cup {None}
<1>1. /\ Before(path, pos) \in Seq(S)
      /\ From(path, pos) \in Seq(S)
  BY DEF Before, From
<1>2. Range(From(path, pos)) \subseteq S
  BY <1>1 DEF Range
<1>3. ParentAt(path, pos) \in S \cup {None}
  BY DEF ParentAt
<1> QED
  BY <1>1, <1>2, <1>3

\* Eviction keeps a suffix of the branches and hands over the prefix.
LEMMA ExcessType ==
    ASSUME NEW S, NEW branches \in Seq(S)
    PROVE  /\ Excess(branches) \in 0..Len(branches)
           /\ Retained(branches) \in Seq(S)
           /\ Len(Retained(branches)) = Len(branches) - Excess(branches)
           /\ \A i \in DOMAIN Retained(branches) :
                /\ i + Excess(branches) \in DOMAIN branches
                /\ Retained(branches)[i] = branches[i + Excess(branches)]
           /\ Drained(branches) \in Seq(S)
           /\ DOMAIN Drained(branches) = 1..Excess(branches)
           /\ \A i \in DOMAIN Drained(branches) :
                Drained(branches)[i] = branches[i]
<1>1. Excess(branches) \in 0..Len(branches)
  BY LimitsAssumption DEF Excess
<1>2. Len(branches) \in Nat /\ DOMAIN branches = 1..Len(branches)
  OBVIOUS
<1> QED
  BY <1>1, <1>2, SMTT(30) DEF Retained, Drained

\* The steps of a rollback outside the commit leave what is published alone.
LEMMA SealType ==
    ASSUME TypeOK, NEW c \in Callers, NEW pos \in DOMAIN active_path,
           RollbackSeal(c, pos)
    PROVE  TypeOK'
<1> DEFINE Pub == Published
<1>1. Published' = Published
  BY DEF RollbackSeal, Published
<1>2. active_path \in Seq(Published)
  BY DEF TypeOK
<1>3. /\ Before(active_path, pos) \in Seq(Published)
      /\ From(active_path, pos) \in Seq(Published)
      /\ Range(From(active_path, pos)) \subseteq Published
      /\ ParentAt(active_path, pos) \in Published \cup {None}
  BY <1>2, CutType
<1>4. rejected_branches' \in Seq([parent : Published \cup {None}, ids : Seq(Published)])
  BY <1>3 DEF RollbackSeal, TypeOK
<1>5. /\ call' \in [Callers -> [phase    : Phases,
                                cut      : Published \cup {None},
                                rejected : SUBSET Published,
                                pruned   : BOOLEAN]]
      /\ \A d \in Callers : call'[d].phase = "idle" => call'[d] = Idle
  BY <1>3 DEF RollbackSeal, TypeOK, Phases
<1> QED
  BY <1>1, <1>3, <1>4, <1>5 DEF RollbackSeal, TypeOK

\* Eviction drops branches and nodes and hands over only what was in `nodes`.
LEMMA EvictType ==
    ASSUME TypeOK, NEW c \in Callers, RollbackEvict(c)
    PROVE  TypeOK'
<1>1. Published' = Published
  BY DEF RollbackEvict, Published
<1>2. rejected_branches' \in Seq([parent : Published \cup {None}, ids : Seq(Published)])
  BY ExcessType DEF RollbackEvict, TypeOK
<1>3. nodes' \subseteq Published /\ handed' \subseteq Published
  BY DEF RollbackEvict, Collect, TypeOK
<1>4. /\ call' \in [Callers -> [phase    : Phases,
                                cut      : Published \cup {None},
                                rejected : SUBSET Published,
                                pruned   : BOOLEAN]]
      /\ \A d \in Callers : call'[d].phase = "idle" => call'[d] = Idle
  <2> DEFINE pruned == Excess(rejected_branches) > 0
             new == [call[c] EXCEPT !.phase = "evicted", !.pruned = pruned]
  <2>1. pruned \in BOOLEAN
    OBVIOUS
  <2>2. call' = [call EXCEPT ![c] = new]
    BY DEF RollbackEvict, TypeOK
  <2> HIDE DEF pruned
  <2>3. /\ new \in [phase    : Phases,
                   cut      : Published \cup {None},
                   rejected : SUBSET Published,
                   pruned   : BOOLEAN]
        /\ new.phase = "evicted"
    BY <2>1 DEF TypeOK, Phases
  <2> QED
    BY <2>2, <2>3 DEF TypeOK
<1> QED
  BY <1>1, <1>2, <1>3, <1>4 DEF RollbackEvict, TypeOK

\* A step that only moves a rollback on to another of its phases keeps the type
\* of its locals, and what they say has been rejected.
LEMMA PhaseChange ==
    ASSUME TypeOK, NEW c \in Callers, NEW p \in Phases \ {"idle"},
           call' = [call EXCEPT ![c].phase = p]
    PROVE  /\ call' \in [Callers -> [phase    : Phases,
                                     cut      : Published \cup {None},
                                     rejected : SUBSET Published,
                                     pruned   : BOOLEAN]]
           /\ \A d \in Callers : call'[d].phase = "idle" => call'[d] = Idle
           /\ \A d \in Callers : call'[d].rejected = call[d].rejected
<1> DEFINE CallType == [phase    : Phases,
                        cut      : Published \cup {None},
                        rejected : SUBSET Published,
                        pruned   : BOOLEAN]
           new == [call[c] EXCEPT !.phase = p]
<1>1. call \in [Callers -> CallType]
  BY DEF TypeOK
<1>2. /\ new \in CallType
      /\ new.phase = p
      /\ new.rejected = call[c].rejected
  BY <1>1
<1>3. call' = [call EXCEPT ![c] = new]
  OBVIOUS
<1> HIDE DEF new, CallType
<1>4. call'[c] = new /\ \A d \in Callers \ {c} : call'[d] = call[d]
  BY <1>1, <1>3
<1>5. call' \in [Callers -> CallType]
  BY <1>1, <1>2, <1>3
<1>6. ASSUME NEW d \in Callers, call'[d].phase = "idle"
      PROVE  call'[d] = Idle
  <2>1. d # c
    BY <1>2, <1>4, <1>6
  <2> QED
    BY <1>4, <1>6, <2>1 DEF TypeOK
<1>7. \A d \in Callers : call'[d].rejected = call[d].rejected
  BY <1>2, <1>4
<1> QED
  BY <1>5, <1>6, <1>7 DEF CallType

\* The announcements reach the channels only.
LEMMA AnnounceType ==
    ASSUME TypeOK, NEW c \in Callers, RollbackAnnounce(c)
    PROVE  TypeOK'
<1>1. Published' = Published
  BY DEF RollbackAnnounce, Published, store
<1>2. chan' \in [Subs -> [state : {"off", "open", "gone"},
                         q     : Seq(Published \cup {Ephemeral})]]
  <2>1. chan \in [Subs -> [state : {"off", "open", "gone"},
                          q     : Seq(Published \cup {Ephemeral})]]
    BY DEF TypeOK
  <2>2. FanOut(chan, Ephemeral) \in [Subs -> [state : {"off", "open", "gone"},
                                       q : Seq(Published \cup {Ephemeral})]]
    BY <2>1, FanOutType
  <2>3. FanOut(FanOut(chan, Ephemeral), Ephemeral)
           \in [Subs -> [state : {"off", "open", "gone"},
                         q     : Seq(Published \cup {Ephemeral})]]
    BY <2>2, FanOutType
  <2> QED
    BY <2>2, <2>3 DEF RollbackAnnounce
<1>3. /\ call' \in [Callers -> [phase    : Phases,
                                cut      : Published \cup {None},
                                rejected : SUBSET Published,
                                pruned   : BOOLEAN]]
      /\ \A d \in Callers : call'[d].phase = "idle" => call'[d] = Idle
  BY PhaseChange DEF RollbackAnnounce, Phases
<1> QED
  BY <1>1, <1>2, <1>3 DEF RollbackAnnounce, TypeOK, store

\* The two events a commit is given: a client's message and a tombstone.
LEMMA MessageType ==
    ASSUME TypeOK, NEW k \in Kinds, NEW p \in Published \cup {None}
    PROVE  Message(k, p) \in Event /\ Message(k, p).parent \in Published \cup {None}
<1>1. Published \subseteq Id
  BY DEF Published, TypeOK, Id
<1> QED
  BY <1>1 DEF Message, Event

\* A tombstone's cut and rejected events are published ones: the locals of a
\* rollback name nothing else.
LEMMA TombstoneType ==
    ASSUME TypeOK, NEW c \in Callers
    PROVE  Tombstone(c) \in Event /\ Tombstone(c).parent \in Published \cup {None}
<1>1. Published \subseteq Id
  BY DEF Published, TypeOK, Id
<1> QED
  BY <1>1 DEF Tombstone, Event, TypeOK

\* A commit keeps the types if the step does right by the callers.
LEMMA CommitTypeOK ==
    ASSUME TypeOK, NEW event \in Event, event.parent \in Published \cup {None},
           Commit(event),
           call' \in [Callers -> [phase    : Phases,
                                 cut      : Published \cup {None},
                                 rejected : SUBSET Published,
                                 pruned   : BOOLEAN]],
           \A d \in Callers : call'[d].phase = "idle" => call'[d] = Idle
    PROVE  TypeOK'
<1>1. Published \subseteq Published'
  BY CommitType
<1>2. call' \in [Callers -> [phase    : Phases,
                            cut      : Published' \cup {None},
                            rejected : SUBSET Published',
                            pruned   : BOOLEAN]]
  BY <1>1
<1> QED
  BY <1>2, CommitType DEF TypeOK

\* The last step of a rollback commits its tombstone and gives up its locals.
LEMMA TombstoneTypeOK ==
    ASSUME TypeOK, NEW c \in Callers, RollbackTombstone(c)
    PROVE  TypeOK'
<1>1. Tombstone(c) \in Event /\ Tombstone(c).parent \in Published \cup {None}
  BY TombstoneType
<1>2. Commit(Tombstone(c))
  BY DEF RollbackTombstone
<1>3. /\ call' \in [Callers -> [phase    : Phases,
                                cut      : Published \cup {None},
                                rejected : SUBSET Published,
                                pruned   : BOOLEAN]]
      /\ \A d \in Callers : call'[d].phase = "idle" => call'[d] = Idle
  BY DEF RollbackTombstone, TypeOK, Phases, Idle
<1> QED
  BY <1>1, <1>2, <1>3, CommitTypeOK

\* A client's publish keeps the types.
LEMMA PublishTypeOK ==
    ASSUME TypeOK, NEW k \in Kinds, NEW p \in Published \cup {None}, Publish(k, p)
    PROVE  TypeOK'
<1>1. Message(k, p) \in Event /\ Message(k, p).parent \in Published \cup {None}
  BY MessageType
<1>2. Commit(Message(k, p)) /\ call' = call
  BY DEF Publish
<1> QED
  BY <1>1, <1>2, CommitTypeOK DEF TypeOK

\* Steps that touch the channels only.
LEMMA ChannelTypeOK ==
    ASSUME TypeOK, UNCHANGED <<store, call>>,
           chan' \in [Subs -> [state : {"off", "open", "gone"},
                              q     : Seq(Published \cup {Ephemeral})]]
    PROVE  TypeOK'
BY DEF TypeOK, store, Published

\* Broadcasts, and what receivers do, keep the types.
LEMMA SubscriptionTypeOK ==
    ASSUME TypeOK, Broadcast \/ Subscription
    PROVE  TypeOK'
<1> DEFINE Chans == [Subs -> [state : {"off", "open", "gone"},
                              q     : Seq(Published \cup {Ephemeral})]]
<1>1. chan \in Chans
  BY DEF TypeOK
<1>2. CASE Broadcast
  BY <1>1, <1>2, FanOutType, ChannelTypeOK DEF Broadcast
<1>3. ASSUME NEW s \in Subs, Subscribe(s)
      PROVE  TypeOK'
  BY <1>1, <1>3, ChannelTypeOK DEF Subscribe
<1>4. ASSUME NEW s \in Subs, Recv(s)
      PROVE  TypeOK'
  <2>1. Tail(chan[s].q) \in Seq(Published \cup {Ephemeral})
    BY <1>1, <1>4 DEF Recv
  <2> QED
    BY <1>1, <1>4, <2>1, ChannelTypeOK DEF Recv
<1>5. ASSUME NEW s \in Subs, DropReceiver(s)
      PROVE  TypeOK'
  BY <1>1, <1>5, ChannelTypeOK DEF DropReceiver
<1>6. CASE Close
  BY <1>1, <1>6, ChannelTypeOK DEF Close
<1> QED
  BY <1>2, <1>3, <1>4, <1>5, <1>6 DEF Subscription

\* Every step of the bus keeps the types.
LEMMA TypeStep ==
    ASSUME TypeOK, [Next]_vars
    PROVE  TypeOK'
<1>1. ASSUME NEW k \in Kinds, Publish(k, None)
      PROVE  TypeOK'
  BY <1>1, PublishTypeOK
<1>2. ASSUME NEW k \in Kinds, NEW p \in ReplyTo \cap Published, Publish(k, p)
      PROVE  TypeOK'
  BY <1>2, PublishTypeOK
<1>3. CASE Broadcast \/ Subscription
  BY <1>3, SubscriptionTypeOK
<1>4. ASSUME NEW c \in Callers, NEW pos \in DOMAIN active_path,
             RollbackSeal(c, pos)
      PROVE  TypeOK'
  BY <1>4, SealType
<1>5. ASSUME NEW c \in Callers, RollbackEvict(c)
      PROVE  TypeOK'
  BY <1>5, EvictType
<1>6. ASSUME NEW c \in Callers, RollbackAnnounce(c)
      PROVE  TypeOK'
  BY <1>6, AnnounceType
<1>7. ASSUME NEW c \in Callers, RollbackTombstone(c)
      PROVE  TypeOK'
  BY <1>7, TombstoneTypeOK
<1>8. ASSUME NEW c \in Callers, Abort(c)
      PROVE  TypeOK'
  <2>1. call' = [call EXCEPT ![c].phase = "aborted"]
    BY <1>8 DEF Abort
  <2>2. /\ call' \in [Callers -> [phase    : Phases,
                                  cut      : Published \cup {None},
                                  rejected : SUBSET Published,
                                  pruned   : BOOLEAN]]
        /\ \A d \in Callers : call'[d].phase = "idle" => call'[d] = Idle
    BY <2>1, PhaseChange DEF Phases
  <2> QED
    BY <1>8, <2>2 DEF Abort, TypeOK, store, Published
<1>9. CASE UNCHANGED vars
  BY <1>9 DEF vars, store, TypeOK, Published
<1> QED
  BY <1>1, <1>2, <1>3, <1>4, <1>5, <1>6, <1>7, <1>8, <1>9
     DEF Next, Client, Rolling, Published

\* Every variable keeps its type, and names only events that were published.
THEOREM TypeCorrect == Spec => []TypeOK
<1>1. Init => TypeOK
  BY DEF Init, InitStore, TypeOK, Published, Idle, Phases
<1>2. TypeOK /\ [Next]_vars => TypeOK'
  BY TypeStep
<1> QED
  BY <1>1, <1>2, PTL DEF Spec

-----------------------------------------------------------------------------
(* The log, its branches and the registry.                                 *)

\* What makes AnchorsResolve inductive: the event a branch hangs from is on the
\* path, or on a branch sealed later.  Evicting from the front never takes the
\* later branch and leaves the earlier one.
AnchorsOrdered ==
    \A i \in DOMAIN rejected_branches :
        \/ rejected_branches[i].parent \in {None} \cup Range(active_path)
        \/ \E j \in DOMAIN rejected_branches :
              /\ i < j
              /\ rejected_branches[i].parent \in Range(rejected_branches[j].ids)

\* What makes TombstonesHonoured inductive: a tombstone rejects events that
\* were published before it.
RejectsPublished == \A id \in Published : history[id].rejected \subseteq Published

Topology ==
    /\ TypeOK
    /\ NodesRetained
    /\ OnePlace
    /\ NoEventLost
    /\ AnchorsOrdered
    /\ ChainIntact
    /\ RejectsPublished
    /\ TombstonesHonoured

\* The shape of the three variables, as the lemmas below use it.
LEMMA Shape ==
    ASSUME TypeOK
    PROVE  /\ active_path \in Seq(Published)
           /\ Range(active_path) \subseteq Published
           /\ DOMAIN rejected_branches = 1..Len(rejected_branches)
           /\ Len(rejected_branches) \in Nat
           /\ \A i \in DOMAIN rejected_branches :
                /\ rejected_branches[i].ids \in Seq(Published)
                /\ Range(rejected_branches[i].ids) \subseteq Published
                /\ rejected_branches[i].parent \in Published \cup {None}
<1> DEFINE B == [parent : Published \cup {None}, ids : Seq(Published)]
<1>1. /\ active_path \in Seq(Published)
      /\ DOMAIN rejected_branches = 1..Len(rejected_branches)
      /\ Len(rejected_branches) \in Nat
      /\ \A i \in DOMAIN rejected_branches :
           /\ rejected_branches[i].ids \in Seq(Published)
           /\ rejected_branches[i].parent \in Published \cup {None}
  <2>1. active_path \in Seq(Published) /\ rejected_branches \in Seq(B)
    BY DEF TypeOK
  <2> HIDE DEF B
  <2>2. /\ DOMAIN rejected_branches = 1..Len(rejected_branches)
        /\ Len(rejected_branches) \in Nat
        /\ \A i \in DOMAIN rejected_branches : rejected_branches[i] \in B
    BY <2>1
  <2>3. \A b \in B : b.ids \in Seq(Published) /\ b.parent \in Published \cup {None}
    BY DEF B
  <2> QED
    BY <2>1, <2>2, <2>3
<1>2. \A s \in Seq(Published) : Range(s) \subseteq Published
  BY DEF Range
<1> QED
  BY <1>1, <1>2

\* A branch appended to the others adds its events to theirs.
LEMMA IdsOfAppend ==
    ASSUME NEW S, NEW bs \in Seq(S), NEW b
    PROVE  IdsOf(Append(bs, b)) = IdsOf(bs) \cup Range(b.ids)
<1>1. /\ DOMAIN bs = 1..Len(bs) /\ Len(bs) \in Nat
      /\ DOMAIN Append(bs, b) = 1..(Len(bs) + 1)
      /\ \A i \in 1..Len(bs) : Append(bs, b)[i] = bs[i]
      /\ Append(bs, b)[Len(bs) + 1] = b
  OBVIOUS
<1>2. IdsOf(Append(bs, b)) \subseteq IdsOf(bs) \cup Range(b.ids)
  BY <1>1 DEF IdsOf
<1>3. IdsOf(bs) \cup Range(b.ids) \subseteq IdsOf(Append(bs, b))
  BY <1>1 DEF IdsOf
<1> QED
  BY <1>2, <1>3

\* Eviction divides the events of the branches between kept and drained.
LEMMA IdsOfEvict ==
    ASSUME NEW S, NEW bs \in Seq(S)
    PROVE  IdsOf(bs) = IdsOf(Drained(bs)) \cup IdsOf(Retained(bs))
<1> DEFINE n == Excess(bs)
<1>1. /\ n \in 0..Len(bs)
      /\ DOMAIN bs = 1..Len(bs) /\ Len(bs) \in Nat
      /\ DOMAIN Drained(bs) = 1..n
      /\ DOMAIN Retained(bs) = 1..(Len(bs) - n)
      /\ \A i \in DOMAIN Retained(bs) : Retained(bs)[i] = bs[i + n]
      /\ \A i \in DOMAIN Drained(bs) : Drained(bs)[i] = bs[i]
  BY ExcessType
<1> HIDE DEF n
<1>2. ASSUME NEW i \in DOMAIN bs
      PROVE  Range(bs[i].ids) \subseteq IdsOf(Drained(bs)) \cup IdsOf(Retained(bs))
  <2>1. CASE i <= n
    <3>1. i \in DOMAIN Drained(bs) /\ Drained(bs)[i] = bs[i]
      BY <1>1, <2>1
    <3> QED
      BY <3>1 DEF IdsOf
  <2>2. CASE n < i
    <3>1. i - n \in DOMAIN Retained(bs) /\ Retained(bs)[i - n] = bs[i]
      BY <1>1, <2>2
    <3> QED
      BY <3>1 DEF IdsOf
  <2> QED
    BY <1>1, <2>1, <2>2
<1>3. IdsOf(Drained(bs)) \subseteq IdsOf(bs)
  BY <1>1 DEF IdsOf
<1>4. IdsOf(Retained(bs)) \subseteq IdsOf(bs)
  <2>1. \A i \in DOMAIN Retained(bs) : i + n \in DOMAIN bs
    BY <1>1
  <2> QED
    BY <1>1, <2>1 DEF IdsOf
<1> QED
  BY <1>2, <1>3, <1>4 DEF IdsOf

\* A commit, whatever it commits: the fresh event goes to the end of the path,
\* linked to what was the tip unless a client chose its parent.
LEMMA CommitTopology ==
    ASSUME Topology, TypeOK', NEW event \in Event,
           event.parent \in ({None} \cup ReplyTo) \cap (Published \cup {None}),
           event.rejected \subseteq Published,
           event.rejected \cap Range(active_path) = {},
           \A c \in Callers : call'[c].rejected \subseteq call[c].rejected,
           Commit(event)
    PROVE  Topology'
<1> DEFINE id == Len(history) + 1
           parent == IF event.parent = None THEN ActiveTip(active_path)
                                            ELSE event.parent
           new == [event EXCEPT !.parent = parent]
<1>1. TypeOK
  BY DEF Topology
<1>2. /\ Published' = Published \cup {id}
      /\ id \notin Published
      /\ Published = 1..Len(history)
  <2>1. event.parent \in Published \cup {None}
    OBVIOUS
  <2>2. Published' = Published \cup {id} /\ id \notin Published
    BY <1>1, <2>1, CommitType
  <2>3. Published = 1..Len(history)
    BY <1>1 DEF TypeOK, Published
  <2> QED
    BY <2>2, <2>3
<1>3. /\ history' = Append(history, new)
      /\ nodes' = nodes \cup {id}
      /\ active_path' = Append(active_path, id)
      /\ rejected_branches' = rejected_branches
      /\ handed' = handed
  BY DEF Commit
<1>4. /\ Range(active_path') = Range(active_path) \cup {id}
      /\ Range(active_path) \subseteq Published
  BY <1>1, <1>3, RangeOfAppend, Shape
<1>5. /\ \A k \in Published : history'[k] = history[k]
      /\ history'[id] = new
      /\ new.rejected = event.rejected
      /\ new.parent = parent
  <2>1. history \in Seq(Event)
    BY <1>1 DEF TypeOK
  <2>2. new.rejected = event.rejected /\ new.parent = parent
    BY DEF Event
  <2>3. /\ \A k \in 1..Len(history) : Append(history, new)[k] = history[k]
        /\ Append(history, new)[Len(history) + 1] = new
    <3> HIDE DEF new
    <3> QED
      BY <2>1
  <2> QED
    BY <1>2, <1>3, <2>2, <2>3
<1>6. /\ DOMAIN active_path = 1..Len(active_path) /\ Len(active_path) \in Nat
      /\ DOMAIN active_path' = 1..(Len(active_path) + 1)
      /\ \A i \in DOMAIN active_path : active_path'[i] = active_path[i]
      /\ active_path'[Len(active_path) + 1] = id
      /\ \A i \in DOMAIN active_path : active_path[i] \in Published
  BY <1>1, <1>3, Shape
<1>7. \A i \in DOMAIN rejected_branches :
         /\ DOMAIN rejected_branches[i].ids = 1..Len(rejected_branches[i].ids)
         /\ Range(rejected_branches[i].ids) \subseteq Published
         /\ \A j \in DOMAIN rejected_branches[i].ids :
              rejected_branches[i].ids[j] \in Published
  BY <1>1, Shape
<1> HIDE DEF id, new, parent
<1>8. NodesRetained'
  BY <1>3, <1>4 DEF Topology, NodesRetained, Reachable, IdsOf
<1>9. OnePlace'
  <2>1. NoRepeats(active_path')
    BY <1>2, <1>6 DEF Topology, OnePlace, NoRepeats
  <2>2. \A i \in DOMAIN rejected_branches :
           Range(rejected_branches[i].ids) \cap Range(active_path') = {}
    BY <1>2, <1>4, <1>7 DEF Topology, OnePlace
  <2> QED
    BY <1>3, <2>1, <2>2 DEF Topology, OnePlace
<1>10. NoEventLost'
  BY <1>2, <1>3, <1>4 DEF Topology, NoEventLost, Reachable, IdsOf
<1>11. AnchorsOrdered'
  BY <1>3, <1>4 DEF Topology, AnchorsOrdered
<1>12. ChainIntact'
  <2>1. Chained(active_path, None)' 
    <3>1. ASSUME NEW i \in DOMAIN active_path
          PROVE  history'[active_path'[i]].parent \in
                   {IF i = 1 THEN None ELSE active_path'[i - 1]} \cup ReplyTo
      BY <1>5, <1>6 DEF Topology, ChainIntact, Chained
    <3>2. history'[active_path'[Len(active_path) + 1]].parent \in
            {IF Len(active_path) + 1 = 1 THEN None
                                        ELSE active_path'[Len(active_path)]}
              \cup ReplyTo
      BY <1>5, <1>6 DEF parent, ActiveTip
    <3> QED
      BY <1>6, <3>1, <3>2 DEF Chained
  <2>2. ASSUME NEW i \in DOMAIN rejected_branches
        PROVE  Chained(rejected_branches[i].ids, rejected_branches[i].parent)'
    <3>1. Chained(rejected_branches[i].ids, rejected_branches[i].parent)
      BY DEF Topology, ChainIntact
    <3>2. \A j \in DOMAIN rejected_branches[i].ids :
             history'[rejected_branches[i].ids[j]] = history[rejected_branches[i].ids[j]]
      BY <1>5, <1>7
    <3> QED
      BY <1>3, <3>1, <3>2 DEF Chained
  <2> QED
    BY <1>3, <2>1, <2>2 DEF ChainIntact
<1>13. RejectsPublished'
  BY <1>2, <1>5 DEF Topology, RejectsPublished
<1>14. TombstonesHonoured'
  <2>1. ASSUME NEW k \in Range(active_path)
        PROVE  history'[k].rejected \cap Range(active_path') = {}
    BY <1>2, <1>4, <1>5 DEF Topology, TombstonesHonoured, RejectsPublished
  <2>2. history'[id].rejected \cap Range(active_path') = {}
    BY <1>2, <1>4, <1>5
  <2>3. ASSUME NEW c \in Callers
        PROVE  call'[c].rejected \cap Range(active_path') = {}
    <3>1. call[c].rejected \subseteq Published
      BY <1>1 DEF TypeOK
    <3> QED
      BY <1>2, <1>4, <3>1 DEF Topology, TombstonesHonoured
  <2> QED
    BY <1>4, <2>1, <2>2, <2>3 DEF TombstonesHonoured
<1> QED
  BY <1>8, <1>9, <1>10, <1>11, <1>12, <1>13, <1>14 DEF Topology

\* A seal moves the end of the path to a branch of its own.
LEMMA SealTopology ==
    ASSUME Topology, TypeOK', NEW c \in Callers, NEW pos \in DOMAIN active_path,
           RollbackSeal(c, pos)
    PROVE  Topology'
<1> DEFINE cut == ParentAt(active_path, pos)
           kept == Before(active_path, pos)
           ids == From(active_path, pos)
           branch == [parent |-> cut, ids |-> ids]
           n == Len(rejected_branches) + 1
<1>1. TypeOK
  BY DEF Topology
<1>2. /\ history' = history /\ nodes' = nodes /\ handed' = handed
      /\ Published' = Published
      /\ active_path' = kept
      /\ rejected_branches' = Append(rejected_branches, branch)
  BY DEF RollbackSeal, Published
<1>3. /\ DOMAIN active_path = 1..Len(active_path) /\ Len(active_path) \in Nat
      /\ DOMAIN kept = 1..(pos - 1)
      /\ \A i \in DOMAIN kept : kept[i] = active_path[i]
      /\ DOMAIN ids = 1..(Len(active_path) - pos + 1)
      /\ \A i \in DOMAIN ids : ids[i] = active_path[pos + i - 1]
      /\ pos \in 1..Len(active_path)
  BY <1>1, Shape DEF Before, From
<1>4. Range(kept) \cup Range(ids) = Range(active_path)
  <2>1. active_path \in Seq(Published) /\ pos \in 1..(Len(active_path) + 1)
    BY <1>1, <1>3, Shape
  <2> QED
    BY <2>1, RangeOfCut
<1> HIDE DEF kept, ids
<1>5. Range(kept) \cap Range(ids) = {}
  <2> SUFFICES ASSUME NEW i \in DOMAIN kept, NEW j \in DOMAIN ids, kept[i] = ids[j]
               PROVE  FALSE
    BY DEF Range
  <2> DEFINE k == pos + j - 1
  <2>1. active_path[i] = active_path[k]
    BY <1>3
  <2>2. i \in DOMAIN active_path /\ k \in DOMAIN active_path /\ i # k
    BY <1>3
  <2> HIDE DEF k
  <2> QED
    BY <2>1, <2>2 DEF Topology, OnePlace, NoRepeats
<1>6. /\ DOMAIN rejected_branches = 1..(n - 1) /\ n \in Nat \ {0}
      /\ DOMAIN rejected_branches' = 1..n
      /\ \A i \in DOMAIN rejected_branches :
           /\ rejected_branches'[i] = rejected_branches[i]
           /\ i # n
      /\ rejected_branches'[n] = branch
  <2>1. rejected_branches \in Seq([parent : Published \cup {None}, ids : Seq(Published)])
    BY <1>1 DEF TypeOK
  <2> HIDE DEF branch
  <2> QED
    BY <1>2, <2>1
<1>7. IdsOf(rejected_branches') = IdsOf(rejected_branches) \cup Range(ids)
  <2>1. rejected_branches \in Seq([parent : Published \cup {None}, ids : Seq(Published)])
    BY <1>1 DEF TypeOK
  <2>2. IdsOf(Append(rejected_branches, branch))
          = IdsOf(rejected_branches) \cup Range(branch.ids)
    BY <2>1, IdsOfAppend
  <2> QED
    BY <1>2, <2>2
<1>8. branch.parent = cut /\ branch.ids = ids
  OBVIOUS
<1>9. cut \in {None} \cup Range(kept) /\ cut = IF pos > 1 THEN active_path[pos - 1] ELSE None
  <2>1. cut = IF pos > 1 THEN active_path[pos - 1] ELSE None
    BY DEF ParentAt
  <2>2. CASE pos > 1
    <3>1. pos - 1 \in DOMAIN kept /\ kept[pos - 1] = active_path[pos - 1]
      BY <1>3, <2>2
    <3> QED
      BY <2>1, <2>2, <3>1 DEF Range
  <2>3. CASE ~(pos > 1)
    BY <2>1, <2>3
  <2> QED
    BY <2>1, <2>2, <2>3
<1>10. /\ call'[c].rejected = Range(ids)
       /\ \A d \in Callers : d # c => call'[d] = call[d]
  BY <1>1 DEF RollbackSeal, TypeOK, ids
<1> HIDE DEF cut, branch, n
<1>11. NodesRetained'
  BY <1>2, <1>4, <1>7 DEF Topology, NodesRetained, Reachable
<1>12. OnePlace'
  <2>1. NoRepeats(active_path')
    BY <1>2, <1>3 DEF Topology, OnePlace, NoRepeats
  <2>2. NoRepeats(ids)
    <3> SUFFICES ASSUME NEW i \in DOMAIN ids, NEW j \in DOMAIN ids, ids[i] = ids[j]
                 PROVE  i = j
      BY DEF NoRepeats
    <3>1. active_path[pos + i - 1] = active_path[pos + j - 1]
      BY <1>3
    <3>2. pos + i - 1 \in DOMAIN active_path /\ pos + j - 1 \in DOMAIN active_path
      BY <1>3
    <3>3. pos + i - 1 = pos + j - 1
      BY <3>1, <3>2 DEF Topology, OnePlace, NoRepeats
    <3> QED
      BY <1>3, <3>3
  <2>3. ASSUME NEW i \in DOMAIN rejected_branches'
        PROVE  /\ NoRepeats(rejected_branches'[i].ids)
               /\ Range(rejected_branches'[i].ids) \cap Range(active_path') = {}
    <3>1. CASE i = n
      BY <1>2, <1>5, <1>6, <1>8, <2>2, <3>1
    <3>2. CASE i \in DOMAIN rejected_branches
      BY <1>2, <1>4, <1>6, <3>2 DEF Topology, OnePlace
    <3> QED
      BY <1>6, <3>1, <3>2
  <2>4. \A i \in DOMAIN rejected_branches :
           Range(rejected_branches[i].ids) \cap Range(ids) = {}
    BY <1>4 DEF Topology, OnePlace
  <2>5. ASSUME NEW i \in DOMAIN rejected_branches', NEW j \in DOMAIN rejected_branches',
               i # j
        PROVE  Range(rejected_branches'[i].ids)
                 \cap Range(rejected_branches'[j].ids) = {}
    <3>1. CASE i = n
      <4>1. j \in DOMAIN rejected_branches
        BY <1>6, <2>5, <3>1
      <4> QED
        BY <1>6, <1>8, <2>4, <3>1, <4>1
    <3>2. CASE j = n
      <4>1. i \in DOMAIN rejected_branches
        BY <1>6, <2>5, <3>2
      <4> QED
        BY <1>6, <1>8, <2>4, <3>2, <4>1
    <3>3. CASE i # n /\ j # n
      <4>1. i \in DOMAIN rejected_branches /\ j \in DOMAIN rejected_branches
        BY <1>6, <3>3
      <4> QED
        BY <1>6, <2>5, <4>1 DEF Topology, OnePlace
    <3> QED
      BY <3>1, <3>2, <3>3
  <2> QED
    BY <2>1, <2>3, <2>5 DEF OnePlace
<1>13. NoEventLost'
  BY <1>2, <1>4, <1>7 DEF Topology, NoEventLost, Reachable
<1>14. AnchorsOrdered'
  <2> SUFFICES ASSUME NEW i \in DOMAIN rejected_branches'
               PROVE  \/ rejected_branches'[i].parent \in {None} \cup Range(active_path')
                      \/ \E j \in DOMAIN rejected_branches' :
                           /\ i < j
                           /\ rejected_branches'[i].parent
                                \in Range(rejected_branches'[j].ids)
    BY DEF AnchorsOrdered
  <2>1. CASE i = n
    BY <1>2, <1>6, <1>8, <1>9, <2>1
  <2>2. CASE /\ i \in DOMAIN rejected_branches
             /\ rejected_branches[i].parent \in {None} \cup Range(active_path)
    <3>1. CASE rejected_branches[i].parent \in Range(ids)
      <4>1. i < n /\ n \in DOMAIN rejected_branches'
        BY <1>6, <2>2
      <4> QED
        BY <1>6, <1>8, <2>2, <3>1, <4>1
    <3>2. CASE rejected_branches[i].parent \in {None} \cup Range(kept)
      BY <1>2, <1>6, <2>2, <3>2
    <3> QED
      BY <1>4, <2>2, <3>1, <3>2
  <2>3. ASSUME i \in DOMAIN rejected_branches,
               NEW j \in DOMAIN rejected_branches, i < j,
               rejected_branches[i].parent \in Range(rejected_branches[j].ids)
        PROVE  \E k \in DOMAIN rejected_branches' :
                 /\ i < k
                 /\ rejected_branches'[i].parent \in Range(rejected_branches'[k].ids)
    BY <1>6, <2>3
  <2> QED
    BY <1>6, <2>1, <2>2, <2>3 DEF Topology, AnchorsOrdered
<1>15. ChainIntact'
  <2>1. Chained(active_path', None)
    BY <1>2, <1>3 DEF Topology, ChainIntact, Chained
  <2>2. Chained(ids, cut)
    <3> SUFFICES ASSUME NEW i \in DOMAIN ids
                 PROVE  history[ids[i]].parent \in
                          {IF i = 1 THEN cut ELSE ids[i - 1]} \cup ReplyTo
      BY DEF Chained
    <3>1. /\ pos + i - 1 \in DOMAIN active_path
          /\ ids[i] = active_path[pos + i - 1]
      BY <1>3
    <3>2. history[ids[i]].parent \in
            {IF pos + i - 1 = 1 THEN None ELSE active_path[pos + i - 2]} \cup ReplyTo
      <4> DEFINE k == pos + i - 1
      <4>1. k \in DOMAIN active_path /\ k - 1 = pos + i - 2 /\ ids[i] = active_path[k]
        BY <1>3, <3>1
      <4> HIDE DEF k
      <4>2. history[active_path[k]].parent \in
              {IF k = 1 THEN None ELSE active_path[k - 1]} \cup ReplyTo
        BY <4>1 DEF Topology, ChainIntact, Chained
      <4>3. history[ids[i]].parent \in
              {IF k = 1 THEN None ELSE active_path[pos + i - 2]} \cup ReplyTo
        BY <4>1, <4>2
      <4> QED
        BY <4>3 DEF k
    <3>3. CASE i = 1
      BY <1>3, <1>9, <3>2, <3>3
    <3>4. CASE i # 1
      <4>1. i - 1 \in DOMAIN ids /\ ids[i - 1] = active_path[pos + i - 2]
        BY <1>3, <3>4, SMTT(30)
      <4>2. pos + i - 1 # 1
        BY <1>3, <3>4
      <4> QED
        BY <3>2, <3>4, <4>1, <4>2
    <3> QED
      BY <3>3, <3>4
  <2>3. ASSUME NEW i \in DOMAIN rejected_branches'
        PROVE  Chained(rejected_branches'[i].ids, rejected_branches'[i].parent)
    <3>1. CASE i = n
      BY <1>6, <1>8, <2>2, <3>1
    <3>2. CASE i \in DOMAIN rejected_branches
      BY <1>6, <3>2 DEF Topology, ChainIntact
    <3> QED
      BY <1>6, <3>1, <3>2
  <2> QED
    BY <1>2, <2>1, <2>3 DEF ChainIntact, Chained
<1>16. RejectsPublished'
  BY <1>2 DEF Topology, RejectsPublished
<1>17. TombstonesHonoured'
  <2>1. \A k \in Range(active_path') : history'[k].rejected \cap Range(active_path') = {}
    BY <1>2, <1>4 DEF Topology, TombstonesHonoured
  <2>2. ASSUME NEW d \in Callers
        PROVE  call'[d].rejected \cap Range(active_path') = {}
    <3>1. CASE d = c
      BY <1>2, <1>5, <1>10, <3>1
    <3>2. CASE d # c
      BY <1>2, <1>4, <1>10, <3>2 DEF Topology, TombstonesHonoured
    <3> QED
      BY <3>1, <3>2
  <2> QED
    BY <2>1, <2>2 DEF TombstonesHonoured
<1> QED
  BY <1>11, <1>12, <1>13, <1>14, <1>15, <1>16, <1>17 DEF Topology

\* An eviction takes the oldest branches whole and keeps the rest in order.
LEMMA EvictTopology ==
    ASSUME Topology, TypeOK', NEW c \in Callers, RollbackEvict(c)
    PROVE  Topology'
<1> DEFINE n == Excess(rejected_branches)
           bs == rejected_branches
           kept == Retained(rejected_branches)
<1>1. TypeOK
  BY DEF Topology
<1>2. /\ history' = history /\ active_path' = active_path
      /\ Published' = Published
      /\ rejected_branches' = kept
      /\ handed' = handed \cup (IdsOf(Drained(bs)) \cap nodes)
      /\ nodes' = IF n = 0 THEN nodes ELSE nodes \cap Reachable(active_path, kept)
  BY DEF RollbackEvict, Collect, Published
<1>3. rejected_branches \in Seq([parent : Published \cup {None}, ids : Seq(Published)])
  BY <1>1 DEF TypeOK
<1>4. /\ n \in 0..Len(bs) /\ Len(bs) \in Nat
      /\ DOMAIN bs = 1..Len(bs)
      /\ DOMAIN kept = 1..(Len(bs) - n)
      /\ \A i \in DOMAIN kept : i + n \in DOMAIN bs /\ kept[i] = bs[i + n]
  BY <1>3, ExcessType
<1>5. IdsOf(bs) = IdsOf(Drained(bs)) \cup IdsOf(kept)
  BY <1>3, IdsOfEvict
<1>6. \A d \in Callers : call'[d].rejected = call[d].rejected
  BY <1>1 DEF RollbackEvict, TypeOK
<1> HIDE DEF n, kept
<1>7. NodesRetained'
  BY <1>2, <1>5 DEF Topology, NodesRetained, Reachable
<1>8. OnePlace'
  <2>1. ASSUME NEW i \in DOMAIN kept
        PROVE  /\ NoRepeats(kept[i].ids)
               /\ Range(kept[i].ids) \cap Range(active_path) = {}
    BY <1>4 DEF Topology, OnePlace
  <2>2. ASSUME NEW i \in DOMAIN kept, NEW j \in DOMAIN kept, i # j
        PROVE  Range(kept[i].ids) \cap Range(kept[j].ids) = {}
    <3>1. /\ i + n \in DOMAIN bs /\ kept[i] = bs[i + n]
          /\ j + n \in DOMAIN bs /\ kept[j] = bs[j + n]
          /\ i + n # j + n
      BY <1>4, <2>2
    <3> QED
      BY <3>1 DEF Topology, OnePlace
  <2> QED
    BY <1>2, <2>1, <2>2 DEF Topology, OnePlace
<1>9. NoEventLost'
  <2>1. IdsOf(Drained(bs)) \subseteq nodes
    BY <1>5 DEF Topology, NodesRetained, Reachable
  <2> QED
    BY <1>2, <1>5, <2>1 DEF Topology, NoEventLost, Reachable
<1>10. AnchorsOrdered'
  <2> SUFFICES ASSUME NEW i \in DOMAIN kept
               PROVE  \/ kept[i].parent \in {None} \cup Range(active_path)
                      \/ \E j \in DOMAIN kept :
                           i < j /\ kept[i].parent \in Range(kept[j].ids)
    BY <1>2 DEF AnchorsOrdered
  <2>1. i + n \in DOMAIN bs /\ kept[i] = bs[i + n]
    BY <1>4
  <2>2. CASE bs[i + n].parent \in {None} \cup Range(active_path)
    BY <2>1, <2>2
  <2>3. ASSUME NEW j \in DOMAIN bs, i + n < j, bs[i + n].parent \in Range(bs[j].ids)
        PROVE  \E k \in DOMAIN kept : i < k /\ kept[i].parent \in Range(kept[k].ids)
    <3>1. j - n \in DOMAIN kept /\ i < j - n /\ j - n + n = j
      BY <1>4, <2>3
    <3>2. kept[j - n] = bs[j]
      BY <1>4, <3>1
    <3> QED
      BY <2>1, <2>3, <3>1, <3>2
  <2> QED
    BY <2>1, <2>2, <2>3 DEF Topology, AnchorsOrdered
<1>11. ChainIntact'
  <2>1. \A i \in DOMAIN kept : Chained(kept[i].ids, kept[i].parent)
    BY <1>4 DEF Topology, ChainIntact
  <2> QED
    BY <1>2, <2>1 DEF Topology, ChainIntact, Chained
<1>12. RejectsPublished' /\ TombstonesHonoured'
  BY <1>2, <1>6 DEF Topology, RejectsPublished, TombstonesHonoured
<1> QED
  BY <1>7, <1>8, <1>9, <1>10, <1>11, <1>12 DEF Topology

\* Every other step leaves the store, and what the callers hold, alone.
LEMMA OtherTopology ==
    ASSUME Topology, TypeOK', UNCHANGED store,
           \A c \in Callers : call'[c].rejected = call[c].rejected
    PROVE  Topology'
BY DEF Topology, store, NodesRetained, OnePlace, NoEventLost, AnchorsOrdered,
       ChainIntact, Chained, RejectsPublished, TombstonesHonoured, Published

\* The log and its branches stay in order through every interleaving.
THEOREM TopologyInvariant == Spec => []Topology
<1>1. Init => Topology
  <2> SUFFICES ASSUME Init
               PROVE  Topology
    OBVIOUS
  <2>1. TypeOK
    BY DEF Init, InitStore, TypeOK, Published, Idle, Phases
  <2>2. /\ history = <<>> /\ active_path = <<>> /\ rejected_branches = <<>>
        /\ \A c \in Callers : call[c].rejected = {}
    BY DEF Init, InitStore, Idle
  <2>3. DOMAIN history = {} /\ DOMAIN active_path = {} /\ DOMAIN rejected_branches = {}
    BY <2>2
  <2>4. Range(active_path) = {} /\ IdsOf(rejected_branches) = {}
    BY <2>3 DEF Range, IdsOf
  <2> QED
    BY <2>1, <2>2, <2>3, <2>4
       DEF Topology, NodesRetained, OnePlace, NoRepeats, NoEventLost, Reachable,
           AnchorsOrdered, ChainIntact, Chained, RejectsPublished,
           TombstonesHonoured, Published
<1>2. Topology /\ TypeOK' /\ [Next]_vars => Topology'
  <2> SUFFICES ASSUME Topology, TypeOK', [Next]_vars
               PROVE  Topology'
    OBVIOUS
  <2>0. TypeOK
    BY DEF Topology
  <2>1. ASSUME NEW k \in Kinds,
               NEW p \in ({None} \cup ReplyTo) \cap (Published \cup {None}),
               Publish(k, p)
        PROVE  Topology'
    <3>1. /\ Message(k, p) \in Event
          /\ Message(k, p).parent = p
          /\ Message(k, p).rejected = {}
      BY <2>0, MessageType DEF Message
    <3>2. Commit(Message(k, p)) /\ call' = call
      BY <2>1 DEF Publish
    <3> QED
      BY <3>1, <3>2, CommitTopology
  <2>2. CASE Broadcast \/ Subscription
    BY <2>2, OtherTopology
       DEF Broadcast, Subscription, Subscribe, Recv, DropReceiver, Close
  <2>3. ASSUME NEW c \in Callers, NEW pos \in DOMAIN active_path,
               RollbackSeal(c, pos)
        PROVE  Topology'
    BY <2>3, SealTopology
  <2>4. ASSUME NEW c \in Callers, RollbackEvict(c)
        PROVE  Topology'
    BY <2>4, EvictTopology
  <2>5. ASSUME NEW c \in Callers, RollbackAnnounce(c)
        PROVE  Topology'
    <3>1. \A d \in Callers : call'[d].rejected = call[d].rejected
      BY <2>0, <2>5, PhaseChange DEF RollbackAnnounce, Phases
    <3> QED
      BY <2>5, <3>1, OtherTopology DEF RollbackAnnounce
  <2>6. ASSUME NEW c \in Callers, RollbackTombstone(c)
        PROVE  Topology'
    <3>1. /\ Tombstone(c) \in Event
          /\ Tombstone(c).parent = None
          /\ Tombstone(c).rejected = call[c].rejected
      BY <2>0, TombstoneType DEF Tombstone
    <3>2. /\ call[c].rejected \subseteq Published
          /\ call[c].rejected \cap Range(active_path) = {}
      BY <2>0 DEF Topology, TombstonesHonoured, TypeOK
    <3>3. \A d \in Callers : call'[d].rejected \subseteq call[d].rejected
      BY <2>0, <2>6 DEF RollbackTombstone, TypeOK, Idle
    <3>4. Commit(Tombstone(c))
      BY <2>6 DEF RollbackTombstone
    <3> QED
      BY <3>1, <3>2, <3>3, <3>4, CommitTopology
  <2>7. ASSUME NEW c \in Callers, Abort(c)
        PROVE  Topology'
    <3>1. \A d \in Callers : call'[d].rejected = call[d].rejected
      BY <2>0, <2>7, PhaseChange DEF Abort, Phases
    <3> QED
      BY <2>7, <3>1, OtherTopology DEF Abort
  <2>8. CASE UNCHANGED vars
    BY <2>8, OtherTopology DEF vars
  <2> QED
    BY <2>1, <2>2, <2>3, <2>4, <2>5, <2>6, <2>7, <2>8
       DEF Next, Client, Rolling, Published
<1> QED
  BY <1>1, <1>2, TypeCorrect, PTL DEF Spec

\* Neither the path nor a retained branch names an event the registry has freed.
THEOREM NodesAreRetained == Spec => []NodesRetained
<1>1. Topology => NodesRetained
  BY DEF Topology
<1> QED
  BY <1>1, TopologyInvariant, PTL

\* An event is on the path or on one branch, once.
THEOREM EventsHaveOnePlace == Spec => []OnePlace
<1>1. Topology => OnePlace
  BY DEF Topology
<1> QED
  BY <1>1, TopologyInvariant, PTL

\* What is published stays on the path or a branch until on_evict is given it.
THEOREM EventsAreKept == Spec => []NoEventLost
<1>1. Topology => NoEventLost
  BY DEF Topology
<1> QED
  BY <1>1, TopologyInvariant, PTL

\* The event a retained branch hangs from can still be looked up.
THEOREM AnchorsAreKept == Spec => []AnchorsResolve
<1>1. ASSUME Topology PROVE AnchorsResolve
  <2> SUFFICES ASSUME NEW i \in DOMAIN rejected_branches
               PROVE  rejected_branches[i].parent \in nodes \cup {None}
    BY DEF AnchorsResolve
  <2>1. CASE rejected_branches[i].parent \in {None} \cup Range(active_path)
    BY <1>1, <2>1 DEF Topology, NodesRetained, Reachable
  <2>2. ASSUME NEW j \in DOMAIN rejected_branches,
               rejected_branches[i].parent \in Range(rejected_branches[j].ids)
        PROVE  rejected_branches[i].parent \in nodes
    BY <1>1, <2>2 DEF Topology, NodesRetained, Reachable, IdsOf
  <2> QED
    BY <1>1, <2>1, <2>2 DEF Topology, AnchorsOrdered
<1> QED
  BY <1>1, TopologyInvariant, PTL

\* The links in the events agree with the path and the branches.
THEOREM ChainsStayIntact == Spec => []ChainIntact
<1>1. Topology => ChainIntact
  BY DEF Topology
<1> QED
  BY <1>1, TopologyInvariant, PTL

\* Replaying the tombstones of the log takes nothing off the log.
THEOREM LogReplaysToItself == Spec => []TombstonesHonoured
<1>1. Topology => TombstonesHonoured
  BY DEF Topology
<1> QED
  BY <1>1, TopologyInvariant, PTL

-----------------------------------------------------------------------------
(* The limit on branches.                                                  *)

\* The callers whose branch no eviction of theirs has made room for.
Overdue == {c \in Callers : call[c].phase \in {"sealed", "aborted"}}

\* There are finitely many callers, so counting some of them means something.
LEMMA SomeCallers ==
    ASSUME NEW S, S \subseteq Callers
    PROVE  IsFiniteSet(S) /\ Cardinality(S) \in Nat
BY TasksAssumption, FS_Subset, FS_CardinalityType

\* A seal pays for its branch by joining the overdue; an eviction, whoever
\* does it, brings the branches down to the limit.
THEOREM BranchesAreBounded == Spec => []BoundedRetention
<1>1. Init => BoundedRetention
  <2> SUFFICES ASSUME Init
               PROVE  Len(rejected_branches) <= MaxRetained + Cardinality(Overdue)
    BY DEF BoundedRetention, Overdue
  <2>1. Len(rejected_branches) = 0
    BY DEF Init, InitStore
  <2>2. Cardinality(Overdue) \in Nat
    BY SomeCallers DEF Overdue
  <2> QED
    BY <2>1, <2>2, LimitsAssumption
<1>2. TypeOK /\ TypeOK' /\ BoundedRetention /\ [Next]_vars => BoundedRetention'
  <2> SUFFICES ASSUME TypeOK, TypeOK', [Next]_vars,
                      Len(rejected_branches) <= MaxRetained + Cardinality(Overdue)
               PROVE  Len(rejected_branches') <= MaxRetained + Cardinality(Overdue')
    BY DEF BoundedRetention, Overdue
  <2>0. /\ IsFiniteSet(Overdue) /\ Cardinality(Overdue) \in Nat
        /\ IsFiniteSet(Overdue') /\ Cardinality(Overdue') \in Nat
        /\ Len(rejected_branches) \in Nat /\ MaxRetained \in Nat
    <3>1. Overdue \subseteq Callers /\ Overdue' \subseteq Callers
      BY DEF Overdue
    <3>2. Len(rejected_branches) \in Nat
      BY DEF TypeOK
    <3> QED
      BY <3>1, <3>2, SomeCallers, LimitsAssumption
  <2>1. ASSUME UNCHANGED rejected_branches, Overdue \subseteq Overdue'
        PROVE  Len(rejected_branches') <= MaxRetained + Cardinality(Overdue')
    <3>1. Cardinality(Overdue) <= Cardinality(Overdue')
      BY <2>0, <2>1, FS_Subset
    <3> QED
      BY <2>0, <2>1, <3>1
  <2>2. ASSUME UNCHANGED <<rejected_branches, call>>
        PROVE  Len(rejected_branches') <= MaxRetained + Cardinality(Overdue')
    BY <2>1, <2>2 DEF Overdue
  <2>3. ASSUME NEW c \in Callers, NEW pos \in DOMAIN active_path,
               RollbackSeal(c, pos)
        PROVE  Len(rejected_branches') <= MaxRetained + Cardinality(Overdue')
    <3>1. Len(rejected_branches') = Len(rejected_branches) + 1
      <4>1. rejected_branches \in
              Seq([parent : Published \cup {None}, ids : Seq(Published)])
        BY DEF TypeOK
      <4> QED
        BY <2>3, <4>1 DEF RollbackSeal
    <3>2. Overdue' = Overdue \cup {c} /\ c \notin Overdue
      BY <2>3 DEF RollbackSeal, Overdue, TypeOK
    <3>3. Cardinality(Overdue') = Cardinality(Overdue) + 1
      BY <2>0, <3>2, FS_AddElement
    <3> QED
      BY <2>0, <3>1, <3>3
  <2>4. ASSUME NEW c \in Callers, RollbackEvict(c)
        PROVE  Len(rejected_branches') <= MaxRetained + Cardinality(Overdue')
    <3>1. Len(Retained(rejected_branches))
            = Len(rejected_branches) - Excess(rejected_branches)
      <4>1. rejected_branches \in
              Seq([parent : Published \cup {None}, ids : Seq(Published)])
        BY DEF TypeOK
      <4> QED
        BY <4>1, ExcessType
    <3>2. Len(rejected_branches') <= MaxRetained
      BY <2>0, <2>4, <3>1 DEF RollbackEvict, Excess
    <3>3. Len(rejected_branches') \in Nat
      BY DEF TypeOK
    <3> QED
      BY <2>0, <3>2, <3>3
  <2>5. ASSUME NEW c \in Callers,
               RollbackAnnounce(c) \/ RollbackTombstone(c) \/ Abort(c)
        PROVE  Len(rejected_branches') <= MaxRetained + Cardinality(Overdue')
    <3>1. rejected_branches' = rejected_branches
      BY <2>5 DEF RollbackAnnounce, RollbackTombstone, Commit, Abort, store
    <3>2. Overdue \subseteq Overdue'
      BY <2>5 DEF RollbackAnnounce, RollbackTombstone, Abort, Overdue, TypeOK
    <3> QED
      BY <2>1, <3>1, <3>2
  <2>6. CASE Client \/ Subscription \/ UNCHANGED vars
    BY <2>2, <2>6 DEF Client, Publish, Commit, Broadcast, Subscription, Subscribe,
                      Recv, DropReceiver, Close, store, vars
  <2> QED
    BY <2>3, <2>4, <2>5, <2>6 DEF Next, Rolling
<1> QED
  BY <1>1, <1>2, TypeCorrect, PTL DEF Spec

-----------------------------------------------------------------------------
(* What subscribers hear.                                                  *)

\* What StreamMatchesLog says of one channel, when n events are published.
Streams(ch, n) ==
    /\ InOrder(ch.q)
    /\ ch.state = "open" /\ Capacity = UsizeMax => NoGap(ch.q, 1..n)

ChannelOf(n) == [state : {"off", "open", "gone"}, q : Seq((1..n) \cup {Ephemeral})]

\* The next event, or one that is only fanned out, follows what waits.
LEMMA DeliverKeeps ==
    ASSUME NEW n \in Nat, NEW m \in {n, n + 1}, NEW ch \in ChannelOf(n), Streams(ch, n),
           NEW item, item = IF m = n THEN Ephemeral ELSE m
    PROVE  Streams(TryDeliver(ch, item), m)
<1> DEFINE q == ch.q
           longer == Append(q, item)
<1>1. /\ q \in Seq((1..n) \cup {Ephemeral}) /\ Len(q) \in Nat /\ DOMAIN q = 1..Len(q)
      /\ DOMAIN longer = 1..(Len(q) + 1)
      /\ \A i \in DOMAIN q : longer[i] = q[i]
      /\ longer[Len(q) + 1] = item
  BY DEF ChannelOf
<1>2. \A i \in DOMAIN q : q[i] \in 0..n
  BY <1>1 DEF Ephemeral
<1>3. InOrder(q) /\ (ch.state = "open" /\ Capacity = UsizeMax => NoGap(q, 1..n))
  BY DEF Streams
<1> HIDE DEF q, longer
<1>4. \A i \in DOMAIN longer : i \in DOMAIN q \/ (i = Len(q) + 1 /\ longer[i] = item)
  BY <1>1
<1>5. InOrder(longer)
  <2> SUFFICES ASSUME NEW i \in DOMAIN longer, NEW j \in DOMAIN longer, i < j,
                      longer[i] # Ephemeral, longer[j] # Ephemeral
               PROVE  longer[i] < longer[j]
    BY DEF InOrder
  <2>1. i \in DOMAIN q /\ longer[i] = q[i]
    BY <1>1
  <2>2. CASE j \in DOMAIN q
    BY <1>1, <1>3, <2>1, <2>2 DEF InOrder
  <2>3. CASE longer[j] = item
    BY <1>2, <2>1, <2>3
  <2> QED
    BY <1>4, <2>2, <2>3
<1>6. ASSUME NoGap(q, 1..n) PROVE NoGap(longer, 1..m)
  <2> SUFFICES ASSUME NEW i \in DOMAIN longer, longer[i] # Ephemeral,
                      NEW id \in 1..m, longer[i] <= id
               PROVE  \E j \in DOMAIN longer : longer[j] = id
    BY DEF NoGap
  <2>1. Len(q) + 1 \in DOMAIN longer /\ longer[Len(q) + 1] = item
    BY <1>1
  <2>2. CASE id = item
    BY <2>1, <2>2
  <2>3. CASE id # item
    <3>1. id \in 1..n
      BY <2>3
    <3>2. i \in DOMAIN q
      BY <1>4, <2>3 DEF Ephemeral
    <3>3. PICK j \in DOMAIN q : q[j] = id
      BY <1>1, <1>6, <3>1, <3>2 DEF NoGap
    <3> QED
      BY <1>1, <3>3
  <2> QED
    BY <2>2, <2>3
<1>7. CASE ch.state = "open" /\ ~Full(ch)
  <2>1. /\ TryDeliver(ch, item).q = longer /\ TryDeliver(ch, item).state = "open"
    BY <1>7 DEF TryDeliver, ChannelOf, q, longer
  <2> QED
    BY <1>3, <1>5, <1>6, <1>7, <2>1 DEF Streams
<1>8. CASE ~(ch.state = "open" /\ ~Full(ch))
  <2>1. TryDeliver(ch, item).q = q /\ (TryDeliver(ch, item).state = "open" => ch.state = "open")
    BY <1>8 DEF TryDeliver, ChannelOf, q
  <2>2. ~(TryDeliver(ch, item).state = "open" /\ Capacity = UsizeMax)
    BY <1>8, <2>1 DEF Full
  <2> QED
    BY <1>3, <2>1, <2>2 DEF Streams
<1> QED
  BY <1>7, <1>8

\* What is left after the first has been received.
LEMMA ReceiveKeeps ==
    ASSUME NEW n \in Nat, NEW ch \in ChannelOf(n), Streams(ch, n), ch.q # <<>>,
           NEW after \in ChannelOf(n), after.state = ch.state, after.q = Tail(ch.q)
    PROVE  Streams(after, n)
<1> DEFINE q == ch.q
           rest == after.q
<1>1. /\ q \in Seq((1..n) \cup {Ephemeral}) /\ Len(q) \in Nat /\ DOMAIN q = 1..Len(q)
  BY DEF ChannelOf
<1>2. /\ DOMAIN rest = 1..(Len(q) - 1)
      /\ \A i \in DOMAIN rest : i + 1 \in DOMAIN q /\ rest[i] = q[i + 1]
  BY <1>1
<1>3. \A i \in DOMAIN q : q[i] \in 0..n
  BY <1>1 DEF Ephemeral
<1>4. InOrder(q) /\ (ch.state = "open" /\ Capacity = UsizeMax => NoGap(q, 1..n))
  BY DEF Streams
<1> HIDE DEF q, rest
<1>5. InOrder(rest)
  <2> SUFFICES ASSUME NEW i \in DOMAIN rest, NEW j \in DOMAIN rest, i < j,
                      rest[i] # Ephemeral, rest[j] # Ephemeral
               PROVE  rest[i] < rest[j]
    BY DEF InOrder
  <2>1. i + 1 < j + 1
    BY <1>1, <1>2
  <2> QED
    BY <1>2, <1>4, <2>1 DEF InOrder
<1>6. ASSUME NoGap(q, 1..n) PROVE NoGap(rest, 1..n)
  <2> SUFFICES ASSUME NEW i \in DOMAIN rest, rest[i] # Ephemeral,
                      NEW id \in 1..n, rest[i] <= id
               PROVE  \E j \in DOMAIN rest : rest[j] = id
    BY DEF NoGap
  <2>1. i + 1 \in DOMAIN q /\ rest[i] = q[i + 1] /\ 1 < i + 1
    BY <1>1, <1>2
  <2>2. PICK j \in DOMAIN q : q[j] = id
    BY <1>6, <2>1 DEF NoGap
  <2>3. j # 1
    <3>1. j = 1 => id < q[i + 1]
      BY <1>4, <2>1, <2>2 DEF InOrder, Ephemeral
    <3> QED
      BY <1>3, <2>1, <3>1
  <2>4. j - 1 \in DOMAIN rest /\ (j - 1) + 1 = j
    BY <1>1, <1>2, <2>3
  <2> QED
    BY <1>2, <2>2, <2>4
<1> QED
  BY <1>4, <1>5, <1>6 DEF Streams, rest

\* A receiver hears the stored events in the order of the log, and of an unbounded bus
\* every one, whatever is published, broadcast, rolled back and closed meanwhile.
THEOREM SubscribersHearTheLog == Spec => []StreamMatchesLog
<1>1. TypeOK => /\ Published = 1..Len(history) /\ Len(history) \in Nat
                /\ chan \in [Subs -> ChannelOf(Len(history))]
  <2> SUFFICES ASSUME TypeOK
               PROVE  /\ Published = 1..Len(history) /\ Len(history) \in Nat
                      /\ chan \in [Subs -> ChannelOf(Len(history))]
    OBVIOUS
  <2>1. Published = 1..Len(history) /\ Len(history) \in Nat
    BY DEF TypeOK, Published
  <2>2. chan \in [Subs -> [state : {"off", "open", "gone"}, q : Seq(Published \cup {Ephemeral})]]
    BY DEF TypeOK
  <2> QED
    BY <2>1, <2>2 DEF ChannelOf
<1>2. TypeOK => (StreamMatchesLog <=> \A s \in Subs : Streams(chan[s], Len(history)))
  BY <1>1 DEF StreamMatchesLog, Streams
<1>3. Init => StreamMatchesLog
  BY DEF Init, StreamMatchesLog, InOrder, NoGap
<1>4. TypeOK /\ TypeOK' /\ StreamMatchesLog /\ [Next]_vars => StreamMatchesLog'
  <2> SUFFICES ASSUME TypeOK, TypeOK', StreamMatchesLog, [Next]_vars
               PROVE  \A s \in Subs : Streams(chan'[s], Len(history'))
    <3>1. /\ Published' = 1..Len(history')
          /\ (\A s \in Subs : Streams(chan'[s], Len(history'))) => StreamMatchesLog'
      BY <1>1 DEF StreamMatchesLog, Streams, TypeOK, Published, InOrder, NoGap, Ephemeral
    <3> QED
      BY <3>1
  <2>1. PICK n \in Nat : n = Len(history)
    BY <1>1
  <2>2. /\ \A s \in Subs : Streams(chan[s], n) /\ chan[s] \in ChannelOf(n)
        /\ chan \in [Subs -> ChannelOf(n)]
    BY <1>1, <1>2, <2>1
  <2>3. \A s \in Subs : chan'[s] \in ChannelOf(Len(history'))
    <3>1. Published' = 1..Len(history')
      BY DEF TypeOK, Published
    <3>2. \A s \in Subs : chan'[s] \in [state : {"off", "open", "gone"},
                                       q : Seq(Published' \cup {Ephemeral})]
      BY DEF TypeOK, Ephemeral
    <3> QED
      BY <3>1, <3>2 DEF ChannelOf
  <2>4. ASSUME NEW event, Commit(event)
        PROVE  \A s \in Subs : Streams(chan'[s], Len(history'))
    <3>1. Len(history') = n + 1
      BY <2>1, <2>4 DEF Commit, TypeOK
    <3>2. \A s \in Subs : chan'[s] = TryDeliver(chan[s], n + 1)
      BY <2>1, <2>4 DEF Commit, FanOut
    <3> QED
      BY <2>2, <3>1, <3>2, DeliverKeeps
  <2>5. ASSUME NEW chs \in [Subs -> ChannelOf(n)], \A s \in Subs : Streams(chs[s], n)
        PROVE  \A s \in Subs : Streams(FanOut(chs, Ephemeral)[s], n)
    BY <2>5, DeliverKeeps DEF FanOut
  <2>6. CASE Broadcast
    <3>1. Len(history') = n /\ chan' = FanOut(chan, Ephemeral)
      BY <2>1, <2>6 DEF Broadcast, store
    <3> QED
      BY <2>2, <2>5, <3>1
  <2>7. ASSUME NEW c \in Callers, RollbackAnnounce(c)
        PROVE  \A s \in Subs : Streams(chan'[s], Len(history'))
    <3>1. PICK chs : chs = FanOut(chan, Ephemeral)
      OBVIOUS
    <3>2. Len(history') = n /\ chan' \in {chs, FanOut(chs, Ephemeral)}
      BY <2>1, <2>7, <3>1 DEF RollbackAnnounce, store
    <3>3. chs \in [Subs -> ChannelOf(n)]
      BY <2>2, <3>1, FanOutType DEF ChannelOf
    <3>4. \A s \in Subs : Streams(chs[s], n)
      BY <2>2, <2>5, <3>1
    <3> QED
      BY <2>5, <3>2, <3>3, <3>4
  <2>8. ASSUME NEW r \in Subs, Recv(r)
        PROVE  \A s \in Subs : Streams(chan'[s], Len(history'))
    <3>1. Len(history') = n /\ chan[r].q # <<>>
      BY <2>1, <2>8 DEF Recv, store
    <3>2. \A s \in Subs \ {r} : chan'[s] = chan[s]
      BY <2>2, <2>8 DEF Recv
    <3>3. chan'[r].state = chan[r].state /\ chan'[r].q = Tail(chan[r].q)
      BY <2>2, <2>8 DEF Recv, ChannelOf
    <3>4. Streams(chan'[r], n)
      BY <2>2, <2>3, <3>1, <3>3, ReceiveKeeps
    <3> QED
      BY <2>2, <3>1, <3>2, <3>4
  <2>9. ASSUME NEW r \in Subs, Subscribe(r) \/ DropReceiver(r)
        PROVE  \A s \in Subs : Streams(chan'[s], Len(history'))
    <3>1. Len(history') = n
      BY <2>1, <2>9 DEF Subscribe, DropReceiver, store
    <3>2. \A s \in Subs \ {r} : chan'[s] = chan[s]
      BY <2>2, <2>9 DEF Subscribe, DropReceiver
    <3>3. chan'[r].q = <<>>
      BY <2>2, <2>9 DEF Subscribe, DropReceiver, ChannelOf
    <3>4. Streams(chan'[r], n)
      BY <3>3 DEF Streams, InOrder, NoGap
    <3> QED
      BY <2>2, <3>1, <3>2, <3>4
  <2>10. CASE Close
    <3>1. Len(history') = n
      BY <2>1, <2>10 DEF Close, store
    <3>2. \A s \in Subs : chan'[s].q = chan[s].q /\ chan'[s].state = "off"
      BY <2>2, <2>10 DEF Close, ChannelOf
    <3> QED
      BY <2>2, <3>1, <3>2 DEF Streams
  <2>11. CASE UNCHANGED <<history, chan>>
    BY <2>1, <2>2, <2>11
  <2>12. ASSUME NEW k \in Kinds, NEW p, Publish(k, p)
         PROVE  \A s \in Subs : Streams(chan'[s], Len(history'))
    BY <2>4, <2>12 DEF Publish
  <2>13. ASSUME NEW c \in Callers, Rolling(c)
         PROVE  \A s \in Subs : Streams(chan'[s], Len(history'))
    <3>1. CASE RollbackTombstone(c)
      BY <2>4, <3>1 DEF RollbackTombstone
    <3>2. CASE RollbackAnnounce(c)
      BY <2>7, <3>2
    <3>3. CASE ~RollbackTombstone(c) /\ ~RollbackAnnounce(c)
      BY <2>11, <2>13, <3>3 DEF Rolling, RollbackSeal, RollbackEvict, Abort, store
    <3> QED
      BY <3>1, <3>2, <3>3
  <2>14. CASE UNCHANGED vars
    BY <2>11, <2>14 DEF vars, store
  <2> QED
    BY <2>6, <2>8, <2>9, <2>10, <2>12, <2>13, <2>14 DEF Next, Client, Subscription
<1> QED
  BY <1>3, <1>4, TypeCorrect, PTL DEF Spec

-----------------------------------------------------------------------------
(* The refinement: the event bus implements the log its readers rely on,   *)
(* for every number of tasks, subscribers and events and every limit.      *)
(* First the branches as the readers see them.                             *)

BranchIds(bs) == [i \in DOMAIN bs |-> bs[i].ids]

\* A branch sealed last is seen last.
LEMMA BranchIdsPushed ==
    ASSUME NEW S, NEW R, NEW bs \in Seq([parent : R, ids : S]),
           NEW b \in [parent : R, ids : S]
    PROVE  BranchIds(Append(bs, b)) = Append(BranchIds(bs), b.ids)
<1> DEFINE B == [parent : R, ids : S]
<1>1. \A x \in B : x.ids \in S
  OBVIOUS
<1>2. bs \in Seq(B) /\ b \in B
  OBVIOUS
<1> HIDE DEF B
<1>3. /\ DOMAIN bs = 1..Len(bs) /\ Len(bs) \in Nat
      /\ \A i \in DOMAIN bs : bs[i].ids \in S
  BY <1>1, <1>2
<1>4. BranchIds(bs) \in Seq(S) /\ Len(BranchIds(bs)) = Len(bs)
  BY <1>3 DEF BranchIds
<1>5. /\ DOMAIN Append(bs, b) = 1..(Len(bs) + 1)
      /\ \A i \in 1..Len(bs) : Append(bs, b)[i] = bs[i]
      /\ Append(bs, b)[Len(bs) + 1] = b
  BY <1>2, <1>3
<1>6. /\ DOMAIN Append(BranchIds(bs), b.ids) = 1..(Len(bs) + 1)
      /\ \A i \in 1..Len(bs) : Append(BranchIds(bs), b.ids)[i] = bs[i].ids
      /\ Append(BranchIds(bs), b.ids)[Len(bs) + 1] = b.ids
  BY <1>3, <1>4 DEF BranchIds
<1>7. BranchIds(Append(bs, b)) = [i \in 1..(Len(bs) + 1) |-> Append(bs, b)[i].ids]
  BY <1>5 DEF BranchIds
<1>8. Append(BranchIds(bs), b.ids)
        = [i \in 1..(Len(bs) + 1) |-> Append(BranchIds(bs), b.ids)[i]]
  BY <1>1, <1>2, <1>4, <1>6
<1>9. \A i \in 1..(Len(bs) + 1) :
        Append(bs, b)[i].ids = Append(BranchIds(bs), b.ids)[i]
  BY <1>3, <1>5, <1>6
<1> QED
  BY <1>7, <1>8, <1>9

\* Branches forgotten from the front are forgotten from the front as seen.
LEMMA BranchIdsKept ==
    ASSUME NEW S, NEW R, NEW bs \in Seq([parent : R, ids : S]),
           NEW n \in 0..Len(bs)
    PROVE  BranchIds(SubSeq(bs, n + 1, Len(bs)))
             = SubSeq(BranchIds(bs), n + 1, Len(BranchIds(bs)))
<1> DEFINE B == [parent : R, ids : S]
<1>1. \A x \in B : x.ids \in S
  OBVIOUS
<1>2. bs \in Seq(B)
  OBVIOUS
<1> HIDE DEF B
<1>3. /\ DOMAIN bs = 1..Len(bs) /\ Len(bs) \in Nat
      /\ \A i \in DOMAIN bs : bs[i].ids \in S
  BY <1>1, <1>2
<1>4. /\ BranchIds(bs) \in Seq(S) /\ Len(BranchIds(bs)) = Len(bs)
      /\ \A i \in 1..Len(bs) : BranchIds(bs)[i] = bs[i].ids
  BY <1>3 DEF BranchIds
<1>5. SubSeq(bs, n + 1, Len(bs)) = [i \in 1..(Len(bs) - n) |-> bs[n + i]]
  BY <1>2, <1>3
<1>6. SubSeq(BranchIds(bs), n + 1, Len(bs))
        = [i \in 1..(Len(bs) - n) |-> BranchIds(bs)[n + i]]
  BY <1>3, <1>4
<1> HIDE DEF BranchIds
<1>7. \A i \in 1..(Len(bs) - n) : BranchIds(bs)[n + i] = bs[n + i].ids
  BY <1>3, <1>4
<1>8. SubSeq(BranchIds(bs), n + 1, Len(bs)) = [i \in 1..(Len(bs) - n) |-> bs[n + i].ids]
  BY <1>6, <1>7
<1>9. BranchIds(SubSeq(bs, n + 1, Len(bs))) = [i \in 1..(Len(bs) - n) |-> bs[n + i].ids]
  BY <1>5 DEF BranchIds
<1> QED
  BY <1>4, <1>8, <1>9

-----------------------------------------------------------------------------
(* Steps.                                                                  *)

\* A rollback on its way has something to write a tombstone about.
OwesSomething == \A c \in Callers : InFlight(c) => call[c].rejected # {}

\* A caller's step changes nothing of what the others owe.
LEMMA OwedAfter ==
    ASSUME TypeOK, NEW c \in Callers, NEW l, call' = [call EXCEPT ![c] = l]
    PROVE  /\ l.phase = "sealed" => Owed' = [Owed EXCEPT ![c] = l.rejected]
           /\ l.phase \in {"idle", "aborted"} => Owed' = [Owed EXCEPT ![c] = {}]
<1>1. DOMAIN call = Callers
  BY DEF TypeOK
<1>2. call'[c] = l /\ \A d \in Callers \ {c} : call'[d] = call[d]
  BY <1>1
<1>3. \A d \in Callers \ {c} : Owed'[d] = Owed[d]
  BY <1>2 DEF Owed, InFlight
<1>4. /\ l.phase = "sealed" => Owed'[c] = l.rejected
      /\ l.phase \in {"idle", "aborted"} => Owed'[c] = {}
  BY <1>2 DEF Owed, InFlight
<1>5. Owed' = [d \in Callers |-> Owed'[d]] /\ Owed = [d \in Callers |-> Owed[d]]
  BY DEF Owed
<1> QED
  BY <1>3, <1>4, <1>5

\* What is committed is fresh, and the last event of the log.
LEMMA CommitGrows ==
    ASSUME TypeOK, NEW event \in Event, event.parent \in Published \cup {None},
           Commit(event)
    PROVE  \E e \in Range(active_path') : Promise!Grow(e)
<1> DEFINE id == Len(history) + 1
<1>1. Published' = Published \cup {id} /\ id \notin Published
  BY CommitType
<1>2. active_path' = Append(active_path, id) /\ active_path \in Seq(Published)
  BY DEF Commit, TypeOK
<1>3. id \in Range(active_path')
  BY <1>2, RangeOfAppend
<1>4. rejected_branches' = rejected_branches
  BY DEF Commit
<1>5. Promise!Grow(id)
  BY <1>1, <1>2, <1>4 DEF Promise!Grow
<1> QED
  BY <1>3, <1>5

\* A client's publish (bus.rs publish) is an append of a fresh event to the log.
LEMMA PublishStep ==
    ASSUME TypeOK, NEW k \in Kinds, NEW p \in Published \cup {None}, Publish(k, p)
    PROVE  Promise!LogNext
<1>1. /\ Message(k, p) \in Event
      /\ Message(k, p).parent = p
  BY MessageType DEF Message
<1>2. PICK e \in Range(active_path') : Promise!Grow(e)
  BY <1>1, CommitGrows DEF Publish
<1>3. Owed' = Owed
  BY DEF Publish, Owed, InFlight
<1>4. Promise!Publish(e)
  BY <1>2, <1>3 DEF Promise!Publish
<1> QED
  BY <1>2, <1>4 DEF Promise!LogNext, Promise!Range, Range

\* The publication of a tombstone appends it and pays what the rollback owed.
LEMMA TombstoneStep ==
    ASSUME TypeOK, OwesSomething, NEW c \in Callers, RollbackTombstone(c)
    PROVE  Promise!LogNext
<1>1. Tombstone(c) \in Event /\ Tombstone(c).parent = None
  BY TombstoneType DEF Tombstone
<1>2. PICK e \in Range(active_path') : Promise!Grow(e)
  BY <1>1, CommitGrows DEF RollbackTombstone
<1>3. Owed[c] # {}
  BY DEF RollbackTombstone, OwesSomething, Owed, InFlight
<1>4. Owed' = [Owed EXCEPT ![c] = {}]
  <2>1. call' = [call EXCEPT ![c] = Idle] /\ Idle.phase = "idle"
    BY DEF RollbackTombstone, Idle
  <2> QED
    BY <2>1, OwedAfter
<1>5. Promise!Announce(c, e)
  BY <1>2, <1>3, <1>4 DEF Promise!Announce
<1> QED
  BY <1>2, <1>5 DEF Promise!LogNext, Promise!Range, Range

\* The first section of rollback is a cut of the log, which owes a tombstone.
LEMMA SealStep ==
    ASSUME TypeOK, NEW c \in Callers, NEW pos \in DOMAIN active_path,
           RollbackSeal(c, pos)
    PROVE  Promise!LogNext
<1> DEFINE ids == From(active_path, pos)
           b == [parent |-> ParentAt(active_path, pos), ids |-> ids]
<1>1. Owed[c] = {}
  BY DEF RollbackSeal, Owed, InFlight
<1>2. Published' = Published
  BY DEF RollbackSeal, Published
<1>3. Owed' = [Owed EXCEPT ![c] = Range(ids)]
  <2> DEFINE l == [phase    |-> "sealed",
                   cut      |-> ParentAt(active_path, pos),
                   rejected |-> Range(ids),
                   pruned   |-> FALSE]
  <2>1. call' = [call EXCEPT ![c] = l]
    BY DEF RollbackSeal
  <2>2. l.phase = "sealed" /\ l.rejected = Range(ids)
    OBVIOUS
  <2> HIDE DEF l
  <2> QED
    BY <2>1, <2>2, OwedAfter
<1>4. active_path' = SubSeq(active_path, 1, pos - 1)
  BY DEF RollbackSeal, Before
<1>5. BranchIds(rejected_branches)' = Append(BranchIds(rejected_branches), ids)
  <2>1. /\ rejected_branches \in Seq([parent : Published \cup {None}, ids : Seq(Published)])
        /\ active_path \in Seq(Published)
    BY DEF TypeOK
  <2>2. b \in [parent : Published \cup {None}, ids : Seq(Published)]
    BY <2>1, CutType
  <2>3. rejected_branches' = Append(rejected_branches, b)
    BY DEF RollbackSeal
  <2>4. BranchIds(Append(rejected_branches, b)) = Append(BranchIds(rejected_branches), b.ids)
    <3> DEFINE S == Seq(Published)
               R == Published \cup {None}
    <3>1. rejected_branches \in Seq([parent : R, ids : S]) /\ b \in [parent : R, ids : S]
      BY <2>1, <2>2
    <3> HIDE DEF b, S, R
    <3> QED
      BY <3>1, BranchIdsPushed, ZenonT(60)
  <2> QED
    BY <2>3, <2>4 DEF BranchIds
<1>6. Promise!Cut(c, pos)
  BY <1>1, <1>2, <1>3, <1>4, <1>5 DEF Promise!Cut, Promise!Range, Range, BranchIds, From
<1> QED
  BY <1>6 DEF Promise!LogNext

\* An eviction that finds nothing to evict is not seen at all.
LEMMA EvictStep ==
    ASSUME TypeOK, NEW c \in Callers, RollbackEvict(c)
    PROVE  [Promise!LogNext]_Promise!busVars
<1> DEFINE n == Excess(rejected_branches)
<1>1. Published' = Published /\ active_path' = active_path
  BY DEF RollbackEvict, Published
<1>2. Owed' = Owed
  <2>1. DOMAIN call = Callers
    BY DEF TypeOK
  <2>2. /\ InFlight(c)' /\ InFlight(c) /\ call'[c].rejected = call[c].rejected
        /\ \A d \in Callers \ {c} : call'[d] = call[d]
    BY <2>1 DEF RollbackEvict, InFlight, TypeOK
  <2> QED
    BY <2>2 DEF Owed, InFlight
<1>3. /\ rejected_branches \in Seq([parent : Published \cup {None}, ids : Seq(Published)])
      /\ n \in 0..Len(rejected_branches)
  BY ExcessType DEF TypeOK
<1>4. rejected_branches' = SubSeq(rejected_branches, n + 1, Len(rejected_branches))
  BY DEF RollbackEvict, Retained
<1>5. BranchIds(rejected_branches)'
        = SubSeq(BranchIds(rejected_branches), n + 1, Len(BranchIds(rejected_branches)))
  <2>1. BranchIds(SubSeq(rejected_branches, n + 1, Len(rejected_branches)))
          = SubSeq(BranchIds(rejected_branches), n + 1, Len(BranchIds(rejected_branches)))
    BY <1>3, BranchIdsKept
  <2> QED
    BY <1>4, <2>1 DEF BranchIds
<1>6. CASE n = 0
  <2>1. rejected_branches' = rejected_branches
    BY <1>3, <1>4, <1>6
  <2> QED
    BY <1>1, <1>2, <2>1 DEF Promise!busVars
<1>7. CASE n # 0
  <2>1. PICK m \in 1..Len(rejected_branches) : m = n
    BY <1>3, <1>7
  <2>2. m \in DOMAIN BranchIds(rejected_branches)
    BY <2>1, <1>3 DEF BranchIds
  <2>3. BranchIds(rejected_branches)'
          = SubSeq(BranchIds(rejected_branches), m + 1, Len(BranchIds(rejected_branches)))
    BY <1>5, <2>1
  <2>4. Promise!Forget(m)
    BY <1>1, <1>2, <2>3 DEF Promise!Forget, BranchIds
  <2>5. \E k \in DOMAIN BranchIds(rejected_branches) : Promise!Forget(k)
    BY <2>2, <2>4
  <2>6. Promise!LogNext
    BY <2>5 DEF Promise!LogNext, BranchIds
  <2> QED
    BY <2>6
<1> QED
  BY <1>6, <1>7

\* A rollback whose future is dropped is forgiven its tombstone: the log stays as it is.
LEMMA AbortStep ==
    ASSUME TypeOK, NEW c \in Callers, Abort(c)
    PROVE  Promise!LogNext
<1>1. call' = [call EXCEPT ![c] = [call[c] EXCEPT !.phase = "aborted"]]
  BY DEF Abort, TypeOK
<1>2. Owed' = [Owed EXCEPT ![c] = {}]
  <2>1. [call[c] EXCEPT !.phase = "aborted"].phase = "aborted"
    BY DEF TypeOK
  <2> HIDE DEF Owed
  <2> QED
    BY <1>1, <2>1, OwedAfter
<1>3. /\ active_path' = active_path /\ rejected_branches' = rejected_branches
      /\ Published' = Published
  BY DEF Abort, store, Published
<1>4. Promise!Abandon(c)
  BY <1>2, <1>3 DEF Promise!Abandon
<1> QED
  BY <1>4 DEF Promise!LogNext

\* Steps of the channels and announcements are not seen in the log.
LEMMA UnseenStep ==
    ASSUME TypeOK, UNCHANGED store,
           \A c \in Callers : /\ call'[c].rejected = call[c].rejected
                              /\ InFlight(c)' = InFlight(c)
    PROVE  UNCHANGED Promise!busVars
<1>1. Owed' = Owed
  BY DEF Owed
<1> QED
  BY <1>1 DEF Promise!busVars, store, Published

-----------------------------------------------------------------------------
(* The refinement.                                                         *)

\* A rollback under way has rejected something: every step keeps this.
LEMMA OwesStep ==
    ASSUME TypeOK, OwesSomething, [Next]_vars
    PROVE  OwesSomething'
<1> SUFFICES ASSUME NEW d \in Callers, InFlight(d)'
             PROVE  call'[d].rejected # {}
  BY DEF OwesSomething
<1>1. DOMAIN call = Callers /\ \A c \in Callers : InFlight(c) => call[c].rejected # {}
  BY DEF TypeOK, OwesSomething
<1>2. CASE call' = call
  BY <1>1, <1>2 DEF InFlight
<1>3. ASSUME NEW c \in Callers, NEW pos \in DOMAIN active_path, RollbackSeal(c, pos)
      PROVE  call'[d].rejected # {}
  <2>1. active_path \in Seq(Published)
    BY DEF TypeOK
  <2>2. From(active_path, pos)[1] = active_path[pos] /\ 1 \in DOMAIN From(active_path, pos)
    BY <2>1 DEF From
  <2>3. Range(From(active_path, pos)) # {}
    BY <2>2 DEF Range
  <2> QED
    BY <1>1, <1>3, <2>3 DEF RollbackSeal, InFlight
<1>4. ASSUME NEW c \in Callers, RollbackTombstone(c)
      PROVE  call'[d].rejected # {}
  BY <1>1, <1>4 DEF RollbackTombstone, InFlight, Idle
<1>5. ASSUME NEW c \in Callers, RollbackEvict(c)
      PROVE  call'[d].rejected # {}
  <2>1. call[c].phase = "sealed" /\ call'[c].rejected = call[c].rejected
    BY <1>1, <1>5 DEF RollbackEvict, TypeOK
  <2>2. d # c => call'[d] = call[d]
    BY <1>1, <1>5 DEF RollbackEvict
  <2> QED
    BY <1>1, <2>1, <2>2 DEF InFlight
<1>6. ASSUME NEW c \in Callers, RollbackAnnounce(c)
      PROVE  call'[d].rejected # {}
  <2>1. call[c].phase = "evicted" /\ call'[c].rejected = call[c].rejected
    BY <1>1, <1>6 DEF RollbackAnnounce, TypeOK
  <2>2. d # c => call'[d] = call[d]
    BY <1>1, <1>6 DEF RollbackAnnounce
  <2> QED
    BY <1>1, <2>1, <2>2 DEF InFlight
<1>7. ASSUME NEW c \in Callers, Abort(c)
      PROVE  call'[d].rejected # {}
  <2>1. call'[c].phase = "aborted"
    BY <1>1, <1>7 DEF Abort, TypeOK
  <2>2. d # c => call'[d] = call[d]
    BY <1>1, <1>7 DEF Abort
  <2> QED
    BY <1>1, <2>1, <2>2 DEF InFlight
<1> QED
  BY <1>2, <1>3, <1>4, <1>5, <1>6, <1>7
     DEF Next, Client, Rolling, Subscription, Publish, Broadcast, Subscribe,
         Recv, DropReceiver, Close, vars

\* Every step of the bus is a step of the log, or is not seen in it.
LEMMA BusStepIsLogStep ==
    ASSUME TypeOK, OwesSomething, [Next]_vars
    PROVE  [Promise!LogNext]_Promise!busVars
<1>1. ASSUME NEW k \in Kinds, Publish(k, None)
      PROVE  Promise!LogNext
  BY <1>1, PublishStep
<1>2. ASSUME NEW k \in Kinds, NEW p \in ReplyTo \cap Published, Publish(k, p)
      PROVE  Promise!LogNext
  BY <1>2, PublishStep
<1>3. CASE Broadcast \/ Subscription \/ UNCHANGED vars
  <2>1. UNCHANGED store /\ call' = call
    BY <1>3 DEF Broadcast, Subscription, Subscribe, Recv, DropReceiver, Close, vars
  <2> QED
    BY <2>1, UnseenStep DEF InFlight
<1>4. ASSUME NEW c \in Callers, NEW pos \in DOMAIN active_path, RollbackSeal(c, pos)
      PROVE  Promise!LogNext
  BY <1>4, SealStep
<1>5. ASSUME NEW c \in Callers, RollbackEvict(c)
      PROVE  [Promise!LogNext]_Promise!busVars
  BY <1>5, EvictStep
<1>6. ASSUME NEW c \in Callers, RollbackAnnounce(c)
      PROVE  UNCHANGED Promise!busVars
  <2>1. DOMAIN call = Callers
    BY DEF TypeOK
  <2>2. /\ \A d \in Callers : call'[d].rejected = call[d].rejected
        /\ \A d \in Callers : d # c => call'[d] = call[d]
        /\ call[c].phase = "evicted" /\ call'[c].phase = "announced"
    BY <1>6, <2>1 DEF RollbackAnnounce, TypeOK
  <2>3. \A d \in Callers : InFlight(d)' = InFlight(d)
    BY <2>2 DEF InFlight
  <2> QED
    BY <1>6, <2>2, <2>3, UnseenStep DEF RollbackAnnounce
<1>7. ASSUME NEW c \in Callers, RollbackTombstone(c)
      PROVE  Promise!LogNext
  BY <1>7, TombstoneStep
<1>8. ASSUME NEW c \in Callers, Abort(c)
      PROVE  Promise!LogNext
  BY <1>8, AbortStep
<1> QED
  BY <1>1, <1>2, <1>3, <1>4, <1>5, <1>6, <1>7, <1>8
     DEF Next, Client, Rolling, Published

\* The bus, seen through its log, its branches and the tombstones still to
\* come, is the log its readers rely on, however rollbacks, publishes and
\* dropped futures interleave.
THEOREM BusIsALog == Spec => ImplementsBusLog
<1>1. Init => Promise!LogInit
  BY DEF Init, InitStore, Promise!LogInit, Owed, InFlight, Idle, Published
<1>2. Init => OwesSomething
  BY DEF Init, InitStore, OwesSomething, InFlight, Idle
<1>3. TypeOK /\ OwesSomething /\ [Next]_vars => OwesSomething'
  BY OwesStep
<1>4. TypeOK /\ OwesSomething /\ [Next]_vars => [Promise!LogNext]_Promise!busVars
  BY BusStepIsLogStep
<1> QED
  BY <1>1, <1>2, <1>3, <1>4, TypeCorrect, PTL DEF Spec, ImplementsBusLog, Promise!LogSpec

\* Nor does a step of the log bring back what has left it.
LEMMA LogStep ==
    ASSUME active_path \in Seq(Published), [Promise!LogNext]_Promise!busVars
    PROVE  Range(active_path') \cap Published \subseteq Range(active_path)
<1>1. ASSUME NEW e, Promise!Grow(e)
      PROVE  Range(active_path') \cap Published \subseteq Range(active_path)
  <2>1. active_path' = Append(active_path, e) /\ e \notin Published
    BY <1>1 DEF Promise!Grow
  <2> QED
    BY <2>1, RangeOfAppend
<1>2. ASSUME NEW c \in Callers, NEW pos \in DOMAIN active_path, Promise!Cut(c, pos)
      PROVE  Range(active_path') \cap Published \subseteq Range(active_path)
  <2>1. active_path' = SubSeq(active_path, 1, pos - 1)
    BY <1>2 DEF Promise!Cut
  <2>2. \A i \in DOMAIN active_path' : i \in DOMAIN active_path /\ active_path'[i] = active_path[i]
    BY <2>1
  <2> QED
    BY <2>2 DEF Range
<1>3. CASE active_path' = active_path
  BY <1>3 DEF Range
<1> QED
  BY <1>1, <1>2, <1>3
     DEF Promise!LogNext, Promise!Publish, Promise!Announce, Promise!Abandon,
         Promise!Forget, Promise!busVars

\* So an event that a rollback took off the log stays off it, and a reader that
\* forgot it need not ask about it again.
THEOREM RejectedStaysRejected == Spec => Promise!NeverBack
<1>1. TypeOK /\ [Promise!LogNext]_Promise!busVars
        => [Range(active_path') \cap Published \subseteq Range(active_path)]_Promise!busVars
  BY LogStep DEF TypeOK
<1>2. [Range(active_path') \cap Published \subseteq Range(active_path)]_Promise!busVars
        => [Promise!Range(active_path') \cap Published \subseteq Promise!Range(active_path)]_Promise!busVars
  BY DEF Range, Promise!Range
<1> QED
  BY <1>1, <1>2, BusIsALog, TypeCorrect, PTL DEF ImplementsBusLog, Promise!LogSpec, Promise!NeverBack

-----------------------------------------------------------------------------
(* Induction and recursion.                                                *)

\* A set of numbers has a least one.
LEMMA Least ==
    ASSUME NEW T \in SUBSET Nat, T # {}
    PROVE  \E n \in T : \A m \in T : n <= m
<1> DEFINE R == {ss \in Nat \X Nat : ss[1] < ss[2]}
<1>1. IsWellFoundedOn(R, Nat)
  BY NatLessThanWellFounded DEF OpToRel
<1>2. PICK n \in T : \A m \in T : <<m, n>> \notin R
  BY <1>1, WFMin
<1>3. \A m \in T : n <= m
  <2> TAKE m \in T
  <2>1. <<m, n>> \in Nat \X Nat /\ <<m, n>>[1] = m /\ <<m, n>>[2] = n
    OBVIOUS
  <2> QED
    BY <1>2, <2>1
<1> QED
  BY <1>3

\* Up to a bound, what holds of zero and of a number's successor holds of all.
LEMMA Induction ==
    ASSUME NEW bound \in Nat, NEW G \in SUBSET Nat, 0 \in G,
           \A n \in G : n < bound => n + 1 \in G
    PROVE  0..bound \subseteq G
<1> SUFFICES ASSUME (0..bound) \ G # {}
             PROVE  FALSE
  OBVIOUS
<1>1. PICK n \in (0..bound) \ G : \A m \in (0..bound) \ G : n <= m
  <2> DEFINE T == (0..bound) \ G
  <2>1. T \subseteq Nat /\ T # {}
    OBVIOUS
  <2> HIDE DEF T
  <2>2. \E n \in T : \A m \in T : n <= m
    BY <2>1, Least
  <2> QED
    BY <2>2 DEF T
<1>2. n # 0 /\ n - 1 \in 0..bound /\ n - 1 < bound /\ n - 1 < n
  BY <1>1
<1>3. n - 1 \in G
  BY <1>1, <1>2
<1>4. (n - 1) + 1 = n
  OBVIOUS
<1> QED
  BY <1>2, <1>3, <1>4

\* A loop from `base` over `bound` rounds, each taking what the one before has left.
Loops(f, bound, base, round) ==
    /\ f[0] = base
    /\ \A n \in 1..bound : f[n] = round[<<f[n - 1], n>>]

\* A loop that stays in a set has a result after every round.
LEMMA LoopsExist ==
    ASSUME NEW S, NEW base \in S, NEW bound \in Nat, NEW round \in [S \X (1..bound) -> S]
    PROVE  \E f \in [0..bound -> S] : Loops(f, bound, base, round)
<1> DEFINE G == {k \in Nat : k <= bound => \E f \in [0..k -> S] : Loops(f, k, base, round)}
<1>1. 0 \in G
  <2>1. [n \in 0..0 |-> base] \in [0..0 -> S] /\ [n \in 0..0 |-> base][0] = base
    OBVIOUS
  <2>2. Loops([n \in 0..0 |-> base], 0, base, round)
    BY <2>1 DEF Loops
  <2> QED
    BY <2>1, <2>2
<1>2. ASSUME NEW k \in G, k < bound
      PROVE  k + 1 \in G
  <2>1. PICK f \in [0..k -> S] : Loops(f, k, base, round)
    BY <1>2
  <2>2. k + 1 \in 1..bound /\ f[k] \in S
    BY <1>2
  <2>3. PICK x \in S : x = round[<<f[k], k + 1>>]
    BY <2>2
  <2>4. PICK g : g = [n \in 0..(k + 1) |-> IF n = k + 1 THEN x ELSE f[n]]
    OBVIOUS
  <2>5. /\ g \in [0..(k + 1) -> S]
        /\ g[k + 1] = x
        /\ \A n \in 0..k : g[n] = f[n]
    <3>1. \A n \in 0..(k + 1) : n # k + 1 => n \in 0..k
      BY <1>2
    <3>2. \A n \in 0..k : n # k + 1 /\ n \in 0..(k + 1)
      BY <1>2
    <3>3. k + 1 \in 0..(k + 1)
      BY <1>2
    <3> QED
      BY <2>4, <3>1, <3>2, <3>3
  <2>6. g[0] = base
    BY <1>2, <2>1, <2>5 DEF Loops
  <2>7. ASSUME NEW n \in 1..(k + 1)
        PROVE  g[n] = round[<<g[n - 1], n>>]
    <3>1. n - 1 \in 0..k
      BY <1>2
    <3>2. g[n - 1] = f[n - 1]
      BY <3>1, <2>5
    <3>3. CASE n = k + 1
      <4>1. n - 1 = k
        BY <1>2, <3>3
      <4> QED
        BY <2>3, <2>5, <3>2, <3>3, <4>1
    <3>4. CASE n # k + 1
      <4>1. n \in 1..k /\ n \in 0..k
        BY <1>2, <3>4
      <4> QED
        BY <2>1, <2>5, <3>2, <4>1 DEF Loops
    <3> QED
      BY <3>3, <3>4
  <2> QED
    BY <1>2, <2>5, <2>6, <2>7 DEF Loops
<1>3. 0..bound \subseteq G
  <2> HIDE DEF G
  <2>1. G \in SUBSET Nat
    BY DEF G
  <2> QED
    BY <1>1, <1>2, <2>1, Induction
<1> QED
  BY <1>3

-----------------------------------------------------------------------------
(* Sequences whose elements grow.                                          *)

Rising(s) == \A i, j \in DOMAIN s : i < j => s[i] < s[j]

\* A name later than all in a sequence may follow it.
LEMMA RisingGrows ==
    ASSUME NEW s \in Seq(Nat), Rising(s), NEW x \in Nat, \A y \in Range(s) : y < x
    PROVE  Append(s, x) \in Seq(Nat) /\ Rising(Append(s, x))
<1>1. /\ DOMAIN Append(s, x) = 1..(Len(s) + 1) /\ DOMAIN s = 1..Len(s) /\ Len(s) \in Nat
      /\ \A i \in 1..Len(s) : Append(s, x)[i] = s[i]
      /\ Append(s, x)[Len(s) + 1] = x
  OBVIOUS
<1>2. \A i \in 1..Len(s) : s[i] < x
  BY <1>1 DEF Range
<1> QED
  BY <1>1, <1>2 DEF Rising

\* Two pieces of a growing sequence grow, and have nothing in common.
LEMMA RisingCut ==
    ASSUME NEW s \in Seq(Nat), Rising(s), NEW pos \in DOMAIN s
    PROVE  /\ Before(s, pos) \in Seq(Nat) /\ Rising(Before(s, pos))
           /\ From(s, pos) \in Seq(Nat) /\ Rising(From(s, pos))
           /\ Range(Before(s, pos)) \cup Range(From(s, pos)) = Range(s)
           /\ Range(Before(s, pos)) \cap Range(From(s, pos)) = {}
           /\ Range(From(s, pos)) # {}
<1> DEFINE a == Before(s, pos)
           b == From(s, pos)
<1>1. /\ a \in Seq(Nat) /\ DOMAIN a = 1..(pos - 1) /\ \A i \in DOMAIN a : a[i] = s[i]
      /\ DOMAIN s = 1..Len(s) /\ Len(s) \in Nat /\ pos \in Nat
  BY DEF Before
<1>2. /\ b \in Seq(Nat) /\ DOMAIN b = 1..(Len(s) - pos + 1)
      /\ \A i \in DOMAIN b : b[i] = s[i + pos - 1]
  BY DEF From
<1>3. Range(a) \cup Range(b) = Range(s)
  <2>1. pos \in 1..(Len(s) + 1)
    BY <1>1
  <2> HIDE DEF a, b
  <2>2. Range(Before(s, pos)) \cup Range(From(s, pos)) = Range(s)
    BY <2>1, RangeOfCut
  <2> QED
    BY <2>2 DEF a, b
<1> HIDE DEF a, b
<1>4. Rising(a) /\ Rising(b)
  <2>1. \A i \in DOMAIN a : i \in DOMAIN s
    BY <1>1
  <2>2. ASSUME NEW i \in DOMAIN b
        PROVE  i + pos - 1 \in DOMAIN s
    <3>1. /\ i \in 1..(Len(s) - pos + 1) /\ pos \in 1..Len(s) /\ DOMAIN s = 1..Len(s)
          /\ Len(s) \in Nat
      BY <1>1, <1>2
    <3> QED
      BY <3>1
  <2>3. \A i, j \in DOMAIN b : i < j => i + pos - 1 < j + pos - 1
    BY <1>1, <1>2
  <2>4. Rising(a)
    BY <1>1, <2>1 DEF Rising
  <2>5. Rising(b)
    BY <1>2, <2>2, <2>3 DEF Rising
  <2> QED
    BY <2>4, <2>5
<1>5. Range(a) \cap Range(b) = {}
  <2>0. \A i \in DOMAIN a, j \in DOMAIN b :
          i \in DOMAIN s /\ j + pos - 1 \in DOMAIN s /\ i < j + pos - 1
    <3>1. \A i \in 1..(pos - 1) : i \in 1..Len(s) /\ i < pos
      BY <1>1
    <3>2. \A j \in 1..(Len(s) - pos + 1) : j + pos - 1 \in 1..Len(s) /\ pos <= j + pos - 1
      BY <1>1
    <3>3. \A i \in 1..(pos - 1), j \in 1..(Len(s) - pos + 1) : i < j + pos - 1
      BY <1>1
    <3> QED
      BY <1>1, <1>2, <3>1, <3>2, <3>3
  <2>1. \A i \in DOMAIN a, j \in DOMAIN b :
          /\ i \in DOMAIN s /\ j + pos - 1 \in DOMAIN s /\ i < j + pos - 1
          /\ s[i] \in Nat /\ s[j + pos - 1] \in Nat
    BY <2>0
  <2>2. \A i \in DOMAIN a, j \in DOMAIN b : a[i] # b[j]
    BY <1>1, <1>2, <2>1 DEF Rising
  <2> QED
    BY <2>2 DEF Range
<1>6. Range(b) # {}
  <2>1. 1 \in DOMAIN b
    BY <1>1, <1>2
  <2> QED
    BY <2>1 DEF Range
<1> QED
  BY <1>1, <1>2, <1>3, <1>4, <1>5, <1>6 DEF a, b

\* Where two growing sequences of the same elements agree up to a place of the
\* first, they agree at it.
LEMMA RisingAgree ==
    ASSUME NEW s \in Seq(Nat), NEW t \in Seq(Nat), Rising(s), Rising(t),
           Range(s) = Range(t), NEW i \in DOMAIN s,
           \A j \in DOMAIN s \cup DOMAIN t :
               j < i => j \in DOMAIN s /\ j \in DOMAIN t /\ s[j] = t[j]
    PROVE  i \in DOMAIN t /\ s[i] = t[i]
<1>1. /\ DOMAIN s = 1..Len(s) /\ DOMAIN t = 1..Len(t) /\ Len(s) \in Nat /\ Len(t) \in Nat
      /\ \A j \in DOMAIN s : s[j] \in Nat
      /\ \A j \in DOMAIN t : t[j] \in Nat
  OBVIOUS
<1>2. PICK k \in DOMAIN t : t[k] = s[i]
  BY DEF Range
<1>3. i <= k
  <2>1. ASSUME k < i
        PROVE  FALSE
    <3>1. k \in DOMAIN s /\ s[k] = s[i]
      BY <1>2, <2>1
    <3> QED
      BY <1>1, <2>1, <3>1 DEF Rising
  <2> QED
    BY <1>1, <2>1
<1>4. i \in DOMAIN t
  BY <1>1, <1>2, <1>3
<1>5. PICK m \in DOMAIN s : s[m] = t[i]
  BY <1>4 DEF Range
<1>6. i <= m
  <2>1. ASSUME m < i
        PROVE  FALSE
    <3>1. m \in DOMAIN t /\ t[m] = t[i]
      BY <1>5, <2>1
    <3> QED
      BY <1>1, <1>4, <2>1, <3>1 DEF Rising
  <2> QED
    BY <1>1, <2>1
<1>7. s[i] <= s[m] /\ t[i] <= t[k]
  <2>1. i = m \/ i < m
    BY <1>1, <1>6
  <2>2. i = k \/ i < k
    BY <1>1, <1>3
  <2> QED
    BY <1>1, <1>2, <1>4, <1>5, <2>1, <2>2 DEF Rising
<1> QED
  BY <1>1, <1>2, <1>4, <1>5, <1>7

\* Growing sequences of the same elements are the same.
LEMMA RisingIsUnique ==
    ASSUME NEW s \in Seq(Nat), NEW t \in Seq(Nat), Rising(s), Rising(t), Range(s) = Range(t)
    PROVE  s = t
<1> DEFINE D == DOMAIN s \cup DOMAIN t
           T == {i \in D : ~ (i \in DOMAIN s /\ i \in DOMAIN t /\ s[i] = t[i])}
<1>1. /\ DOMAIN s = 1..Len(s) /\ DOMAIN t = 1..Len(t)
      /\ D \subseteq Nat
  OBVIOUS
<1>2. T = {}
  <2> SUFFICES ASSUME T # {}
               PROVE  FALSE
    OBVIOUS
  <2>1. T \subseteq Nat
    BY <1>1
  <2>2. PICK i \in T : \A j \in T : i <= j
    <3> HIDE DEF T
    <3> QED
      BY <2>1, Least
  <2>3. \A j \in D : j < i => j \in DOMAIN s /\ j \in DOMAIN t /\ s[j] = t[j]
    <3> SUFFICES ASSUME NEW j \in D, j < i, j \in T
                 PROVE  FALSE
      OBVIOUS
    <3>1. i <= j /\ i \in Nat /\ j \in Nat
      BY <2>1, <2>2
    <3> QED
      BY <3>1
  <2>4. CASE i \in DOMAIN s
    BY <2>2, <2>3, <2>4, RisingAgree
  <2>5. CASE i \in DOMAIN t
    BY <2>2, <2>3, <2>5, RisingAgree
  <2> QED
    BY <2>2, <2>4, <2>5
<1>3. DOMAIN s = DOMAIN t /\ \A i \in DOMAIN s : s[i] = t[i]
  BY <1>2
<1> HIDE DEF T, D
<1>4. Len(s) = Len(t)
  <2>0. Len(s) \in Nat /\ Len(t) \in Nat
    BY LenProperties
  <2>1. 1..Len(s) = 1..Len(t) /\ Len(s) \in Nat /\ Len(t) \in Nat
    BY <1>1, <1>3, <2>0, Zenon
  <2>2. ASSUME Len(s) < Len(t)
        PROVE  FALSE
    <3>1. Len(t) \in 1..Len(t) /\ Len(t) \notin 1..Len(s)
      BY <2>1, <2>2
    <3> QED
      BY <2>1, <3>1
  <2>3. ASSUME Len(t) < Len(s)
        PROVE  FALSE
    <3>1. Len(s) \in 1..Len(s) /\ Len(s) \notin 1..Len(t)
      BY <2>1, <2>3
    <3> QED
      BY <2>1, <3>1
  <2> QED
    BY <2>1, <2>2, <2>3
<1> QED
  BY <1>1, <1>3, <1>4, SeqEqual

-----------------------------------------------------------------------------
(* Filters.                                                                *)

\* What On computes, round by round.
Keeps(f, ids, set) ==
    f = [n \in 0..Len(ids) |->
            IF n = 0 THEN <<>>
            ELSE IF ids[n] \in set THEN Append(f[n - 1], ids[n])
            ELSE f[n - 1]]

\* `filter` comes to an end.
LEMMA KeepsExists ==
    ASSUME NEW S, NEW ids \in Seq(S), NEW set
    PROVE  \E f : Keeps(f, ids, set)
<1> DEFINE L == Len(ids)
           round == [x \in Seq(S) \X (1..L) |->
                        IF ids[x[2]] \in set THEN Append(x[1], ids[x[2]]) ELSE x[1]]
<1>1. L \in Nat /\ <<>> \in Seq(S) /\ \A n \in 1..L : ids[n] \in S
  OBVIOUS
<1>2. round \in [Seq(S) \X (1..L) -> Seq(S)]
  BY <1>1
<1>3. PICK f \in [0..L -> Seq(S)] : Loops(f, L, <<>>, round)
  <2> HIDE DEF round, L
  <2> QED
    BY <1>1, <1>2, LoopsExist
<1>4. f[0] = <<>>
  BY <1>3 DEF Loops
<1>5. ASSUME NEW n \in 1..L
      PROVE  f[n] = IF ids[n] \in set THEN Append(f[n - 1], ids[n]) ELSE f[n - 1]
  <2>1. n - 1 \in 0..L
    BY <1>1
  <2>2. f[n - 1] \in Seq(S)
    BY <1>3, <2>1
  <2>3. PICK q \in Seq(S) : q = f[n - 1]
    BY <2>2
  <2>4. f[n] = round[<<q, n>>]
    BY <1>3, <2>3 DEF Loops
  <2>5. /\ <<q, n>> \in Seq(S) \X (1..L)
        /\ <<q, n>>[1] = q /\ <<q, n>>[2] = n
    OBVIOUS
  <2> QED
    BY <2>3, <2>4, <2>5
<1>6. \A n \in 0..L : n # 0 => n \in 1..L
  BY <1>1
<1>7. f = [n \in 0..L |-> f[n]]
  BY <1>3
<1> HIDE DEF round
<1> QED
  BY <1>4, <1>5, <1>6, <1>7 DEF Keeps

\* `filter` keeps the elements that are in the set, and their order.
LEMMA OnKeeps ==
    ASSUME NEW S \in SUBSET Nat, NEW ids \in Seq(S), NEW set
    PROVE  /\ On(ids, set) \in Seq(S)
           /\ Range(On(ids, set)) = Range(ids) \cap set
           /\ Rising(ids) => Rising(On(ids, set))
<1> DEFINE L == Len(ids)
           k == CHOOSE f : Keeps(f, ids, set)
           Seen(n) == {ids[i] : i \in 1..n}
           G == {n \in Nat : n <= L =>
                    /\ k[n] \in Seq(S)
                    /\ Range(k[n]) = Seen(n) \cap set
                    /\ Rising(ids) => Rising(k[n])}
<1>1. Keeps(k, ids, set)
  BY KeepsExists
<1>2. On(ids, set) = k[L]
  BY DEF On, Keeps
<1> HIDE DEF k
<1>3. L \in Nat /\ DOMAIN ids = 1..L /\ \A i \in 1..L : ids[i] \in S
  OBVIOUS
<1>4. /\ k[0] = <<>>
      /\ \A n \in 1..L :
            k[n] = IF ids[n] \in set THEN Append(k[n - 1], ids[n]) ELSE k[n - 1]
  <2>1. 0 \in 0..L /\ \A n \in 1..L : n \in 0..L /\ n # 0
    BY <1>3
  <2> QED
    BY <1>1, <2>1 DEF Keeps
<1>5. 0 \in G
  <2>1. <<>> \in Seq(S) /\ Range(<<>>) = {} /\ Rising(<<>>)
    BY DEF Range, Rising
  <2>2. Seen(0) = {}
    OBVIOUS
  <2> QED
    BY <1>4, <2>1, <2>2
<1>6. ASSUME NEW n \in G, n < L
      PROVE  n + 1 \in G
  <2>1. /\ n \in Nat /\ n + 1 \in 1..L /\ (n + 1) - 1 = n /\ n + 1 \in Nat /\ n <= L
    BY <1>3, <1>6
  <2>2. PICK q \in Seq(S) : q = k[n]
    BY <1>6, <2>1
  <2>3. Range(q) = Seen(n) \cap set /\ (Rising(ids) => Rising(q))
    BY <1>6, <2>1, <2>2
  <2>4. PICK x \in S : x = ids[n + 1]
    BY <1>3, <2>1
  <2>5. Seen(n + 1) = Seen(n) \cup {x}
    <3>1. \A i \in 1..(n + 1) : i \in 1..n \/ i = n + 1
      BY <2>1
    <3>2. n + 1 \in 1..(n + 1) /\ \A i \in 1..n : i \in 1..(n + 1)
      BY <2>1
    <3> QED
      BY <2>4, <3>1, <3>2
  <2>6. Rising(ids) => \A y \in Seen(n) : y < x
    <3>1. \A i \in 1..n : i \in 1..L /\ i < n + 1
      BY <1>3, <2>1
    <3> QED
      BY <1>3, <2>1, <2>4, <3>1 DEF Rising
  <2> HIDE DEF Seen
  <2>7. CASE x \in set
    <3>1. k[n + 1] = Append(q, x)
      BY <1>4, <2>1, <2>2, <2>4, <2>7
    <3>2. Append(q, x) \in Seq(S)
      OBVIOUS
    <3>3. Range(Append(q, x)) = Range(q) \cup {x}
      BY RangeOfAppend
    <3>4. Rising(ids) => Rising(Append(q, x))
      <4>1. q \in Seq(Nat)
        BY SeqWiden
      <4>2. Rising(ids) => \A y \in Range(q) : y < x
        BY <2>3, <2>6
      <4> QED
        BY <2>3, <4>1, <4>2, RisingGrows
    <3>5. (Range(q) \cup {x}) = Seen(n + 1) \cap set
      BY <2>3, <2>5, <2>7
    <3> QED
      BY <2>1, <3>1, <3>2, <3>3, <3>4, <3>5
  <2>8. CASE x \notin set
    <3>1. k[n + 1] = q
      BY <1>4, <2>1, <2>2, <2>4, <2>8
    <3>2. Range(q) = Seen(n + 1) \cap set
      BY <2>3, <2>5, <2>8
    <3> QED
      BY <2>1, <2>3, <3>1, <3>2
  <2> QED
    BY <2>7, <2>8
<1>7. L \in G
  <2>1. G \in SUBSET Nat
    OBVIOUS
  <2> HIDE DEF G
  <2>2. 0..L \subseteq G
    BY <1>3, <1>5, <1>6, <2>1, Induction
  <2>3. L \in 0..L
    BY <1>3
  <2> QED
    BY <2>2, <2>3
<1>8. Seen(L) = Range(ids)
  BY <1>3 DEF Range
<1> QED
  BY <1>2, <1>3, <1>7, <1>8

\* `retain` keeps the others.
LEMMA OffKeeps ==
    ASSUME NEW S \in SUBSET Nat, NEW ids \in Seq(S), NEW set
    PROVE  /\ Off(ids, set) \in Seq(S)
           /\ Range(Off(ids, set)) = Range(ids) \ set
           /\ Rising(ids) => Rising(Off(ids, set))
<1>1. Range(ids) \cap (Range(ids) \ set) = Range(ids) \ set
  OBVIOUS
<1> QED
  BY <1>1, OnKeeps DEF Off

-----------------------------------------------------------------------------
(* restore_from.                                                           *)

\* What an event takes off the path when it is replayed.
Takes(e) == IF e.kind = Rollback THEN e.rejected ELSE {}

\* The stores that name events of P only.
BranchesOf(P) == [parent : P \cup {None}, ids : Seq(P)]
Stores(P) == [path : Seq(P), branches : Seq(BranchesOf(P)), nodes : SUBSET P]

\* Every tombstone names a parent that was published.
CutsPublished(events) ==
    \A id \in DOMAIN events : events[id].cut \in DOMAIN events \cup {None}

\* The branch that a tombstone makes of what it finds on the path.
BranchOf(st, e) == [parent |-> e.cut, ids |-> On(st.path, Takes(e))]

\* What the loop makes of the store `st` when it comes to the stored event `e`.
Replays(P, st, e, item, next) ==
    /\ next \in Stores(P)
    /\ next.nodes = st.nodes \cup {item}
    /\ Range(next.path) = (Range(st.path) \ Takes(e)) \cup {item}
    /\ Rising(st.path) /\ (\A y \in Range(st.path) : y < item) => Rising(next.path)
    /\ Takes(e) = {} => next.branches = st.branches
    /\ Takes(e) # {} => next.branches = Append(st.branches, BranchOf(st, e))
    /\ BranchOf(st, e) \in BranchesOf(P)
    /\ Range(BranchOf(st, e).ids) = Range(st.path) \cap Takes(e)
    /\ Rising(st.path) => Rising(BranchOf(st, e).ids)

\* The body of the loop of restore_from, for an event that was stored: what it
\* takes goes off the path and onto a branch, and it is the new end of the path.
LEMMA StepIs ==
    ASSUME NEW P \in SUBSET Nat, NEW events, NEW st \in Stores(P), NEW item \in P,
           item # Ephemeral, events[item] \in Event, events[item].cut \in P \cup {None}
    PROVE  Replays(P, st, events[item], item, RestoreStep(events, st, item))
<1> DEFINE next == RestoreStep(events, st, item)
<1>1. PICK e \in Event : e = events[item]
  OBVIOUS
<1>2. /\ st.path \in Seq(P) /\ st.branches \in Seq(BranchesOf(P)) /\ st.nodes \in SUBSET P
      /\ st = [path |-> st.path, branches |-> st.branches, nodes |-> st.nodes]
  BY DEF Stores
<1>3. e.kind = Rollback => Takes(e) = e.rejected
  BY DEF Takes
<1>4. PICK b : b = BranchOf(st, e)
  OBVIOUS
<1>5. /\ b = [parent |-> e.cut, ids |-> On(st.path, Takes(e))]
      /\ b.parent = e.cut /\ b.ids = On(st.path, Takes(e))
  BY <1>4 DEF BranchOf
<1>6. /\ b.ids \in Seq(P) /\ Range(b.ids) = Range(st.path) \cap Takes(e)
      /\ Rising(st.path) => Rising(b.ids)
  BY <1>2, <1>5, OnKeeps
<1>7. b \in BranchesOf(P)
  BY <1>1, <1>5, <1>6 DEF BranchesOf
<1>8. PICK path \in Seq(P) : path = IF Takes(e) = {} THEN st.path ELSE Off(st.path, Takes(e))
  BY <1>2, OffKeeps
<1>9. Range(path) = Range(st.path) \ Takes(e) /\ (Rising(st.path) => Rising(path))
  BY <1>2, <1>8, OffKeeps
<1>10. PICK branches \in Seq(BranchesOf(P)) :
          branches = IF Takes(e) = {} THEN st.branches ELSE Append(st.branches, b)
  <2>1. Append(st.branches, b) \in Seq(BranchesOf(P))
    <3>1. PICK B : B = BranchesOf(P)
      OBVIOUS
    <3>2. PICK bs \in Seq(B) : bs = st.branches
      BY <1>2, <3>1
    <3>3. Append(bs, b) \in Seq(B)
      BY <1>7, <3>1
    <3> QED
      BY <3>1, <3>2, <3>3
  <2> QED
    BY <1>2, <2>1
<1>11. Unroll(st, e) = [path |-> path, branches |-> branches, nodes |-> st.nodes]
  <2>1. CASE Takes(e) = {}
    <3>1. ~ (e.kind = Rollback /\ e.rejected # {})
      BY <2>1, <1>3
    <3> QED
      BY <1>2, <1>8, <1>10, <2>1, <3>1 DEF Unroll
  <2>2. CASE Takes(e) # {}
    <3>1. e.kind = Rollback /\ e.rejected # {} /\ e.rejected = Takes(e)
      BY <2>2 DEF Takes
    <3>2. Unroll(st, e) = [st EXCEPT !.path = Off(@, e.rejected),
                                     !.branches = Append(@, b)]
      BY <1>5, <3>1 DEF Unroll
    <3>3. Unroll(st, e) = [path |-> Off(st.path, Takes(e)),
                           branches |-> Append(st.branches, b), nodes |-> st.nodes]
      BY <1>2, <3>1, <3>2
    <3> QED
      BY <1>8, <1>10, <2>2, <3>3
  <2> QED
    BY <2>1, <2>2
<1>12. next = [path |-> Append(path, item), branches |-> branches,
               nodes |-> st.nodes \cup {item}]
  <2>1. next = Settle(Unroll(st, e), item)
    BY <1>1 DEF RestoreStep
  <2>2. PICK u : u = Unroll(st, e)
    OBVIOUS
  <2>3. /\ u = [path |-> path, branches |-> branches, nodes |-> st.nodes]
        /\ next = [u EXCEPT !.path = Append(@, item), !.nodes = @ \cup {item}]
    BY <1>11, <2>1, <2>2 DEF Settle
  <2> HIDE DEF next
  <2> QED
    BY <2>3
<1>13. Append(path, item) \in Seq(P) /\ Range(Append(path, item)) = Range(path) \cup {item}
  BY RangeOfAppend
<1>14. /\ next.path = Append(path, item) /\ next.branches = branches
       /\ next.nodes = st.nodes \cup {item}
  BY <1>12
<1>15. next \in Stores(P)
  BY <1>2, <1>12, <1>13 DEF Stores
<1>16. Rising(st.path) /\ (\A y \in Range(st.path) : y < item) => Rising(next.path)
  <2>1. path \in Seq(Nat) /\ item \in Nat
    BY SeqWiden
  <2> QED
    BY <1>9, <1>14, <2>1, RisingGrows
<1> HIDE DEF next
<1>17. Range(next.path) = (Range(st.path) \ Takes(e)) \cup {item}
  BY <1>9, <1>13, <1>14
<1>18. /\ Takes(e) = {} => next.branches = st.branches
       /\ Takes(e) # {} => next.branches = Append(st.branches, b)
  BY <1>10, <1>14
<1> QED
  BY <1>1, <1>4, <1>6, <1>7, <1>14, <1>15, <1>16, <1>17, <1>18 DEF next, Replays

\* Events that restore_from can make a store of, by their names.
Readable(P, events) ==
    /\ P \in SUBSET Nat /\ Ephemeral \notin P
    /\ \A id \in P : events[id] \in Event /\ events[id].cut \in P \cup {None}

\* The store after one round is a store.
LEMMA StepType ==
    ASSUME NEW P, NEW events, Readable(P, events), NEW st \in Stores(P),
           NEW item \in P \cup {Ephemeral}
    PROVE  RestoreStep(events, st, item) \in Stores(P)
<1>1. CASE item = Ephemeral
  BY <1>1 DEF RestoreStep
<1>2. CASE item # Ephemeral
  <2>1. /\ P \in SUBSET Nat /\ item \in P
        /\ events[item] \in Event /\ events[item].cut \in P \cup {None}
    BY <1>2 DEF Readable
  <2> QED
    BY <1>2, <2>1, StepIs DEF Replays
<1> QED
  BY <1>1, <1>2

\* What RestoreFrom computes, round by round.
Rebuilds(f, events, items) ==
    f = [n \in 0..Len(items) |->
            IF n = 0 THEN EmptyStore ELSE RestoreStep(events, f[n - 1], items[n])]

\* The loop of restore_from comes to an end.
LEMMA RebuildsExists ==
    ASSUME NEW P, NEW events, Readable(P, events), NEW items \in Seq(P \cup {Ephemeral})
    PROVE  \E f : Rebuilds(f, events, items)
<1> DEFINE L == Len(items)
           round == [x \in Stores(P) \X (1..L) |-> RestoreStep(events, x[1], items[x[2]])]
<1>1. /\ L \in Nat /\ \A n \in 1..L : items[n] \in P \cup {Ephemeral}
      /\ EmptyStore \in Stores(P)
  BY DEF EmptyStore, Stores
<1>2. round \in [Stores(P) \X (1..L) -> Stores(P)]
  <2> SUFFICES ASSUME NEW x \in Stores(P) \X (1..L)
               PROVE  RestoreStep(events, x[1], items[x[2]]) \in Stores(P)
    OBVIOUS
  <2>1. x[1] \in Stores(P) /\ items[x[2]] \in P \cup {Ephemeral}
    BY <1>1
  <2> QED
    BY <2>1, StepType
<1>3. PICK f \in [0..L -> Stores(P)] : Loops(f, L, EmptyStore, round)
  <2> HIDE DEF round, L
  <2> QED
    BY <1>1, <1>2, LoopsExist
<1>4. f[0] = EmptyStore
  BY <1>3 DEF Loops
<1>5. ASSUME NEW n \in 1..L
      PROVE  f[n] = RestoreStep(events, f[n - 1], items[n])
  <2>1. n - 1 \in 0..L
    BY <1>1
  <2>2. PICK st \in Stores(P) : st = f[n - 1]
    BY <1>3, <2>1
  <2>3. f[n] = round[<<st, n>>]
    BY <1>3, <2>2 DEF Loops
  <2>4. /\ <<st, n>> \in Stores(P) \X (1..L)
        /\ <<st, n>>[1] = st /\ <<st, n>>[2] = n
    OBVIOUS
  <2> QED
    BY <2>2, <2>3, <2>4
<1>6. \A n \in 0..L : n # 0 => n \in 1..L
  BY <1>1
<1>7. f = [n \in 0..L |-> f[n]]
  BY <1>3
<1> HIDE DEF round
<1> QED
  BY <1>4, <1>5, <1>6, <1>7 DEF Rebuilds

\* Its rounds, one by one.
LEMMA RoundsOf ==
    ASSUME NEW f, NEW events, NEW items, Len(items) \in Nat, Rebuilds(f, events, items)
    PROVE  /\ f[0] = EmptyStore
           /\ \A n \in 1..Len(items) : f[n] = RestoreStep(events, f[n - 1], items[n])
<1>1. 0 \in 0..Len(items) /\ \A n \in 1..Len(items) : n \in 0..Len(items) /\ n # 0
  OBVIOUS
<1> QED
  BY <1>1 DEF Rebuilds

\* The first items of two files name the same events.
SameItems(bound, events, items, others, more) ==
    /\ Len(items) \in Nat /\ bound <= Len(items)
    /\ Len(more) \in Nat /\ bound <= Len(more)
    /\ \A n \in 1..bound :
          /\ items[n] = more[n]
          /\ items[n] # Ephemeral => events[items[n]] = others[items[n]]

\* A store depends on the items read and the events they name, and on no other.
LEMMA SameRounds ==
    ASSUME NEW events, NEW items, NEW f, Rebuilds(f, events, items),
           NEW others, NEW more, NEW g, Rebuilds(g, others, more),
           NEW bound \in Nat, SameItems(bound, events, items, others, more)
    PROVE  f[bound] = g[bound]
<1> DEFINE G == {n \in Nat : n <= bound => f[n] = g[n]}
<1>1. Len(items) \in Nat /\ Len(more) \in Nat
  BY DEF SameItems
<1>2. 0 \in G
  BY <1>1, RoundsOf
<1>3. ASSUME NEW n \in G, n < bound
      PROVE  n + 1 \in G
  <2>1. /\ n + 1 \in 1..bound /\ n + 1 \in 1..Len(items) /\ n + 1 \in 1..Len(more)
        /\ (n + 1) - 1 = n /\ n <= bound
    BY <1>1, <1>3 DEF SameItems
  <2>2. f[n] = g[n]
    BY <1>3, <2>1
  <2>3. /\ f[n + 1] = RestoreStep(events, f[n], items[n + 1])
        /\ g[n + 1] = RestoreStep(others, g[n], more[n + 1])
    BY <1>1, <2>1, RoundsOf
  <2>4. /\ RestoreStep(events, f[n], items[n + 1]) = RestoreStep(others, f[n], items[n + 1])
        /\ items[n + 1] = more[n + 1]
    BY <2>1 DEF RestoreStep, SameItems
  <2> QED
    BY <1>3, <2>1, <2>2, <2>3, <2>4
<1>4. bound \in G
  <2>1. G \in SUBSET Nat
    OBVIOUS
  <2> HIDE DEF G
  <2>2. 0..bound \subseteq G
    BY <1>2, <1>3, <2>1, Induction
  <2> QED
    BY <2>2
<1> QED
  BY <1>4

\* The last round of the loop is what restore_from makes.
LEMMA RestoreIs ==
    ASSUME NEW P, NEW events, Readable(P, events), NEW items \in Seq(P \cup {Ephemeral})
    PROVE  \E f : Rebuilds(f, events, items) /\ RestoreFrom(events, items) = f[Len(items)]
<1> DEFINE k == CHOOSE f : Rebuilds(f, events, items)
<1>1. Rebuilds(k, events, items)
  BY RebuildsExists
<1>2. RestoreFrom(events, items) = k[Len(items)]
  BY DEF RestoreFrom, Rebuilds
<1> QED
  BY <1>1, <1>2

\* An empty file makes an empty store.
LEMMA RestoreNothing ==
    ASSUME NEW P, NEW events, Readable(P, events)
    PROVE  RestoreFrom(events, <<>>) = EmptyStore
<1>1. <<>> \in Seq(P \cup {Ephemeral}) /\ Len(<<>>) = 0
  OBVIOUS
<1>2. PICK f : Rebuilds(f, events, <<>>) /\ RestoreFrom(events, <<>>) = f[0]
  BY <1>1, RestoreIs, ZenonT(30)
<1> QED
  BY <1>1, <1>2, RoundsOf

\* One item more is one round more.
LEMMA RestoreMore ==
    ASSUME NEW P, NEW events, Readable(P, events), NEW items \in Seq(P \cup {Ephemeral}),
           NEW item \in P \cup {Ephemeral}
    PROVE  RestoreFrom(events, Append(items, item))
             = RestoreStep(events, RestoreFrom(events, items), item)
<1>1. PICK n \in Nat : n = Len(items)
  OBVIOUS
<1> DEFINE S == P \cup {Ephemeral}
<1>0. items \in Seq(S) /\ item \in S
  OBVIOUS
<1> HIDE DEF S
<1>2. PICK longer \in Seq(S) : longer = Append(items, item)
  <2>1. Append(items, item) \in Seq(S)
    BY <1>0
  <2> QED
    BY <2>1
<1>3. /\ Len(longer) = n + 1 /\ longer[n + 1] = item
      /\ \A i \in 1..n : longer[i] = items[i]
  BY <1>0, <1>1, <1>2
<1>4. PICK f : Rebuilds(f, events, items) /\ RestoreFrom(events, items) = f[n]
  BY <1>1, RestoreIs
<1>5. PICK g : Rebuilds(g, events, longer) /\ RestoreFrom(events, longer) = g[n + 1]
  BY <1>3, RestoreIs DEF S
<1>6. f[n] = g[n]
  <2>1. SameItems(n, events, items, events, longer)
    BY <1>1, <1>3 DEF SameItems
  <2> QED
    BY <1>4, <1>5, <2>1, SameRounds
<1>7. g[n + 1] = RestoreStep(events, g[n], item)
  <2>1. n + 1 \in 1..Len(longer) /\ (n + 1) - 1 = n
    BY <1>3
  <2> QED
    BY <1>3, <1>5, <2>1, RoundsOf
<1> QED
  BY <1>2, <1>4, <1>5, <1>6, <1>7

\* Events published later make no difference.
LEMMA RestoreAgain ==
    ASSUME NEW P, NEW events, Readable(P, events),
           NEW Q, NEW others, Readable(Q, others), P \subseteq Q,
           \A id \in P : events[id] = others[id],
           NEW items \in Seq(P \cup {Ephemeral})
    PROVE  RestoreFrom(events, items) = RestoreFrom(others, items)
<1>1. items \in Seq(Q \cup {Ephemeral})
  <2>1. (P \cup {Ephemeral}) \subseteq (Q \cup {Ephemeral})
    OBVIOUS
  <2> QED
    BY <2>1, SeqWiden
<1>2. PICK n \in Nat : n = Len(items)
  OBVIOUS
<1>3. PICK f : Rebuilds(f, events, items) /\ RestoreFrom(events, items) = f[n]
  BY <1>2, RestoreIs
<1>4. PICK g : Rebuilds(g, others, items) /\ RestoreFrom(others, items) = g[n]
  BY <1>1, <1>2, RestoreIs
<1>5. SameItems(n, events, items, others, items)
  BY <1>2 DEF SameItems
<1>6. f[n] = g[n]
  BY <1>3, <1>4, <1>5, SameRounds
<1> QED
  BY <1>3, <1>4, <1>6

\* A store made of the events `seen`: each has one place, the path grows, and
\* all of them are in the registry.
Sound(P, st, seen) ==
    /\ st \in Stores(P)
    /\ Rising(st.path)
    /\ Range(st.path) \cap IdsOf(st.branches) = {}
    /\ Reachable(st.path, st.branches) = seen
    /\ st.nodes = seen

\* A later event is added to a store, whatever it takes off the path.
LEMMA SoundStep ==
    ASSUME NEW P, NEW events, Readable(P, events), NEW st, NEW seen, Sound(P, st, seen),
           NEW item \in P, \A y \in seen : y < item
    PROVE  Sound(P, RestoreStep(events, st, item), seen \cup {item})
<1>1. PICK next : next = RestoreStep(events, st, item)
  OBVIOUS
<1>2. PICK e : e = events[item]
  OBVIOUS
<1>3. PICK b : b = BranchOf(st, e)
  OBVIOUS
<1>4. /\ P \in SUBSET Nat /\ item # Ephemeral /\ st \in Stores(P)
      /\ events[item] \in Event /\ events[item].cut \in P \cup {None}
  BY DEF Readable, Sound
<1>5. /\ next \in Stores(P) /\ next.nodes = st.nodes \cup {item}
      /\ Range(next.path) = (Range(st.path) \ Takes(e)) \cup {item}
      /\ Rising(st.path) /\ (\A y \in Range(st.path) : y < item) => Rising(next.path)
      /\ Takes(e) = {} => next.branches = st.branches
      /\ Takes(e) # {} => next.branches = Append(st.branches, b)
      /\ Range(b.ids) = Range(st.path) \cap Takes(e)
  <2>1. Replays(P, st, e, item, next)
    BY <1>1, <1>2, <1>4, StepIs
  <2> QED
    BY <1>3, <2>1 DEF Replays
<1>6. /\ Rising(st.path) /\ st.nodes = seen
      /\ Range(st.path) \cap IdsOf(st.branches) = {}
      /\ Range(st.path) \cup IdsOf(st.branches) = seen
  BY DEF Sound, Reachable
<1>7. item \notin seen
  BY <1>4
<1>8. Rising(next.path)
  BY <1>5, <1>6
<1>9. IdsOf(next.branches) = IdsOf(st.branches) \cup (Range(st.path) \cap Takes(e))
  <2>1. PICK B : st.branches \in Seq(B)
    BY <1>4 DEF Stores
  <2>2. IdsOf(Append(st.branches, b)) = IdsOf(st.branches) \cup Range(b.ids)
    BY <2>1, IdsOfAppend
  <2>3. CASE Takes(e) = {}
    BY <1>5, <2>3
  <2>4. CASE Takes(e) # {}
    BY <1>5, <2>2, <2>4
  <2> QED
    BY <2>3, <2>4
<1>10. /\ Range(next.path) \cap IdsOf(next.branches) = {}
       /\ Range(next.path) \cup IdsOf(next.branches) = seen \cup {item}
  BY <1>5, <1>6, <1>7, <1>9
<1> QED
  BY <1>1, <1>5, <1>6, <1>8, <1>10 DEF Sound, Reachable

\* What restore_from makes of items in order holds each event they name once.
LEMMA RestoreSound ==
    ASSUME NEW P, NEW events, Readable(P, events), NEW items \in Seq(P \cup {Ephemeral}),
           InOrder(items)
    PROVE  Sound(P, RestoreFrom(events, items), Range(items) \ {Ephemeral})
<1> DEFINE L == Len(items)
           Seen(n) == {items[i] : i \in 1..n} \ {Ephemeral}
<1>1. /\ L \in Nat /\ DOMAIN items = 1..L
      /\ \A i \in 1..L : items[i] \in P \cup {Ephemeral}
  OBVIOUS
<1>2. PICK f : Rebuilds(f, events, items) /\ RestoreFrom(events, items) = f[L]
  BY RestoreIs
<1>3. /\ f[0] = EmptyStore
      /\ \A n \in 1..L : f[n] = RestoreStep(events, f[n - 1], items[n])
  BY <1>1, <1>2, RoundsOf
<1> DEFINE G == {n \in Nat : n <= L => Sound(P, f[n], Seen(n))}
<1>4. 0 \in G
  <2>1. Seen(0) = {}
    OBVIOUS
  <2>2. EmptyStore \in Stores(P) /\ EmptyStore.path = <<>> /\ EmptyStore.branches = <<>>
        /\ EmptyStore.nodes = {}
    BY DEF EmptyStore, Stores
  <2>3. Range(<<>>) = {} /\ IdsOf(<<>>) = {} /\ Rising(<<>>)
    BY DEF Range, IdsOf, Rising
  <2>4. Sound(P, EmptyStore, {})
    BY <2>2, <2>3 DEF Sound, Reachable
  <2> QED
    BY <1>3, <2>1, <2>4
<1>5. ASSUME NEW n \in G, n < L
      PROVE  n + 1 \in G
  <2>1. /\ n \in Nat /\ n + 1 \in 1..L /\ n + 1 \in Nat /\ (n + 1) - 1 = n /\ n <= L
    BY <1>1, <1>5
  <2>2. PICK st : st = f[n]
    OBVIOUS
  <2>3. PICK item \in P \cup {Ephemeral} : item = items[n + 1]
    BY <1>1, <2>1
  <2>4. Sound(P, st, Seen(n)) /\ f[n + 1] = RestoreStep(events, st, item)
    BY <1>3, <1>5, <2>1, <2>2, <2>3
  <2>5. Seen(n + 1) = Seen(n) \cup ({item} \ {Ephemeral})
    <3>1. \A i \in 1..(n + 1) : i \in 1..n \/ i = n + 1
      BY <2>1
    <3>2. n + 1 \in 1..(n + 1) /\ \A i \in 1..n : i \in 1..(n + 1)
      BY <2>1
    <3> QED
      BY <2>3, <3>1, <3>2
  <2>6. CASE item = Ephemeral
    <3>1. f[n + 1] = st /\ Seen(n + 1) = Seen(n)
      BY <2>4, <2>5, <2>6 DEF RestoreStep
    <3> HIDE DEF Seen
    <3> QED
      BY <2>1, <2>4, <3>1
  <2>7. CASE item # Ephemeral
    <3>1. \A y \in Seen(n) : y < item
      <4>1. \A i \in 1..n : i \in 1..L /\ i < n + 1
        BY <1>1, <2>1
      <4> QED
        BY <1>1, <2>1, <2>3, <2>7, <4>1 DEF InOrder
    <3> HIDE DEF Seen
    <3>2. Sound(P, RestoreStep(events, st, item), Seen(n) \cup {item})
      BY <2>4, <2>7, <3>1, SoundStep
    <3>3. Seen(n + 1) = Seen(n) \cup {item}
      BY <2>5, <2>7
    <3> QED
      BY <2>1, <2>4, <3>2, <3>3
  <2> QED
    BY <2>6, <2>7
<1>6. L \in G
  <2>1. G \in SUBSET Nat
    OBVIOUS
  <2> HIDE DEF G
  <2>2. 0..L \subseteq G
    BY <1>1, <1>4, <1>5, <2>1, Induction
  <2>3. L \in 0..L
    BY <1>1
  <2> QED
    BY <2>2, <2>3
<1>7. Seen(L) = Range(items) \ {Ephemeral}
  BY <1>1 DEF Range
<1>8. Sound(P, f[L], Seen(L))
  <2> HIDE DEF Seen
  <2> QED
    BY <1>1, <1>6
<1> HIDE DEF Seen, L
<1> QED
  BY <1>2, <1>7, <1>8

-----------------------------------------------------------------------------
(* The stream: what is on file and what still waits for the exporter.      *)

\* What comes next is later than all before it, or was only fanned out.
LEMMA InOrderMore ==
    ASSUME NEW s \in Seq(Nat), InOrder(s), NEW x \in Nat,
           x = Ephemeral \/ \A y \in Range(s) : y < x
    PROVE  Append(s, x) \in Seq(Nat) /\ InOrder(Append(s, x))
<1>1. /\ DOMAIN Append(s, x) = 1..(Len(s) + 1) /\ DOMAIN s = 1..Len(s) /\ Len(s) \in Nat
      /\ \A i \in 1..Len(s) : Append(s, x)[i] = s[i]
      /\ Append(s, x)[Len(s) + 1] = x
  OBVIOUS
<1>2. x # Ephemeral => \A i \in 1..Len(s) : s[i] < x
  BY <1>1 DEF Range
<1> QED
  BY <1>1, <1>2 DEF InOrder

\* Places in a file and a queue, put one after the other.
LEMMA JoinIs ==
    ASSUME NEW S, NEW f \in Seq(S), NEW q \in Seq(S)
    PROVE  /\ f \o q \in Seq(S) /\ Len(f \o q) = Len(f) + Len(q)
           /\ DOMAIN (f \o q) = 1..(Len(f) + Len(q))
           /\ \A i \in 1..Len(f) : (f \o q)[i] = f[i]
           /\ \A i \in 1..Len(q) : (f \o q)[Len(f) + i] = q[i]
<1>1. Len(f) \in Nat /\ Len(q) \in Nat /\ f \o q \in Seq(S) /\ Len(f \o q) = Len(f) + Len(q)
  OBVIOUS
<1>2. DOMAIN (f \o q) = 1..(Len(f) + Len(q))
  BY <1>1
<1>3. \A i \in 1..Len(f) : (f \o q)[i] = f[i]
  BY <1>1
<1>4. \A i \in 1..Len(q) : (f \o q)[Len(f) + i] = q[i]
  <2> SUFFICES ASSUME NEW i \in 1..Len(q)
               PROVE  (f \o q)[Len(f) + i] = q[i]
    OBVIOUS
  <2>1. Len(f) + i \in 1..(Len(f) + Len(q)) /\ ~ (Len(f) + i <= Len(f))
        /\ (Len(f) + i) - Len(f) = i
    BY <1>1
  <2> QED
    BY <1>1, <2>1
<1> QED
  BY <1>1, <1>2, <1>3, <1>4

\* What is put in the queue comes at the end of the stream.
LEMMA JoinMore ==
    ASSUME NEW S, NEW f \in Seq(S), NEW q \in Seq(S), NEW x \in S
    PROVE  f \o Append(q, x) = Append(f \o q, x)
<1>1. /\ Append(q, x) \in Seq(S) /\ Len(Append(q, x)) = Len(q) + 1
      /\ Len(q) \in Nat /\ Len(f) \in Nat
      /\ \A i \in 1..Len(q) : Append(q, x)[i] = q[i]
      /\ Append(q, x)[Len(q) + 1] = x
  OBVIOUS
<1>2. PICK s \in Seq(S) : s = f \o q
  BY JoinIs
<1>3. PICK t \in Seq(S) : t = f \o Append(q, x)
  BY <1>1, JoinIs
<1>4. /\ Len(s) = Len(f) + Len(q)
      /\ \A i \in 1..Len(f) : s[i] = f[i]
      /\ \A i \in 1..Len(q) : s[Len(f) + i] = q[i]
  BY <1>2, JoinIs
<1>5. /\ Len(t) = Len(f) + (Len(q) + 1)
      /\ \A i \in 1..Len(f) : t[i] = f[i]
      /\ \A i \in 1..(Len(q) + 1) : t[Len(f) + i] = Append(q, x)[i]
  BY <1>1, <1>3, JoinIs
<1>6. /\ Append(s, x) \in Seq(S) /\ Len(Append(s, x)) = Len(s) + 1
      /\ \A i \in 1..Len(s) : Append(s, x)[i] = s[i]
      /\ Append(s, x)[Len(s) + 1] = x
  OBVIOUS
<1>7. Len(t) = Len(Append(s, x))
  BY <1>1, <1>4, <1>5, <1>6
<1>8. ASSUME NEW i \in 1..Len(t)
      PROVE  t[i] = Append(s, x)[i]
  <2>1. CASE i <= Len(f)
    <3>1. i \in 1..Len(f) /\ i \in 1..Len(s)
      BY <1>1, <1>4, <1>5, <2>1
    <3> QED
      BY <1>4, <1>5, <1>6, <3>1
  <2>2. CASE i > Len(f) /\ i <= Len(s)
    <3>1. PICK j \in 1..Len(q) : i = Len(f) + j
      <4>1. i - Len(f) \in 1..Len(q) /\ i = Len(f) + (i - Len(f))
        BY <1>1, <1>4, <1>5, <2>2
      <4> QED
        BY <4>1
    <3>2. j \in 1..(Len(q) + 1) /\ i \in 1..Len(s)
      BY <1>1, <1>4, <1>5, <2>2, <3>1
    <3> QED
      BY <1>1, <1>4, <1>5, <1>6, <3>1, <3>2
  <2>3. CASE i = Len(s) + 1
    <3>1. Len(q) + 1 \in 1..(Len(q) + 1) /\ i = Len(f) + (Len(q) + 1)
      BY <1>1, <1>4, <2>3
    <3> QED
      BY <1>1, <1>5, <1>6, <2>3, <3>1
  <2> QED
    BY <1>1, <1>4, <1>5, <2>1, <2>2, <2>3
<1>9. t = Append(s, x)
  BY <1>6, <1>7, <1>8, SeqEqual
<1> QED
  BY <1>2, <1>3, <1>9

\* What moves from the queue to the file stays where it was in the stream.
LEMMA JoinMoved ==
    ASSUME NEW S, NEW f \in Seq(S), NEW q \in Seq(S), q # <<>>
    PROVE  Append(f, Head(q)) \o Tail(q) = f \o q
<1>1. /\ Head(q) \in S /\ Tail(q) \in Seq(S) /\ Len(q) \in Nat /\ Len(f) \in Nat
      /\ Len(q) >= 1 /\ Len(Tail(q)) = Len(q) - 1
      /\ \A i \in 1..(Len(q) - 1) : Tail(q)[i] = q[i + 1]
      /\ Head(q) = q[1]
  OBVIOUS
<1>2. PICK x \in S : x = Head(q)
  BY <1>1
<1>3. PICK r \in Seq(S) : r = Tail(q)
  BY <1>1
<1>4. PICK g \in Seq(S) : g = Append(f, x)
  <2>1. Append(f, x) \in Seq(S)
    OBVIOUS
  <2> QED
    BY <2>1
<1>5. /\ Len(g) = Len(f) + 1 /\ g[Len(f) + 1] = x
      /\ \A i \in 1..Len(f) : g[i] = f[i]
  BY <1>4
<1>6. /\ f \o q \in Seq(S) /\ Len(f \o q) = Len(f) + Len(q)
      /\ \A i \in 1..Len(f) : (f \o q)[i] = f[i]
      /\ \A i \in 1..Len(q) : (f \o q)[Len(f) + i] = q[i]
  BY JoinIs
<1>7. /\ g \o r \in Seq(S) /\ Len(g \o r) = Len(g) + Len(r)
      /\ \A i \in 1..Len(g) : (g \o r)[i] = g[i]
      /\ \A i \in 1..Len(r) : (g \o r)[Len(g) + i] = r[i]
  BY JoinIs
<1>8. Len(g \o r) = Len(f \o q)
  BY <1>1, <1>3, <1>5, <1>6, <1>7
<1>9. ASSUME NEW i \in 1..Len(f \o q)
      PROVE  (g \o r)[i] = (f \o q)[i]
  <2>1. CASE i <= Len(f)
    <3>1. i \in 1..Len(f) /\ i \in 1..Len(g)
      BY <1>1, <1>5, <2>1
    <3> QED
      BY <1>5, <1>6, <1>7, <3>1
  <2>2. CASE i = Len(f) + 1
    <3>1. i \in 1..Len(g) /\ 1 \in 1..Len(q)
      BY <1>1, <1>5, <2>2
    <3> QED
      BY <1>1, <1>2, <1>5, <1>6, <1>7, <2>2, <3>1
  <2>3. CASE i > Len(f) + 1
    <3>1. PICK j \in 1..Len(r) : i = Len(g) + j
      <4>1. i - Len(g) \in 1..Len(r) /\ i = Len(g) + (i - Len(g))
        BY <1>1, <1>3, <1>5, <1>6, <2>3
      <4> QED
        BY <4>1
    <3>2. j \in 1..(Len(q) - 1) /\ j + 1 \in 1..Len(q) /\ i = Len(f) + (j + 1)
      BY <1>1, <1>3, <1>5, <3>1
    <3> QED
      BY <1>1, <1>3, <1>6, <1>7, <3>1, <3>2
  <2>4. i \in 1..(Len(f) + Len(q))
    BY <1>6
  <2>5. i <= Len(f) \/ i = Len(f) + 1 \/ i > Len(f) + 1
    BY <1>1, <2>4
  <2> QED
    BY <2>1, <2>2, <2>3, <2>5
<1>10. g \o r = f \o q
  BY <1>6, <1>7, <1>8, <1>9, SeqEqual
<1> QED
  BY <1>2, <1>3, <1>4, <1>10

\* A stream in order stays so when an item of it is lost.
LEMMA JoinLost ==
    ASSUME NEW f \in Seq(Nat), NEW q \in Seq(Nat), q # <<>>, InOrder(f \o q)
    PROVE  InOrder(f \o Tail(q))
<1>1. /\ Tail(q) \in Seq(Nat) /\ Len(q) \in Nat /\ Len(f) \in Nat
      /\ Len(q) >= 1 /\ Len(Tail(q)) = Len(q) - 1
      /\ \A i \in 1..(Len(q) - 1) : Tail(q)[i] = q[i + 1]
  OBVIOUS
<1>2. PICK r \in Seq(Nat) : r = Tail(q)
  BY <1>1
<1>3. PICK s : s = f \o q
  OBVIOUS
<1>4. PICK t : t = f \o r
  OBVIOUS
<1>5. /\ DOMAIN s = 1..(Len(f) + Len(q))
      /\ \A i \in 1..Len(f) : s[i] = f[i]
      /\ \A i \in 1..Len(q) : s[Len(f) + i] = q[i]
  BY <1>3, JoinIs
<1>6. /\ DOMAIN t = 1..(Len(f) + Len(r))
      /\ \A i \in 1..Len(f) : t[i] = f[i]
      /\ \A i \in 1..Len(r) : t[Len(f) + i] = r[i]
  BY <1>4, JoinIs
<1> DEFINE Was(i) == IF i <= Len(f) THEN i ELSE i + 1
<1>7. \A i \in DOMAIN t : Was(i) \in DOMAIN s
  BY <1>1, <1>2, <1>5, <1>6
<1>8. ASSUME NEW i \in DOMAIN t
      PROVE  t[i] = s[Was(i)]
  <2>1. CASE i <= Len(f)
    <3>1. i \in 1..Len(f)
      BY <1>6, <2>1
    <3> QED
      BY <1>5, <1>6, <2>1, <3>1
  <2>2. CASE ~ (i <= Len(f))
    <3>1. PICK j \in 1..Len(r) : i = Len(f) + j
      <4>1. i - Len(f) \in 1..Len(r) /\ i = Len(f) + (i - Len(f))
        BY <1>1, <1>2, <1>6, <2>2
      <4> QED
        BY <4>1
    <3>2. j \in 1..(Len(q) - 1) /\ j + 1 \in 1..Len(q) /\ i + 1 = Len(f) + (j + 1)
      BY <1>1, <1>2, <3>1
    <3> QED
      BY <1>1, <1>2, <1>5, <1>6, <2>2, <3>1, <3>2
  <2> QED
    BY <2>1, <2>2
<1>9. \A i, j \in DOMAIN t : i < j => Was(i) < Was(j)
  BY <1>1, <1>6
<1> HIDE DEF Was
<1>10. InOrder(t)
  BY <1>3, <1>7, <1>8, <1>9 DEF InOrder
<1> QED
  BY <1>2, <1>4, <1>10

\* A stream in order begins with a file in order.
LEMMA JoinBegins ==
    ASSUME NEW f \in Seq(Nat), NEW q \in Seq(Nat), InOrder(f \o q)
    PROVE  InOrder(f)
<1>1. /\ DOMAIN (f \o q) = 1..(Len(f) + Len(q)) /\ DOMAIN f = 1..Len(f)
      /\ Len(f) \in Nat /\ Len(q) \in Nat
      /\ \A i \in 1..Len(f) : (f \o q)[i] = f[i]
  BY JoinIs
<1>2. \A i \in 1..Len(f) : i \in DOMAIN (f \o q)
  BY <1>1
<1> QED
  BY <1>1, <1>2 DEF InOrder

-----------------------------------------------------------------------------
(* The invariant.                                                          *)

\* Tombstones name parents that were published.
CutsKnown == CutsPublished(history)

\* What rollbacks under way or dropped have rejected is off the path, and is
\* theirs alone.
Apart ==
    /\ \A c \in Callers : call[c].rejected \cap Range(active_path) = {}
    /\ \A c, d \in Callers : c # d => call[c].rejected \cap call[d].rejected = {}
    /\ \A c \in Callers : call[c].phase # "idle" => call[c].rejected # {}

\* A branch that a rollback has sealed and no tombstone records.
SealedBy(c, b) ==
    /\ call[c].rejected # {}
    /\ b.parent = call[c].cut
    /\ Range(b.ids) = call[c].rejected
    /\ Rising(b.ids)

\* A store that knows the path, what is unsettled undone, and the branches.
Recorded(st) ==
    /\ Range(st.path) = Range(active_path) \cup Unsettled
    /\ \A i \in DOMAIN rejected_branches :
         \/ rejected_branches[i] \in Range(st.branches)
         \/ \E c \in Callers : SealedBy(c, rejected_branches[i])

Session ==
    /\ TypeOK
    /\ CutsKnown
    /\ failures \in Nat
    /\ file \in Seq(Published \cup {Ephemeral})
    /\ InOrder(Stream)
    /\ Rising(active_path)
    /\ Apart
    /\ Whole => Recorded(RestoreFrom(history, Stream))

\* What follows at once of the stream and the store made of it.
LEMMA SessionShape ==
    ASSUME TypeOK, CutsKnown, file \in Seq(Published \cup {Ephemeral}), InOrder(Stream)
    PROVE  /\ Published = 1..Len(history) /\ Len(history) \in Nat
           /\ Readable(Published, history)
           /\ chan[Exporter].q \in Seq(Published \cup {Ephemeral})
           /\ Stream \in Seq(Published \cup {Ephemeral})
           /\ InOrder(file)
           /\ Sound(Published, RestoreFrom(history, Stream), Range(Stream) \ {Ephemeral})
           /\ Sound(Published, RestoreFrom(history, file), Range(file) \ {Ephemeral})
<1>1. Published = 1..Len(history) /\ Len(history) \in Nat /\ history \in Seq(Event)
  BY DEF TypeOK, Published
<1>2. \A id \in Published : history[id] \in Event
  BY <1>1
<1>3. Readable(Published, history)
  BY <1>1, <1>2 DEF Readable, CutsKnown, CutsPublished, Published, Ephemeral
<1>4. chan[Exporter].q \in Seq(Published \cup {Ephemeral})
  BY ExporterAssumption DEF TypeOK
<1> DEFINE S == Published \cup {Ephemeral}
<1>5. S \subseteq Nat
  BY <1>1 DEF Ephemeral
<1> HIDE DEF S
<1>6. file \in Seq(S) /\ chan[Exporter].q \in Seq(S)
  BY <1>4 DEF S
<1>7. Stream \in Seq(S)
  BY <1>6, JoinIs DEF Stream
<1>8. InOrder(file)
  <2>1. file \in Seq(Nat) /\ chan[Exporter].q \in Seq(Nat)
    BY <1>5, <1>6, SeqWiden
  <2> QED
    BY <2>1, JoinBegins DEF Stream
<1>9. /\ Sound(Published, RestoreFrom(history, Stream), Range(Stream) \ {Ephemeral})
      /\ Sound(Published, RestoreFrom(history, file), Range(file) \ {Ephemeral})
  BY <1>3, <1>6, <1>7, <1>8, RestoreSound DEF S
<1> QED
  BY <1>1, <1>3, <1>4, <1>7, <1>8, <1>9 DEF S

\* What becomes of a channel, and of the stream through it, that is offered an item.
OfferedTo(S, f, ch, after, item) ==
    /\ after \in [state : {"off", "open", "gone"}, q : Seq(S)]
    /\ f \o after.q \in {f \o ch.q, Append(f \o ch.q, item)}
    /\ after.state = "open" => ch.state = "open"
    /\ after.state = "open" /\ Capacity = UsizeMax
         => f \o after.q = Append(f \o ch.q, item)

\* The exporter is offered an item: it comes at the end of the stream, or the
\* stream is not whole any more.
LEMMA Offered ==
    ASSUME NEW S, NEW ch \in [state : {"off", "open", "gone"}, q : Seq(S)],
           NEW f \in Seq(S), NEW item \in S
    PROVE  OfferedTo(S, f, ch, TryDeliver(ch, item), item)
<1> DEFINE after == TryDeliver(ch, item)
<1>1. CASE ch.state = "open" /\ ~ Full(ch)
  <2>1. after = [ch EXCEPT !.q = Append(@, item)]
    BY <1>1 DEF TryDeliver
  <2>2. after.state = ch.state /\ after.q = Append(ch.q, item)
        /\ after \in [state : {"off", "open", "gone"}, q : Seq(S)]
    <3>1. PICK q \in Seq(S) : q = ch.q
      OBVIOUS
    <3>2. Append(q, item) \in Seq(S)
      OBVIOUS
    <3>3. after = [state |-> ch.state, q |-> Append(q, item)]
      BY <2>1, <3>1
    <3> HIDE DEF after
    <3> QED
      BY <3>1, <3>2, <3>3
  <2>3. f \o Append(ch.q, item) = Append(f \o ch.q, item)
    BY JoinMore
  <2> HIDE DEF after
  <2> QED
    BY <1>1, <2>2, <2>3 DEF after, OfferedTo
<1>2. CASE ~ (ch.state = "open" /\ ~ Full(ch))
  <2>1. after.q = ch.q /\ after \in [state : {"off", "open", "gone"}, q : Seq(S)]
        /\ (after.state = "open" => ch.state = "open" /\ Full(ch))
    BY <1>2 DEF TryDeliver
  <2>2. Full(ch) => Capacity # UsizeMax
    BY DEF Full
  <2> HIDE DEF after
  <2> QED
    BY <2>1, <2>2 DEF after, OfferedTo
<1> QED
  BY <1>1, <1>2

-----------------------------------------------------------------------------
(* Steps.                                                                  *)

\* The store made of the stream, before and after it grew by the event `event`.
Follows(event, st, next) ==
    \E e : /\ Takes(e) = Takes(event)
           /\ e.cut = event.cut
           /\ Replays(Published', st, e, Len(history) + 1, next)

\* A commit of publish puts its event at the end of the path, of the stream,
\* and of what the stream rebuilds.
LEMMA CommitStreams ==
    ASSUME Session, NEW event \in Event, event.parent \in Published \cup {None},
           event.cut \in Published \cup {None}, Commit(event), UNCHANGED Persisted
    PROVE  /\ CutsKnown'
           /\ file' \in Seq(Published' \cup {Ephemeral})
           /\ InOrder(Stream)'
           /\ Rising(active_path)'
           /\ Range(active_path') = Range(active_path) \cup {Len(history) + 1}
           /\ Whole' => /\ Whole
                        /\ Follows(event, RestoreFrom(history, Stream),
                                   RestoreFrom(history, Stream)')
<1>1. PICK n \in Nat : n = Len(history)
  BY DEF Session, TypeOK
<1>2. PICK P : P = 1..n
  OBVIOUS
<1>3. /\ Published = P /\ Readable(P, history) /\ TypeOK /\ CutsKnown
      /\ file \in Seq(P \cup {Ephemeral}) /\ chan[Exporter].q \in Seq(P \cup {Ephemeral})
      /\ Stream \in Seq(P \cup {Ephemeral}) /\ InOrder(Stream)
      /\ Sound(P, RestoreFrom(history, Stream), Range(Stream) \ {Ephemeral})
  BY <1>1, <1>2, SessionShape DEF Session
<1>4. PICK Q : Q = 1..(n + 1)
  OBVIOUS
<1>5. /\ P \subseteq Q /\ n + 1 \in Q /\ n + 1 \notin P /\ n + 1 # Ephemeral
      /\ Q \subseteq P \cup {n + 1} /\ Q \subseteq Nat /\ \A y \in P : y < n + 1
  BY <1>2, <1>4 DEF Ephemeral
<1>6. PICK e : e = [event EXCEPT !.parent = IF event.parent = None
                                            THEN ActiveTip(active_path) ELSE event.parent]
  OBVIOUS
<1>7. history' = Append(history, e)
  BY <1>6 DEF Commit
<1>8. /\ history \in Seq(Event) /\ active_path \in Seq(P)
      /\ ActiveTip(active_path) \in P \cup {None}
  BY <1>3, TipType DEF TypeOK
<1>9. /\ e \in Event /\ e.kind = event.kind /\ e.rejected = event.rejected
      /\ e.cut = event.cut
  BY <1>3, <1>5, <1>6, <1>8 DEF Event, Id, None
<1>10. /\ history'[n + 1] = e
       /\ \A id \in P : history'[id] = history[id]
       /\ Published' = Q
  BY <1>1, <1>2, <1>4, <1>7, <1>8 DEF Published
<1>11. Readable(Q, history')
  <2>1. \A id \in P : history[id] \in Event /\ history[id].cut \in Q \cup {None}
    BY <1>3, <1>5 DEF Readable
  <2>2. e.cut \in Q \cup {None}
    BY <1>3, <1>5, <1>9
  <2>3. \A id \in Q : history'[id] \in Event /\ history'[id].cut \in Q \cup {None}
    BY <1>5, <1>9, <1>10, <2>1, <2>2
  <2>4. Ephemeral \notin Q
    BY <1>4 DEF Ephemeral
  <2> QED
    BY <1>5, <2>3, <2>4 DEF Readable
<1>12. CutsKnown'
  BY <1>10, <1>11 DEF CutsKnown, CutsPublished, Readable, Published, None
<1>13. PICK S : S = Q \cup {Ephemeral}
  OBVIOUS
<1>14. /\ file \in Seq(S) /\ Stream \in Seq(S) /\ n + 1 \in S /\ S \subseteq Nat
       /\ chan[Exporter].q \in Seq(S)
  <2>1. S \subseteq Nat /\ n + 1 \in S
    BY <1>5, <1>13 DEF Ephemeral
  <2>2. PICK T : T = P \cup {Ephemeral}
    OBVIOUS
  <2>3. T \subseteq S
    BY <1>5, <1>13, <2>2
  <2>4. file \in Seq(T) /\ Stream \in Seq(T) /\ chan[Exporter].q \in Seq(T)
    BY <1>3, <2>2
  <2>5. file \in Seq(S) /\ Stream \in Seq(S) /\ chan[Exporter].q \in Seq(S)
    BY <2>3, <2>4, SeqWiden
  <2> QED
    BY <2>1, <2>5
<1>15. /\ Rising(active_path') /\ Range(active_path') = Range(active_path) \cup {n + 1}
  <2>1. active_path' = Append(active_path, n + 1)
    BY <1>1 DEF Commit
  <2>2. active_path \in Seq(Nat) /\ \A y \in Range(active_path) : y < n + 1
    <3>1. P \subseteq Nat /\ \A i \in DOMAIN active_path : active_path[i] \in P
      BY <1>5, <1>8
    <3>2. active_path \in Seq(Nat)
      BY <1>8, <3>1, SeqWiden
    <3>3. Range(active_path) \subseteq P
      BY <3>1 DEF Range
    <3> QED
      BY <1>5, <3>2, <3>3
  <2> QED
    BY <1>8, <2>1, <2>2, RisingGrows, RangeOfAppend DEF Session
<1>16. OfferedTo(S, file, chan[Exporter], chan'[Exporter], n + 1)
  <2>1. chan'[Exporter] = TryDeliver(chan[Exporter], n + 1)
    BY <1>1, ExporterAssumption DEF Commit, FanOut
  <2>2. chan[Exporter] \in [state : {"off", "open", "gone"}, q : Seq(S)]
    <3>1. chan[Exporter] \in [state : {"off", "open", "gone"}, q : Seq(P \cup {Ephemeral})]
      BY <1>3, ExporterAssumption DEF TypeOK
    <3> QED
      BY <1>14, <3>1
  <2> QED
    BY <1>14, <2>1, <2>2, Offered
<1>17. /\ Stream' \in {Stream, Append(Stream, n + 1)}
       /\ Whole' => Whole /\ Stream' = Append(Stream, n + 1)
  BY <1>16 DEF OfferedTo, Stream, Whole, Persisted
<1>18. InOrder(Stream')
  <2>1. ASSUME NEW y \in Range(Stream)
        PROVE  y < n + 1
    <3>1. y \in P \cup {Ephemeral}
      BY <1>3 DEF Range
    <3> QED
      BY <1>5, <3>1 DEF Ephemeral
  <2>2. PICK s \in Seq(Nat) : s = Stream
    BY <1>14, SeqWiden
  <2>3. InOrder(Append(s, n + 1))
    BY <1>3, <1>5, <2>1, <2>2, InOrderMore
  <2> QED
    BY <1>3, <1>17, <2>2, <2>3
<1>19. ASSUME Whole'
       PROVE  Whole /\ Follows(event, RestoreFrom(history, Stream), RestoreFrom(history', Stream'))
  <2>1. PICK st : st = RestoreFrom(history, Stream)
    OBVIOUS
  <2>2. RestoreFrom(history', Stream) = st
    <3>1. PICK h : h = history'
      OBVIOUS
    <3>2. Readable(Q, h) /\ \A id \in P : history[id] = h[id]
      BY <1>10, <1>11, <3>1
    <3>3. PICK g : g = history
      OBVIOUS
    <3>4. PICK s \in Seq(P \cup {Ephemeral}) : s = Stream
      BY <1>3
    <3>5. /\ Readable(P, g) /\ Readable(Q, h) /\ P \subseteq Q
          /\ \A id \in P : g[id] = h[id]
      BY <1>3, <1>5, <3>2, <3>3
    <3>6. RestoreFrom(g, s) = RestoreFrom(h, s)
      BY <3>5, RestoreAgain
    <3> QED
      BY <2>1, <3>1, <3>3, <3>4, <3>6
  <2>3. RestoreFrom(history', Append(Stream, n + 1)) = RestoreStep(history', st, n + 1)
    BY <1>11, <1>13, <1>14, <2>2, RestoreMore
  <2>4. st \in Stores(Q)
    <3>1. Sound(Q, RestoreFrom(history', Stream), Range(Stream) \ {Ephemeral})
      BY <1>3, <1>11, <1>13, <1>14, RestoreSound
    <3> QED
      BY <2>2, <3>1 DEF Sound
  <2>5. Replays(Q, st, e, n + 1, RestoreStep(history', st, n + 1))
    <3>1. Q \in SUBSET Nat /\ history'[n + 1] \in Event /\ history'[n + 1].cut \in Q \cup {None}
      BY <1>5, <1>11 DEF Readable
    <3> QED
      BY <1>5, <1>10, <2>4, <3>1, StepIs
  <2>6. Takes(e) = Takes(event)
    BY <1>9 DEF Takes
  <2> QED
    BY <1>1, <1>9, <1>10, <1>17, <1>19, <2>1, <2>3, <2>5, <2>6 DEF Follows
<1> QED
  BY <1>1, <1>10, <1>12, <1>13, <1>14, <1>15, <1>18, <1>19 DEF Persisted

\* A client's publish is recorded by the stream, and takes nothing off the path.
LEMMA PublishSession ==
    ASSUME Session, TypeOK', NEW k \in Kinds, NEW p \in Published \cup {None},
           Publish(k, p), UNCHANGED Persisted
    PROVE  Session'
<1>1. PICK event : event = Message(k, p)
  OBVIOUS
<1>2. /\ event \in Event /\ event.parent = p /\ event.cut = None /\ Takes(event) = {}
  BY <1>1, MessageType DEF Session, Message, Takes
<1>3. Commit(event) /\ call' = call
  BY <1>1 DEF Publish
<1>4. /\ CutsKnown' /\ file' \in Seq(Published' \cup {Ephemeral}) /\ InOrder(Stream)'
      /\ Rising(active_path)'
      /\ Range(active_path') = Range(active_path) \cup {Len(history) + 1}
      /\ Whole' => /\ Whole
                   /\ Follows(event, RestoreFrom(history, Stream),
                              RestoreFrom(history, Stream)')
  BY <1>2, <1>3, CommitStreams
<1>5. Len(history) + 1 \notin Published
  BY DEF Session, TypeOK, Published
<1>6. Apart'
  <2>1. \A c \in Callers : call[c].rejected \subseteq Published
    BY DEF Session, TypeOK
  <2> QED
    BY <1>3, <1>4, <1>5, <2>1 DEF Apart, Session
<1>7. ASSUME Whole'
      PROVE  Recorded(RestoreFrom(history, Stream))'
  <2>1. PICK st : st = RestoreFrom(history, Stream)
    OBVIOUS
  <2>2. PICK next : next = RestoreFrom(history, Stream)'
    OBVIOUS
  <2>3. Recorded(st)
    BY <1>4, <1>7, <2>1 DEF Session
  <2>4. PICK e : /\ Takes(e) = {}
                 /\ Replays(Published', st, e, Len(history) + 1, next)
    BY <1>2, <1>4, <1>7, <2>1, <2>2 DEF Follows
  <2>5. /\ next.branches = st.branches
        /\ Range(next.path) = Range(st.path) \cup {Len(history) + 1}
    BY <2>4 DEF Replays
  <2>6. rejected_branches' = rejected_branches
    BY <1>3 DEF Commit
  <2>7. Unsettled' = Unsettled /\ \A c \in Callers : \A b : SealedBy(c, b) => SealedBy(c, b)'
    BY <1>3 DEF Unsettled, SealedBy
  <2>8. Range(next.path) = Range(active_path') \cup Unsettled'
    BY <1>4, <2>3, <2>5, <2>7 DEF Recorded
  <2>9. \A i \in DOMAIN rejected_branches' :
          \/ rejected_branches'[i] \in Range(next.branches)
          \/ \E c \in Callers : SealedBy(c, rejected_branches[i])'
    BY <2>3, <2>5, <2>6, <1>3 DEF Recorded, SealedBy
  <2>10. Recorded(next)'
    BY <2>8, <2>9 DEF Recorded
  <2> QED
    BY <2>2, <2>10
<1>8. failures' \in Nat
  BY DEF Session, Persisted
<1> QED
  BY <1>4, <1>6, <1>7, <1>8 DEF Session

\* A tombstone makes the store give up what its rollback has rejected, onto the
\* branch that the rollback has sealed.
LEMMA TombstoneSession ==
    ASSUME Session, TypeOK', NEW c \in Callers, RollbackTombstone(c), UNCHANGED Persisted
    PROVE  Session'
<1>1. PICK event : event = Tombstone(c)
  OBVIOUS
<1>2. PICK R : R = call[c].rejected
  OBVIOUS
<1>3. /\ event \in Event /\ event.parent = None /\ event.cut = call[c].cut
      /\ event.cut \in Published \cup {None} /\ Takes(event) = R
  BY <1>1, <1>2, TombstoneType DEF Session, TypeOK, Tombstone, Takes
<1>4. Commit(event) /\ call' = [call EXCEPT ![c] = Idle] /\ call[c].phase = "announced"
  BY <1>1 DEF RollbackTombstone
<1>5. /\ CutsKnown' /\ file' \in Seq(Published' \cup {Ephemeral}) /\ InOrder(Stream)'
      /\ Rising(active_path)'
      /\ Range(active_path') = Range(active_path) \cup {Len(history) + 1}
      /\ Whole' => /\ Whole
                   /\ Follows(event, RestoreFrom(history, Stream),
                              RestoreFrom(history, Stream)')
  BY <1>3, <1>4, CommitStreams
<1>6. /\ Len(history) + 1 \notin Published /\ DOMAIN call = Callers
      /\ \A d \in Callers : call[d].rejected \subseteq Published
  BY DEF Session, TypeOK, Published
<1>7. /\ call'[c].rejected = {} /\ call'[c].phase = "idle"
      /\ \A d \in Callers \ {c} : call'[d] = call[d]
  BY <1>4, <1>6 DEF Idle
<1>8. Apart'
  BY <1>5, <1>6, <1>7 DEF Apart, Session
<1>9. /\ R # {} /\ R \cap Range(active_path) = {} /\ Len(history) + 1 \notin R
      /\ \A d \in Callers \ {c} : call[d].rejected \cap R = {}
  BY <1>2, <1>4, <1>6 DEF Apart, Session
<1>10. Unsettled' = Unsettled \ R /\ R \subseteq Unsettled
  BY <1>2, <1>7, <1>9 DEF Unsettled
<1>11. ASSUME Whole'
       PROVE  Recorded(RestoreFrom(history, Stream))'
  <2>1. PICK st : st = RestoreFrom(history, Stream)
    OBVIOUS
  <2>2. PICK next : next = RestoreFrom(history, Stream)'
    OBVIOUS
  <2>3. Recorded(st)
    BY <1>5, <1>11, <2>1 DEF Session
  <2>4. PICK e : /\ Takes(e) = R /\ e.cut = call[c].cut
                 /\ Replays(Published', st, e, Len(history) + 1, next)
    BY <1>3, <1>5, <1>11, <2>1, <2>2 DEF Follows
  <2>5. PICK made : made = BranchOf(st, e)
    OBVIOUS
  <2>6. Rising(st.path) /\ st \in Stores(Published)
    BY <2>1, SessionShape DEF Session, Sound
  <2>7. /\ next.branches = Append(st.branches, made)
        /\ Range(next.path) = (Range(st.path) \ R) \cup {Len(history) + 1}
        /\ Range(made.ids) = Range(st.path) \cap R
        /\ Rising(made.ids) /\ made \in BranchesOf(Published')
    BY <1>9, <2>4, <2>5, <2>6 DEF Replays
  <2>8. Range(next.path) = Range(active_path') \cup Unsettled'
    BY <1>5, <1>9, <1>10, <2>3, <2>7 DEF Recorded
  <2>9. Range(made.ids) = R
    BY <1>10, <2>3, <2>7 DEF Recorded
  <2>10. Range(next.branches) = Range(st.branches) \cup {made}
    <3>1. st.branches \in Seq(BranchesOf(Published))
      BY <2>6 DEF Stores
    <3> QED
      BY <2>7, <3>1, RangeOfAppend
  <2>11. rejected_branches' = rejected_branches
    BY <1>4 DEF Commit
  <2>12. ASSUME NEW i \in DOMAIN rejected_branches'
         PROVE  \/ rejected_branches'[i] \in Range(next.branches)
                \/ \E d \in Callers : SealedBy(d, rejected_branches[i])'
    <3>1. PICK b : b = rejected_branches[i]
      OBVIOUS
    <3>2. b \in BranchesOf(Published)
      <4>1. rejected_branches \in Seq(BranchesOf(Published))
        BY DEF Session, TypeOK, BranchesOf
      <4>2. i \in DOMAIN rejected_branches
        BY <2>11, <2>12
      <4>3. rejected_branches[i] \in BranchesOf(Published)
        BY <4>1, <4>2
      <4> QED
        BY <3>1, <4>3
    <3>3. b \in Range(st.branches) \/ \E d \in Callers : SealedBy(d, b)
      BY <2>3, <2>11, <2>12, <3>1 DEF Recorded
    <3>4. CASE b \in Range(st.branches)
      BY <2>10, <2>11, <3>1, <3>4
    <3>5. ASSUME NEW d \in Callers \ {c}, SealedBy(d, b)
          PROVE  SealedBy(d, rejected_branches[i])'
      BY <1>7, <2>11, <3>1, <3>5 DEF SealedBy
    <3>6. CASE SealedBy(c, b)
      <4>1. /\ b.parent = call[c].cut /\ Range(b.ids) = R /\ Rising(b.ids)
            /\ b.ids \in Seq(Nat) /\ b = [parent |-> b.parent, ids |-> b.ids]
        <5>1. b.ids \in Seq(Published) /\ b = [parent |-> b.parent, ids |-> b.ids]
          BY <3>2 DEF BranchesOf
        <5>2. Published \subseteq Nat
          BY DEF Session, TypeOK, Published
        <5>3. b.ids \in Seq(Nat)
          BY <5>1, <5>2, SeqWiden
        <5> QED
          BY <1>2, <3>6, <5>1, <5>3 DEF SealedBy
      <4>2. /\ made.parent = call[c].cut /\ made.ids \in Seq(Nat)
            /\ made = [parent |-> made.parent, ids |-> made.ids]
        <5>1. made.ids \in Seq(Published') /\ made = [parent |-> made.parent, ids |-> made.ids]
          BY <2>7 DEF BranchesOf
        <5>2. Published' \subseteq Nat
          BY DEF TypeOK, Published
        <5>3. made.ids \in Seq(Nat)
          BY <5>1, <5>2, SeqWiden
        <5>4. made.parent = call[c].cut
          BY <2>4, <2>5 DEF BranchOf
        <5> QED
          BY <5>1, <5>3, <5>4
      <4>3. b.ids = made.ids
        BY <2>7, <2>9, <4>1, <4>2, RisingIsUnique
      <4>4. b = made
        BY <4>1, <4>2, <4>3
      <4> QED
        BY <2>10, <2>11, <3>1, <4>4
    <3> QED
      BY <3>3, <3>4, <3>5, <3>6
  <2>13. Recorded(next)'
    BY <2>8, <2>12 DEF Recorded
  <2> QED
    BY <2>2, <2>13
<1>12. failures' \in Nat
  BY DEF Session, Persisted
<1> QED
  BY <1>5, <1>8, <1>11, <1>12 DEF Session

\* A seal moves the end of the path into what is unsettled: the stream, and so
\* the store it rebuilds, have heard nothing of it.
LEMMA SealSession ==
    ASSUME Session, TypeOK', NEW c \in Callers, NEW pos \in DOMAIN active_path,
           RollbackSeal(c, pos), UNCHANGED Persisted
    PROVE  Session'
<1>1. PICK ids : ids = From(active_path, pos)
  OBVIOUS
<1>2. PICK cut : cut = ParentAt(active_path, pos)
  OBVIOUS
<1>3. PICK R : R = Range(ids)
  OBVIOUS
<1>4. /\ active_path \in Seq(Nat) /\ Rising(active_path) /\ DOMAIN call = Callers
      /\ \A d \in Callers : call[d].rejected \subseteq Published
      /\ rejected_branches \in Seq(BranchesOf(Published))
  <2>1. active_path \in Seq(Published) /\ Published \subseteq Nat
    BY DEF Session, TypeOK, Published
  <2>2. active_path \in Seq(Nat)
    BY <2>1, SeqWiden
  <2> QED
    BY <2>2 DEF Session, TypeOK, BranchesOf
<1>5. /\ active_path' = Before(active_path, pos) /\ Rising(active_path')
      /\ ids \in Seq(Nat) /\ Rising(ids) /\ R # {}
      /\ Range(active_path') \cup R = Range(active_path)
      /\ Range(active_path') \cap R = {}
  BY <1>1, <1>3, <1>4, RisingCut DEF RollbackSeal
<1>6. PICK l : l = [phase |-> "sealed", cut |-> cut, rejected |-> R, pruned |-> FALSE]
  OBVIOUS
<1>7. PICK made : made = [parent |-> cut, ids |-> ids]
  OBVIOUS
<1>8. /\ call' = [call EXCEPT ![c] = l] /\ call[c].phase = "idle"
      /\ rejected_branches' = Append(rejected_branches, made)
      /\ history' = history /\ chan' = chan /\ file' = file /\ failures' = failures
  BY <1>1, <1>2, <1>3, <1>6, <1>7 DEF RollbackSeal, Persisted
<1>9. /\ l.phase = "sealed" /\ l.cut = cut /\ l.rejected = R
      /\ made.parent = cut /\ made.ids = ids
  BY <1>6, <1>7
<1>10. /\ call'[c] = l /\ \A d \in Callers \ {c} : call'[d] = call[d]
  BY <1>4, <1>8
<1>11. call[c].rejected = {}
  BY <1>8 DEF Session, TypeOK, Idle
<1>12. Published' = Published /\ Stream' = Stream /\ Whole' = Whole
  BY <1>8 DEF Published, Stream, Whole
<1>13. Apart'
  BY <1>5, <1>9, <1>10 DEF Apart, Session
<1>14. CutsKnown' /\ file' \in Seq(Published' \cup {Ephemeral}) /\ InOrder(Stream)'
  BY <1>8, <1>12 DEF Session, CutsKnown
<1>15. ASSUME Whole'
       PROVE  Recorded(RestoreFrom(history, Stream))'
  <2>1. PICK st : st = RestoreFrom(history, Stream)
    OBVIOUS
  <2>2. Recorded(st) /\ st = RestoreFrom(history', Stream')
    BY <1>8, <1>12, <1>15, <2>1 DEF Session
  <2>3. Unsettled' = Unsettled \cup R
    BY <1>9, <1>10, <1>11 DEF Unsettled
  <2>4. Range(st.path) = Range(active_path') \cup Unsettled'
    BY <1>5, <2>2, <2>3 DEF Recorded
  <2>5. /\ DOMAIN rejected_branches' = 1..(Len(rejected_branches) + 1)
        /\ DOMAIN rejected_branches = 1..Len(rejected_branches)
        /\ Len(rejected_branches) \in Nat
        /\ \A i \in DOMAIN rejected_branches : rejected_branches'[i] = rejected_branches[i]
        /\ rejected_branches'[Len(rejected_branches) + 1] = made
    BY <1>4, <1>8
  <2>6. ASSUME NEW i \in DOMAIN rejected_branches'
        PROVE  \/ rejected_branches'[i] \in Range(st.branches)
               \/ \E d \in Callers : SealedBy(d, rejected_branches[i])'
    <3>1. CASE i \in DOMAIN rejected_branches
      <4>1. PICK b : b = rejected_branches[i]
        OBVIOUS
      <4>2. rejected_branches'[i] = b
        BY <2>5, <3>1, <4>1
      <4>3. b \in Range(st.branches) \/ \E d \in Callers : SealedBy(d, b)
        BY <2>2, <3>1, <4>1 DEF Recorded
      <4>4. \A d \in Callers : SealedBy(d, b) => d # c /\ SealedBy(d, b)'
        BY <1>10, <1>11 DEF SealedBy
      <4>5. \A d \in Callers : SealedBy(d, b)' => SealedBy(d, rejected_branches[i])'
        BY <4>2 DEF SealedBy
      <4> QED
        BY <4>2, <4>3, <4>4, <4>5
    <3>2. CASE i = Len(rejected_branches) + 1
      <4>1. rejected_branches'[i] = made
        BY <2>5, <3>2
      <4>2. SealedBy(c, rejected_branches[i])'
        BY <1>3, <1>5, <1>9, <1>10, <4>1 DEF SealedBy
      <4> QED
        BY <4>2
    <3> QED
      BY <2>5, <3>1, <3>2
  <2>7. Recorded(st)'
    BY <2>4, <2>6 DEF Recorded
  <2> QED
    BY <2>2, <2>7
<1>16. failures' \in Nat
  BY DEF Session, Persisted
<1> QED
  BY <1>5, <1>13, <1>14, <1>15, <1>16 DEF Session

\* Where the path stays and nobody's rejections change, a store that knows the
\* branches knows those that are left of them.
LEMMA RecordedKept ==
    ASSUME NEW st, Recorded(st), active_path' = active_path,
           \A c \in Callers : /\ call'[c].rejected = call[c].rejected
                              /\ call'[c].cut = call[c].cut,
           \A i \in DOMAIN rejected_branches' :
               \E j \in DOMAIN rejected_branches : rejected_branches'[i] = rejected_branches[j]
    PROVE  Recorded(st)'
<1>1. Unsettled' = Unsettled
  BY DEF Unsettled
<1>2. ASSUME NEW i \in DOMAIN rejected_branches'
      PROVE  \/ rejected_branches'[i] \in Range(st.branches)
             \/ \E c \in Callers : SealedBy(c, rejected_branches[i])'
  <2>1. PICK j \in DOMAIN rejected_branches : rejected_branches'[i] = rejected_branches[j]
    BY <1>2
  <2>2. \A c \in Callers : SealedBy(c, rejected_branches[j]) => SealedBy(c, rejected_branches[i])'
    BY <2>1 DEF SealedBy
  <2> QED
    BY <2>1, <2>2 DEF Recorded
<1> QED
  BY <1>1, <1>2 DEF Recorded

\* Steps that tell the exporter nothing of the store keep the session: the
\* branches may become fewer, and the items that come are only fanned out.
LEMMA QuietSession ==
    ASSUME Session, TypeOK', history' = history, active_path' = active_path,
           \A c \in Callers : /\ call'[c].rejected = call[c].rejected
                              /\ call'[c].cut = call[c].cut
                              /\ call[c].phase = "idle" => call'[c].phase = "idle",
           \A i \in DOMAIN rejected_branches' :
               \E j \in DOMAIN rejected_branches : rejected_branches'[i] = rejected_branches[j],
           failures' \in Nat, file' \in Seq(Published \cup {Ephemeral}), InOrder(Stream'),
           Whole' => Whole /\ RestoreFrom(history, Stream') = RestoreFrom(history, Stream)
    PROVE  Session'
<1>1. Published' = Published
  BY DEF Published
<1>2. CutsKnown'
  BY DEF Session, CutsKnown
<1>3. Apart'
  BY DEF Session, Apart
<1>4. Whole' => Recorded(RestoreFrom(history, Stream))'
  <2> SUFFICES ASSUME Whole'
               PROVE  Recorded(RestoreFrom(history, Stream))'
    OBVIOUS
  <2>1. PICK st : st = RestoreFrom(history, Stream)
    OBVIOUS
  <2>2. Recorded(st)
    BY <2>1 DEF Session
  <2>3. Recorded(st)'
    BY <2>2, RecordedKept
  <2>4. st = RestoreFrom(history', Stream')
    BY <2>1
  <2> QED
    BY <2>3, <2>4
<1> QED
  BY <1>1, <1>2, <1>3, <1>4 DEF Session

\* An item that is only fanned out changes neither the order of the stream nor
\* what it rebuilds.
LEMMA EphemeralOffered ==
    ASSUME Session, NEW s \in Seq(Published \cup {Ephemeral}), InOrder(s)
    PROVE  LET longer == Append(s, Ephemeral)
           IN  /\ longer \in Seq(Published \cup {Ephemeral})
               /\ InOrder(longer)
               /\ RestoreFrom(history, longer) = RestoreFrom(history, s)
<1>1. Readable(Published, history) /\ Published \subseteq Nat
  BY SessionShape DEF Session
<1> DEFINE S == Published \cup {Ephemeral}
<1>2. s \in Seq(S) /\ Ephemeral \in S /\ S \subseteq Nat
  BY <1>1 DEF Ephemeral
<1>3. RestoreFrom(history, Append(s, Ephemeral)) = RestoreFrom(history, s)
  <2>1. RestoreFrom(history, Append(s, Ephemeral))
          = RestoreStep(history, RestoreFrom(history, s), Ephemeral)
    BY <1>1, RestoreMore
  <2> QED
    BY <2>1 DEF RestoreStep
<1> HIDE DEF S
<1>4. Append(s, Ephemeral) \in Seq(S)
  BY <1>2
<1>5. InOrder(Append(s, Ephemeral))
  <2>1. s \in Seq(Nat) /\ Ephemeral \in Nat
    BY <1>2, SeqWiden
  <2> QED
    BY <2>1, InOrderMore
<1> QED
  BY <1>3, <1>4, <1>5 DEF S

\* A fan-out of such an item, as the stream sees it: what it leaves of the
\* channel is again one that the next fan-out may go through.
LEMMA EphemeralHeard ==
    ASSUME Session, NEW chs,
           chs[Exporter] \in [state : {"off", "open", "gone"}, q : Seq(Published \cup {Ephemeral})],
           file \o chs[Exporter].q \in Seq(Published \cup {Ephemeral}),
           InOrder(file \o chs[Exporter].q),
           NEW after, after = FanOut(chs, Ephemeral)
    PROVE  /\ after[Exporter] \in [state : {"off", "open", "gone"},
                                   q : Seq(Published \cup {Ephemeral})]
           /\ file \o after[Exporter].q \in Seq(Published \cup {Ephemeral})
           /\ InOrder(file \o after[Exporter].q)
           /\ after[Exporter].state = "open" => chs[Exporter].state = "open"
           /\ RestoreFrom(history, file \o after[Exporter].q)
                = RestoreFrom(history, file \o chs[Exporter].q)
<1>1. after[Exporter] = TryDeliver(chs[Exporter], Ephemeral)
  BY ExporterAssumption DEF FanOut
<1>2. OfferedTo(Published \cup {Ephemeral}, file, chs[Exporter], after[Exporter], Ephemeral)
  BY <1>1, Offered DEF Session
<1>3. PICK s \in Seq(Published \cup {Ephemeral}) : s = file \o chs[Exporter].q
  OBVIOUS
<1>4. /\ Append(s, Ephemeral) \in Seq(Published \cup {Ephemeral})
      /\ InOrder(Append(s, Ephemeral)) /\ InOrder(s)
      /\ RestoreFrom(history, Append(s, Ephemeral)) = RestoreFrom(history, s)
  BY <1>3, EphemeralOffered
<1> QED
  BY <1>2, <1>3, <1>4 DEF OfferedTo

\* Broadcasts, and the announcements of a rollback, are not recorded.
LEMMA AnnounceSession ==
    ASSUME Session, TypeOK', UNCHANGED store, UNCHANGED Persisted,
           \A c \in Callers : /\ call'[c].rejected = call[c].rejected
                              /\ call'[c].cut = call[c].cut
                              /\ call[c].phase = "idle" => call'[c].phase = "idle",
           \/ chan' = FanOut(chan, Ephemeral)
           \/ chan' = FanOut(FanOut(chan, Ephemeral), Ephemeral)
    PROVE  Session'
<1>1. /\ chan[Exporter] \in [state : {"off", "open", "gone"}, q : Seq(Published \cup {Ephemeral})]
      /\ file \o chan[Exporter].q \in Seq(Published \cup {Ephemeral})
      /\ InOrder(file \o chan[Exporter].q)
  BY SessionShape, ExporterAssumption DEF Session, TypeOK, Stream
<1>2. PICK once : once = FanOut(chan, Ephemeral)
  OBVIOUS
<1>3. /\ once[Exporter] \in [state : {"off", "open", "gone"}, q : Seq(Published \cup {Ephemeral})]
      /\ file \o once[Exporter].q \in Seq(Published \cup {Ephemeral})
      /\ InOrder(file \o once[Exporter].q)
      /\ once[Exporter].state = "open" => chan[Exporter].state = "open"
      /\ RestoreFrom(history, file \o once[Exporter].q) = RestoreFrom(history, Stream)
  BY <1>1, <1>2, EphemeralHeard DEF Stream
<1>4. PICK twice : twice = FanOut(once, Ephemeral)
  OBVIOUS
<1>5. /\ InOrder(file \o twice[Exporter].q)
      /\ twice[Exporter].state = "open" => chan[Exporter].state = "open"
      /\ RestoreFrom(history, file \o twice[Exporter].q) = RestoreFrom(history, Stream)
  BY <1>3, <1>4, EphemeralHeard
<1>6. chan' \in {once, twice}
  BY <1>2, <1>4
<1>7. /\ InOrder(Stream')
      /\ Whole' => Whole /\ RestoreFrom(history, Stream') = RestoreFrom(history, Stream)
  BY <1>3, <1>5, <1>6 DEF Stream, Whole, Persisted
<1>8. /\ history' = history /\ active_path' = active_path
      /\ \A i \in DOMAIN rejected_branches' :
            \E j \in DOMAIN rejected_branches : rejected_branches'[i] = rejected_branches[j]
      /\ file' \in Seq(Published \cup {Ephemeral})
  BY DEF store, Persisted, Session
<1>9. failures' \in Nat
  BY DEF Session, Persisted
<1> QED
  BY <1>7, <1>8, <1>9, QuietSession

\* An eviction and a drop of the rollback are seen by nobody outside the bus.
LEMMA UnheardSession ==
    ASSUME Session, TypeOK', NEW c \in Callers, RollbackEvict(c) \/ Abort(c),
           UNCHANGED Persisted
    PROVE  Session'
<1>1. /\ history' = history /\ active_path' = active_path /\ chan' = chan
      /\ file' = file /\ failures' = failures
  BY DEF RollbackEvict, Abort, store, Persisted
<1>2. \A d \in Callers : /\ call'[d].rejected = call[d].rejected
                         /\ call'[d].cut = call[d].cut
                         /\ call[d].phase = "idle" => call'[d].phase = "idle"
  <2>1. /\ DOMAIN call = Callers /\ call[c].phase # "idle"
        /\ call[c] \in [phase : Phases, cut : Published \cup {None},
                        rejected : SUBSET Published, pruned : BOOLEAN]
    <3>1. call[c].phase # "idle"
      BY DEF RollbackEvict, Abort
    <3> QED
      BY <3>1 DEF Session, TypeOK
  <2>2. \A d \in Callers \ {c} : call'[d] = call[d]
    BY <2>1 DEF RollbackEvict, Abort
  <2>3. call'[c].rejected = call[c].rejected /\ call'[c].cut = call[c].cut
    <3>1. CASE RollbackEvict(c)
      BY <2>1, <3>1 DEF RollbackEvict
    <3>2. CASE Abort(c)
      BY <2>1, <3>2 DEF Abort
    <3> QED
      BY <3>1, <3>2
  <2> QED
    BY <2>1, <2>2, <2>3
<1>3. \A i \in DOMAIN rejected_branches' :
          \E j \in DOMAIN rejected_branches : rejected_branches'[i] = rejected_branches[j]
  <2>1. CASE RollbackEvict(c)
    <3>1. PICK B : rejected_branches \in Seq(B)
      BY DEF Session, TypeOK
    <3>2. rejected_branches' = Retained(rejected_branches)
      BY <2>1 DEF RollbackEvict
    <3> QED
      BY <3>1, <3>2, ExcessType
  <2>2. CASE Abort(c)
    BY <2>2 DEF Abort, store
  <2> QED
    BY <2>1, <2>2
<1>4. Stream' = Stream /\ Whole' = Whole /\ file' \in Seq(Published \cup {Ephemeral})
  BY <1>1 DEF Stream, Whole, Session
<1>5. InOrder(Stream')
  BY <1>4 DEF Session
<1>6. failures' \in Nat
  BY <1>1 DEF Session
<1> QED
  BY <1>1, <1>2, <1>3, <1>4, <1>5, <1>6, QuietSession

\* The exporter receives the next item and writes it, or fails to: the stream is
\* the same, or is not whole any more.
LEMMA ExportSession ==
    ASSUME Session, TypeOK', Export \/ ExportFails
    PROVE  Session'
<1>1. PICK S : S = Published \cup {Ephemeral}
  OBVIOUS
<1>2. /\ file \in Seq(S) /\ chan[Exporter].q \in Seq(S) /\ S \subseteq Nat
      /\ Stream = file \o chan[Exporter].q /\ InOrder(Stream)
  BY <1>1, SessionShape DEF Session, Stream, Ephemeral
<1>3. PICK q \in Seq(S) : q = chan[Exporter].q
  BY <1>2
<1>4. /\ Recv(Exporter) /\ history' = history /\ active_path' = active_path
      /\ call' = call /\ rejected_branches' = rejected_branches
  BY DEF Export, ExportFails, Recv, store
<1>5. /\ q # <<>> /\ chan'[Exporter].q = Tail(q)
      /\ chan'[Exporter].state = chan[Exporter].state
  <2>1. chan[Exporter] \in [state : {"off", "open", "gone"}, q : Seq(Published \cup {Ephemeral})]
        /\ Exporter \in DOMAIN chan
    BY ExporterAssumption DEF Session, TypeOK
  <2> QED
    BY <1>3, <1>4, <2>1 DEF Recv
<1>6. /\ file' \in Seq(S) /\ InOrder(Stream')
      /\ Whole' => Whole /\ Stream' = Stream
  <2>1. CASE Export
    <3>1. Head(q) \in S
      BY <1>3, <1>5
    <3>2. Append(file, Head(q)) \in Seq(S)
      BY <1>2, <3>1
    <3>3. Append(file, Head(q)) \o Tail(q) = file \o q
      BY <1>2, <1>5, JoinMoved
    <3>4. file' = Append(file, Head(q)) /\ failures' = failures
      BY <1>3, <2>1 DEF Export
    <3>5. Stream' = Stream
      BY <1>2, <1>3, <1>5, <3>3, <3>4 DEF Stream
    <3> QED
      BY <1>2, <1>5, <3>2, <3>4, <3>5 DEF Whole
  <2>2. CASE ExportFails
    <3>1. file' = file /\ failures' = failures + 1 /\ failures' # 0
      <4>1. file' = file /\ failures' = failures + 1
        BY <2>2 DEF ExportFails
      <4> QED
        BY <4>1 DEF Session
    <3>2. file \in Seq(Nat) /\ q \in Seq(Nat)
      BY <1>2, SeqWiden
    <3>3. InOrder(file \o Tail(q))
      BY <1>2, <1>3, <1>5, <3>2, JoinLost
    <3> QED
      BY <1>2, <1>5, <3>1, <3>3 DEF Whole, Stream
  <2> QED
    BY <2>1, <2>2
<1>7. \A i \in DOMAIN rejected_branches' :
          \E j \in DOMAIN rejected_branches : rejected_branches'[i] = rejected_branches[j]
  BY <1>4
<1>8. failures' \in Nat
  BY DEF Export, ExportFails, Session
<1> QED
  BY <1>1, <1>4, <1>6, <1>7, <1>8, QuietSession

\* `close` ends the stream.
LEMMA CloseSession ==
    ASSUME Session, TypeOK', Close, UNCHANGED Persisted
    PROVE  Session'
<1>1. chan'[Exporter].q = chan[Exporter].q /\ chan'[Exporter].state = "off"
  <2>1. chan[Exporter] \in [state : {"off", "open", "gone"}, q : Seq(Published \cup {Ephemeral})]
    BY ExporterAssumption DEF Session, TypeOK
  <2> QED
    BY <2>1, ExporterAssumption DEF Close
<1>2. /\ history' = history /\ active_path' = active_path /\ call' = call
      /\ rejected_branches' = rejected_branches /\ file' = file
  BY DEF Close, store, Persisted
<1>3. Stream' = Stream /\ ~ Whole'
  BY <1>1, <1>2 DEF Stream, Whole
<1>4. file' \in Seq(Published \cup {Ephemeral}) /\ InOrder(Stream')
  BY <1>2, <1>3 DEF Session
<1>5. failures' \in Nat
  BY DEF Session, Persisted
<1> QED
  BY <1>2, <1>3, <1>4, <1>5, QuietSession

\* A session opened again is what its file rebuilds.
LEMMA RestartSession ==
    ASSUME Session, Restart
    PROVE  Session'
<1>1. PICK st : st = RestoreFrom(history, file)
  OBVIOUS
<1>2. /\ active_path' = st.path /\ rejected_branches' = st.branches /\ nodes' = st.nodes
      /\ call' = [c \in Callers |-> Idle] /\ chan' = Attached /\ failures' = 0
      /\ history' = history /\ handed' = handed /\ file' = file
  BY <1>1 DEF Restart
<1>3. /\ Sound(Published, st, Range(file) \ {Ephemeral}) /\ InOrder(file)
      /\ Published' = Published
  BY <1>1, <1>2, SessionShape DEF Session, Published
<1>4. /\ st.path \in Seq(Published) /\ st.nodes \subseteq Published /\ Rising(st.path)
      /\ st.branches \in Seq([parent : Published \cup {None}, ids : Seq(Published)])
  BY <1>3 DEF Sound, Stores, BranchesOf
<1>5. /\ chan' \in [Subs -> [state : {"off", "open", "gone"}, q : Seq(Published \cup {Ephemeral})]]
      /\ chan'[Exporter].q = <<>>
  <2>1. Attached \in [Subs -> [state : {"off", "open", "gone"}, q : Seq(Published \cup {Ephemeral})]]
    BY DEF Attached
  <2>2. Attached[Exporter].q = <<>>
    BY ExporterAssumption DEF Attached
  <2> QED
    BY <1>2, <2>1, <2>2
<1>6. TypeOK'
  <2>1. Idle \in [phase : Phases, cut : Published \cup {None}, rejected : SUBSET Published,
                  pruned : BOOLEAN]
    BY DEF Idle, Phases
  <2> QED
    BY <1>2, <1>3, <1>4, <1>5, <2>1 DEF Session, TypeOK
<1>7. Stream' = file
  <2>1. file \o <<>> = file
    BY DEF Session
  <2> QED
    BY <1>2, <1>5, <2>1 DEF Stream
<1>8. \A c \in Callers : call'[c].rejected = {} /\ call'[c].phase = "idle"
  BY <1>2 DEF Idle
<1>9. Apart'
  BY <1>8 DEF Apart
<1>10. Recorded(st)'
  <2>1. Unsettled' = {}
    BY <1>8 DEF Unsettled
  <2>2. \A i \in DOMAIN st.branches : st.branches[i] \in Range(st.branches)
    BY DEF Range
  <2> QED
    BY <1>2, <2>1, <2>2 DEF Recorded
<1>11. Recorded(RestoreFrom(history, Stream))'
  <2>1. st = RestoreFrom(history', Stream')
    BY <1>1, <1>2, <1>7
  <2> QED
    BY <1>10, <2>1
<1>12. CutsKnown' /\ file' \in Seq(Published' \cup {Ephemeral}) /\ InOrder(Stream)'
       /\ Rising(active_path)'
  BY <1>2, <1>3, <1>4, <1>7 DEF Session, CutsKnown
<1>13. failures' \in Nat
  BY <1>2
<1> QED
  BY <1>6, <1>9, <1>11, <1>12, <1>13 DEF Session

\* Every step keeps the session.
LEMMA SessionStep ==
    ASSUME Session, [PNext]_pvars
    PROVE  Session'
<1>1. CASE Restart
  BY <1>1, RestartSession
<1>2. CASE UNCHANGED pvars
  <2>1. /\ UNCHANGED <<history, active_path, rejected_branches, call, chan, file, failures>>
        /\ UNCHANGED <<nodes, handed>>
    BY <1>2 DEF pvars, vars, store
  <2> QED
    BY <2>1 DEF Session, TypeOK, CutsKnown, Stream, Apart, Whole, Recorded, SealedBy,
                Unsettled, Published
<1>3. CASE BusStep \/ Export \/ ExportFails
  <2>1. TypeOK'
    <3>1. [Next]_vars
      BY <1>3, ExporterAssumption
         DEF BusStep, Export, ExportFails, Next, Subscription
    <3> QED
      BY <3>1, TypeStep DEF Session
  <2>2. CASE Export \/ ExportFails
    BY <2>1, <2>2, ExportSession
  <2>3. CASE BusStep
    <3>1. UNCHANGED Persisted
      BY <2>3 DEF BusStep
    <3>2. ASSUME NEW k \in Kinds, NEW p \in Published \cup {None}, Publish(k, p)
          PROVE  Session'
      BY <2>1, <3>1, <3>2, PublishSession
    <3>3. CASE Broadcast
      BY <2>1, <3>1, <3>3, AnnounceSession DEF Broadcast
    <3>4. CASE Close
      BY <2>1, <3>1, <3>4, CloseSession
    <3>5. ASSUME NEW c \in Callers, Rolling(c)
          PROVE  Session'
      <4>1. ASSUME NEW pos \in DOMAIN active_path, RollbackSeal(c, pos)
            PROVE  Session'
        BY <2>1, <3>1, <4>1, SealSession
      <4>2. CASE RollbackEvict(c) \/ Abort(c)
        BY <2>1, <3>1, <4>2, UnheardSession
      <4>3. CASE RollbackTombstone(c)
        BY <2>1, <3>1, <4>3, TombstoneSession
      <4>4. CASE RollbackAnnounce(c)
        <5>1. /\ UNCHANGED store /\ call[c].phase = "evicted"
              /\ call' = [call EXCEPT ![c].phase = "announced"]
              /\ \/ chan' = FanOut(chan, Ephemeral)
                 \/ chan' = FanOut(FanOut(chan, Ephemeral), Ephemeral)
          BY <4>4 DEF RollbackAnnounce
        <5>2. \A d \in Callers : /\ call'[d].rejected = call[d].rejected
                                 /\ call'[d].cut = call[d].cut
                                 /\ call[d].phase = "idle" => call'[d].phase = "idle"
          <6>1. /\ DOMAIN call = Callers
                /\ call[c] \in [phase : Phases, cut : Published \cup {None},
                                rejected : SUBSET Published, pruned : BOOLEAN]
            BY DEF Session, TypeOK
          <6>2. \A d \in Callers \ {c} : call'[d] = call[d]
            BY <5>1, <6>1
          <6>3. call'[c].rejected = call[c].rejected /\ call'[c].cut = call[c].cut
            BY <5>1, <6>1
          <6> QED
            BY <5>1, <6>2, <6>3
        <5> QED
          BY <2>1, <3>1, <5>1, <5>2, AnnounceSession
      <4> QED
        BY <3>5, <4>1, <4>2, <4>3, <4>4 DEF Rolling
    <3> QED
      BY <2>3, <3>2, <3>3, <3>4, <3>5 DEF BusStep, Client, Published
  <2> QED
    BY <1>3, <2>2, <2>3
<1> QED
  BY <1>1, <1>2, <1>3 DEF PNext

\* A session begins with nothing published and nothing written.
LEMMA SessionBegins ==
    PInit => Session
<1> SUFFICES ASSUME PInit
             PROVE  Session
  OBVIOUS
<1>1. /\ history = <<>> /\ nodes = {} /\ active_path = <<>> /\ rejected_branches = <<>>
      /\ handed = {} /\ call = [c \in Callers |-> Idle] /\ chan = Attached
      /\ file = <<>> /\ failures = 0
  BY DEF PInit, InitStore
<1>2. Published = {} /\ DOMAIN history = {}
  BY <1>1 DEF Published
<1>3. /\ chan \in [Subs -> [state : {"off", "open", "gone"}, q : Seq(Published \cup {Ephemeral})]]
      /\ chan[Exporter].q = <<>>
  BY <1>1, ExporterAssumption DEF Attached
<1>4. TypeOK
  <2>1. Idle \in [phase : Phases, cut : Published \cup {None}, rejected : SUBSET Published,
                  pruned : BOOLEAN]
    BY DEF Idle, Phases
  <2> QED
    BY <1>1, <1>2, <1>3, <2>1 DEF TypeOK
<1>5. Stream = <<>>
  BY <1>1, <1>3 DEF Stream
<1>6. CutsKnown /\ InOrder(Stream) /\ Rising(active_path)
  BY <1>1, <1>2, <1>5 DEF CutsKnown, CutsPublished, InOrder, Rising
<1>7. \A c \in Callers : call[c].rejected = {} /\ call[c].phase = "idle"
  BY <1>1 DEF Idle
<1>8. Apart
  BY <1>7 DEF Apart
<1>9. Recorded(RestoreFrom(history, Stream))
  <2>1. RestoreFrom(history, Stream) = EmptyStore
    <3>1. Readable({}, history)
      BY DEF Readable, Ephemeral
    <3> QED
      BY <1>5, <3>1, RestoreNothing
  <2>2. Unsettled = {}
    BY <1>7 DEF Unsettled
  <2> QED
    BY <1>1, <2>1, <2>2 DEF Recorded, EmptyStore, Range
<1> QED
  BY <1>1, <1>4, <1>6, <1>8, <1>9 DEF Session

\* Through any number of restarts, failed exports and concurrent rollbacks, what
\* was streamed to an exporter that lost nothing rebuilds the active path
\* together with what is being rolled back, and each branch the bus holds is
\* either rebuilt or waits for the tombstone of a rollback under way.
THEOREM SessionInvariant == PSpec => []Session
<1>1. PInit => Session
  BY SessionBegins
<1>2. Session /\ [PNext]_pvars => Session'
  BY SessionStep
<1> QED
  BY <1>1, <1>2, PTL DEF PSpec

\* Restoring a session from its stream and taking off what no tombstone has
\* recorded yet gives the active path, event for event and in order.
THEOREM RestoresThePath == PSpec => []RestoreIsFaithful
<1>1. ASSUME Session, Whole
      PROVE  Off(RestoreFrom(history, Stream).path, Unsettled) = active_path
  <2>1. PICK st : st = RestoreFrom(history, Stream)
    OBVIOUS
  <2>2. /\ Published \in SUBSET Nat /\ st.path \in Seq(Published) /\ Rising(st.path)
        /\ Range(st.path) = Range(active_path) \cup Unsettled
    BY <1>1, <2>1, SessionShape DEF Session, Sound, Stores, Recorded
  <2>3. active_path \in Seq(Published) /\ Rising(active_path)
    BY <1>1 DEF Session, TypeOK
  <2>4. Unsettled \cap Range(active_path) = {}
    BY <1>1 DEF Session, Apart, Unsettled
  <2>5. PICK kept : kept = Off(st.path, Unsettled)
    OBVIOUS
  <2>6. /\ kept \in Seq(Published) /\ Rising(kept)
        /\ Range(kept) = Range(st.path) \ Unsettled
    BY <2>2, <2>5, OffKeeps
  <2>7. Range(kept) = Range(active_path)
    BY <2>2, <2>4, <2>6
  <2>8. kept \in Seq(Nat) /\ active_path \in Seq(Nat)
    BY <2>2, <2>3, <2>6, SeqWiden
  <2>9. kept = active_path
    BY <2>3, <2>6, <2>7, <2>8, RisingIsUnique
  <2> QED
    BY <2>1, <2>5, <2>9
<1>2. Session => RestoreIsFaithful
  BY <1>1 DEF RestoreIsFaithful
<1> QED
  BY <1>2, SessionInvariant, PTL

\* With no rollback under way, a restored session has every rejected branch the
\* bus holds, with the same parent and the same events in the same order.
THEOREM RestoresTheBranches == PSpec => []RestoreKeepsBranches
<1>1. ASSUME Session, Whole, Unsettled = {}
      PROVE  Range(rejected_branches) \subseteq Range(RestoreFrom(history, Stream).branches)
  <2>1. PICK st : st = RestoreFrom(history, Stream)
    OBVIOUS
  <2>2. Recorded(st)
    BY <1>1, <2>1 DEF Session
  <2>3. \A c \in Callers : call[c].rejected = {}
    BY <1>1 DEF Unsettled
  <2>4. \A i \in DOMAIN rejected_branches : rejected_branches[i] \in Range(st.branches)
    BY <2>2, <2>3 DEF Recorded, SealedBy
  <2> QED
    BY <2>1, <2>4 DEF Range
<1>2. Session => RestoreKeepsBranches
  BY <1>1 DEF RestoreKeepsBranches
<1> QED
  BY <1>2, SessionInvariant, PTL

\* Whatever of the stream was exported, and whenever the process stops, a
\* restore puts each exported event in exactly one place.
THEOREM RestoreDropsNothing == PSpec => []RestoreKeepsEvents
<1>1. ASSUME Session
      PROVE  LET st == RestoreFrom(history, file)
             IN  /\ Reachable(st.path, st.branches) = Range(file) \ {Ephemeral}
                 /\ Range(st.path) \cap IdsOf(st.branches) = {}
                 /\ NoRepeats(st.path)
  <2>1. PICK st : st = RestoreFrom(history, file)
    OBVIOUS
  <2>2. Sound(Published, st, Range(file) \ {Ephemeral}) /\ Published \subseteq Nat
    BY <1>1, <2>1, SessionShape DEF Session
  <2>3. NoRepeats(st.path)
    <3>1. st.path \in Seq(Nat) /\ Rising(st.path)
      BY <2>2, SeqWiden DEF Sound, Stores
    <3>2. \A i, j \in DOMAIN st.path : i # j => st.path[i] # st.path[j]
      BY <3>1 DEF Rising
    <3> QED
      BY <3>2 DEF NoRepeats
  <2> QED
    BY <2>1, <2>2, <2>3 DEF Sound
<1>2. Session => RestoreKeepsEvents
  BY <1>1 DEF RestoreKeepsEvents
<1> QED
  BY <1>2, SessionInvariant, PTL

=============================================================================
