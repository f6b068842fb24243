--------------------------- MODULE AgentLoopProofs ---------------------------
(***************************************************************************)
(* That AgentLoop loses no wake event and passes over no activity, for     *)
(* every set of agents, limit and bound.                                   *)
(*                                                                         *)
(* What an agent owes is in its queue, except between its subscription and *)
(* its look at the log, when it may also be in the log, and while a wake   *)
(* event it took waits for its cycle.  What lies below the scheduler's     *)
(* bookmark is older than the last heartbeat because names grow and the    *)
(* bookmark is taken before the heartbeat; between the two nothing is      *)
(* claimed.                                                                *)
(***************************************************************************)
EXTENDS AgentLoop, TLAPS

Stages == {"spawned"} \cup Live \cup Ended

Queued(a) == {rx[a][i].id : i \in DOMAIN rx[a]}

Typed ==
    /\ limit \in Nat
    /\ log \in Seq(Event)
    /\ next \in Nat
    /\ closed \in BOOLEAN
    /\ stage \in [Agents -> Stages]
    /\ rx \in [Agents -> Seq(Event)]
    /\ pausing \in [Agents -> BOOLEAN]
    /\ sched \in {"ticking", "active", "marked"}
    /\ bookmark \in Nat
    /\ owed \in [Agents -> SUBSET Nat]
    /\ beat \in Nat
    /\ shortened \in BOOLEAN

\* Between the subscription and the look at the log: what is owed will be seen
\* there, or is in the queue.
SeenInLog ==
    \A a \in Agents : stage[a] = "subscribed" => owed[a] \subseteq Pending \cup Queued(a)

Waits ==
    \A a \in Agents :
        stage[a] \notin {"subscribed", "acquiring", "starting"} => owed[a] \subseteq Queued(a)

WakeInv == SeenInLog /\ Waits

\* Names grow, so the next heartbeat has a later name than all there is.
NamesGrow == beat < next /\ \A i \in DOMAIN log : log[i].id < next

BookmarkInLog == ~shortened => bookmark <= Len(log)

Older ==
    ~shortened /\ sched # "marked" =>
        \A i \in 1..bookmark : Activity(log[i]) => log[i].id < beat

HeardInv == NamesGrow /\ BookmarkInLog /\ Older

LoopInv == Typed /\ WakeInv /\ HeardInv

-----------------------------------------------------------------------------
(* Initially.                                                              *)

\* Nothing is owed and nothing is queued at the start.
THEOREM LoopInit == Init => LoopInv
<1> SUFFICES ASSUME Init PROVE LoopInv
    OBVIOUS
<1>1. Typed
    <2>1. limit \in Nat
        BY BoundsAssumption DEF Init
    <2>2. log \in Seq(Event) /\ rx \in [Agents -> Seq(Event)]
        BY DEF Init
    <2>3. stage \in [Agents -> Stages]
        BY DEF Init, Stages
    <2> QED
        BY <2>1, <2>2, <2>3 DEF Init, Typed
<1>2. WakeInv
    BY DEF Init, WakeInv, SeenInLog, Waits
<1>3. HeardInv
    BY DEF Init, HeardInv, NamesGrow, BookmarkInLog, Older
<1> QED
    BY <1>1, <1>2, <1>3 DEF LoopInv

-----------------------------------------------------------------------------
(* A publish.                                                              *)

\* Publishing keeps the types, and every agent that is subscribed has the event
\* in its queue if it owes it.
LEMMA PublishTyped ==
    ASSUME Typed, NEW kind \in Kinds, NEW to \in Agents \cup {"anyone"}, Publish(kind, to)
    PROVE  /\ Of(kind, to) \in Event
           /\ log' \in Seq(Event) /\ next' \in Nat
           /\ rx' \in [Agents -> Seq(Event)]
           /\ owed' \in [Agents -> SUBSET Nat]
<1>1. Of(kind, to) \in Event
    BY DEF Typed, Of, Event, Kinds
<1>2. log' \in Seq(Event) /\ next' \in Nat
    BY <1>1 DEF Typed, Publish
<1>3. rx' \in [Agents -> Seq(Event)]
    BY <1>1 DEF Typed, Publish, FanOut
<1>4. owed' \in [Agents -> SUBSET Nat]
    BY DEF Typed, Publish
<1> QED
    BY <1>1, <1>2, <1>3, <1>4

\* Nothing that was queued or in the log goes by a publish.
LEMMA PublishGrows ==
    ASSUME Typed, NEW kind \in Kinds, NEW to \in Agents \cup {"anyone"}, Publish(kind, to)
    PROVE  /\ \A a \in Agents : Queued(a) \subseteq Queued(a)'
           /\ Pending \subseteq Pending'
           /\ Len(log') = Len(log) + 1
           /\ \A i \in DOMAIN log : log'[i] = log[i]
           /\ log'[Len(log) + 1] = Of(kind, to)
<1> DEFINE e == Of(kind, to)
<1>1. e \in Event
    BY PublishTyped
<1>2. /\ Len(log') = Len(log) + 1
      /\ \A i \in DOMAIN log : i \in DOMAIN log' /\ log'[i] = log[i]
      /\ log'[Len(log) + 1] = e
    BY <1>1 DEF Typed, Publish
<1>3. ASSUME NEW a \in Agents PROVE Queued(a) \subseteq Queued(a)'
    <2>1. rx[a] \in Seq(Event) /\ rx'[a] \in {rx[a], Append(rx[a], e)}
        BY DEF Typed, Publish, FanOut
    <2>2. \A i \in DOMAIN rx[a] : i \in DOMAIN rx'[a] /\ rx'[a][i] = rx[a][i]
        BY <1>1, <2>1
    <2> QED
        BY <2>2 DEF Queued
<1>4. Pending \subseteq Pending'
    BY <1>2 DEF Pending
<1> QED
    BY <1>2, <1>3, <1>4

\* What an agent comes to owe by a publish is put into its queue.
LEMMA PublishQueues ==
    ASSUME Typed, NEW kind \in Kinds, NEW to \in Agents \cup {"anyone"}, Publish(kind, to),
           NEW a \in Agents
    PROVE  owed'[a] \subseteq owed[a] \cup Queued(a)'
<1> DEFINE e == Of(kind, to)
<1>1. e \in Event /\ e.id = next
    BY PublishTyped DEF Of
<1>2. CASE stage[a] \in Live /\ ~closed /\ Wakes(a, e)
    <2>1. owed'[a] = owed[a] \cup {next} /\ rx'[a] = Append(rx[a], e)
        BY <1>2 DEF Typed, Publish, FanOut, Subscribed
    <2>2. rx[a] \in Seq(Event)
        BY DEF Typed
    <2>3. Len(rx[a]) + 1 \in DOMAIN rx'[a] /\ rx'[a][Len(rx[a]) + 1] = e
        BY <1>1, <2>1, <2>2
    <2>4. next \in Queued(a)'
        BY <1>1, <2>3 DEF Queued
    <2> QED
        BY <2>1, <2>4
<1>3. CASE ~(stage[a] \in Live /\ ~closed /\ Wakes(a, e))
    BY <1>3 DEF Typed, Publish
<1> QED
    BY <1>2, <1>3

\* A publish by whomever loses no wake event.
LEMMA PublishWakes ==
    ASSUME Typed, WakeInv, NEW kind \in Kinds, NEW to \in Agents \cup {"anyone"},
           Publish(kind, to), stage' = stage
    PROVE  WakeInv'
<1>1. ASSUME NEW a \in Agents
      PROVE  /\ owed'[a] \subseteq owed[a] \cup Queued(a)'
             /\ Queued(a) \subseteq Queued(a)'
    BY PublishQueues, PublishGrows
<1>2. Pending \subseteq Pending'
    BY PublishGrows
<1>3. SeenInLog'
    BY <1>1, <1>2 DEF WakeInv, SeenInLog
<1>4. Waits'
    BY <1>1 DEF WakeInv, Waits
<1> QED
    BY <1>3, <1>4 DEF WakeInv

\* A publish gives the event a later name than all there is.
LEMMA PublishNames ==
    ASSUME Typed, NamesGrow, NEW kind \in Kinds, NEW to \in Agents \cup {"anyone"},
           Publish(kind, to), beat' \in {beat, next}
    PROVE  NamesGrow'
<1>1. Of(kind, to) \in Event /\ Of(kind, to).id = next /\ next' = next + 1
    BY PublishTyped DEF Publish, Of
<1>2. beat' < next'
    BY <1>1 DEF Typed, NamesGrow
<1>3. ASSUME NEW i \in DOMAIN log' PROVE log'[i].id < next'
    <2>1. CASE i \in DOMAIN log
        <3>1. log'[i] = log[i]
            BY <2>1, PublishGrows
        <3>2. log[i] \in Event /\ log[i].id < next
            BY <2>1 DEF Typed, NamesGrow
        <3> QED
            BY <1>1, <3>1, <3>2 DEF Typed, Event
    <2>2. CASE i \notin DOMAIN log
        <3>1. i = Len(log) + 1
            BY <2>2, PublishTyped, PublishGrows DEF Typed
        <3> QED
            BY <1>1, <3>1, PublishGrows DEF Typed
    <2> QED
        BY <2>1, <2>2
<1> QED
    BY <1>2, <1>3 DEF NamesGrow

-----------------------------------------------------------------------------
(* The steps of the bus.                                                   *)

\* Messages from outside.
LEMMA InputStep == LoopInv /\ Input => LoopInv'
<1> SUFFICES ASSUME LoopInv, Input PROVE LoopInv'
    OBVIOUS
<1>1. PICK kind \in Kinds, to \in Agents \cup {"anyone"} : Publish(kind, to)
    BY DEF Input, Kinds
<1>2. /\ UNCHANGED <<limit, closed, stage, pausing, sched, bookmark, beat, shortened>>
    BY DEF Input, setVars, schedVars
<1>3. Typed'
    BY <1>1, <1>2, PublishTyped DEF LoopInv, Typed
<1>4. WakeInv'
    BY <1>1, <1>2, PublishWakes DEF LoopInv
<1>5. NamesGrow'
    BY <1>1, <1>2, PublishNames DEF LoopInv, HeardInv
<1>6. BookmarkInLog' /\ Older'
    <2>1. Len(log') = Len(log) + 1 /\ \A i \in DOMAIN log : log'[i] = log[i]
        BY <1>1, PublishGrows DEF LoopInv
    <2>2. BookmarkInLog'
        BY <1>2, <2>1 DEF LoopInv, Typed, HeardInv, BookmarkInLog
    <2>3. ASSUME ~shortened, NEW i \in 1..bookmark PROVE log'[i] = log[i]
        <3>1. i \in DOMAIN log
            BY <2>3 DEF LoopInv, Typed, HeardInv, BookmarkInLog
        <3> QED
            BY <2>1, <3>1
    <2>4. Older'
        BY <1>2, <2>3 DEF LoopInv, HeardInv, Older, Activity
    <2> QED
        BY <2>2, <2>4
<1> QED
    BY <1>3, <1>4, <1>5, <1>6 DEF LoopInv, HeardInv

\* A rollback: what it takes off the log is owed no more.
LEMMA RollbackStep == LoopInv /\ Rollback => LoopInv'
<1> SUFFICES ASSUME LoopInv, Rollback PROVE LoopInv'
    OBVIOUS
<1>1. PICK k \in 0..Len(log) - 1 :
         /\ log' = SubSeq(log, 1, k)
         /\ owed' = [a \in Agents |-> owed[a] \ {log[i].id : i \in k + 1..Len(log)}]
    BY DEF Rollback
<1>2. UNCHANGED <<limit, next, closed, rx, stage, pausing, sched, bookmark, beat>> /\ shortened'
    BY DEF Rollback, setVars, schedVars
<1>3. /\ log' \in Seq(Event)
      /\ DOMAIN log' = 1..k
      /\ \A i \in 1..k : i \in DOMAIN log /\ log'[i] = log[i]
    BY <1>1 DEF LoopInv, Typed
<1>4. Typed'
    BY <1>1, <1>2, <1>3 DEF LoopInv, Typed
<1>5. \A a \in Agents : Queued(a)' = Queued(a) /\ owed'[a] \subseteq owed[a]
    BY <1>1, <1>2 DEF Queued, LoopInv, Typed
<1>6. ASSUME NEW a \in Agents, NEW id \in owed'[a], id \in Pending PROVE id \in Pending'
    <2>1. PICK i \in DOMAIN log : log[i].kind # "agent.message" /\ log[i].id = id
        BY <1>6 DEF Pending
    <2>2. i \notin k + 1..Len(log)
        BY <1>1, <2>1
    <2>3. i \in 1..k
        BY <2>1, <2>2 DEF LoopInv, Typed
    <2> QED
        BY <1>3, <2>1, <2>3 DEF Pending
<1>7. WakeInv'
    <2>1. SeenInLog'
        BY <1>2, <1>5, <1>6 DEF LoopInv, WakeInv, SeenInLog
    <2>2. Waits'
        BY <1>2, <1>5 DEF LoopInv, WakeInv, Waits
    <2> QED
        BY <2>1, <2>2 DEF WakeInv
<1>8. HeardInv'
    BY <1>2, <1>3 DEF LoopInv, HeardInv, NamesGrow, BookmarkInLog, Older
<1> QED
    BY <1>4, <1>7, <1>8 DEF LoopInv

-----------------------------------------------------------------------------
(* The steps of an agent.                                                  *)

\* A step of agents that leaves the log and the scheduler alone has no part in
\* what the scheduler hears.
LEMMA SchedulerUntouched ==
    ASSUME LoopInv, UNCHANGED <<log, next, sched, bookmark, beat, shortened>>
    PROVE  HeardInv' /\ Pending' = Pending
BY DEF LoopInv, HeardInv, NamesGrow, BookmarkInLog, Older, Pending, Activity

\* The steps that move neither the bus nor an agent nor the scheduler.
LEMMA NothingMoves ==
    ASSUME LoopInv, closed' \in BOOLEAN,
           UNCHANGED <<limit, log, next, rx, stage, pausing, owed, sched, bookmark, beat,
                       shortened>>
    PROVE  LoopInv'
<1>1. Typed'
    BY DEF LoopInv, Typed
<1>2. HeardInv' /\ Pending' = Pending
    BY SchedulerUntouched
<1>3. WakeInv'
    BY <1>2 DEF LoopInv, WakeInv, SeenInLog, Waits, Queued
<1> QED
    BY <1>1, <1>2, <1>3 DEF LoopInv

\* The task of an agent ends.
LEMMA EndStep ==
    ASSUME LoopInv, NEW a \in Agents, NEW how \in Ended, End(a, how), agentFrame
    PROVE  LoopInv'
<1>1. UNCHANGED <<limit, closed, log, next, sched, bookmark, beat, shortened>>
    BY DEF agentFrame, schedVars, End
<1>2. Typed'
    BY <1>1 DEF LoopInv, Typed, End, Stages
<1>3. HeardInv' /\ Pending' = Pending
    BY <1>1, SchedulerUntouched
<1>4. \A b \in Agents : /\ b # a => stage'[b] = stage[b] /\ owed'[b] = owed[b] /\ rx'[b] = rx[b]
                        /\ stage'[a] = how /\ owed'[a] = {}
    BY DEF LoopInv, Typed, End
<1>5. WakeInv'
    BY <1>3, <1>4 DEF LoopInv, WakeInv, SeenInLog, Waits, Queued, Ended
<1> QED
    BY <1>2, <1>3, <1>5 DEF LoopInv

\* The steps that keep every queue, one agent's stage and what it owes aside.
LEMMA StageStep ==
    ASSUME LoopInv, NEW a \in Agents, NEW s \in Stages, NEW o \in SUBSET Nat,
           stage' = [stage EXCEPT ![a] = s], owed' = [owed EXCEPT ![a] = o],
           pausing' \in [Agents -> BOOLEAN],
           UNCHANGED <<limit, closed, log, next, rx, sched, bookmark, beat, shortened>>,
           s = "subscribed" => o \subseteq Pending \cup Queued(a),
           s \notin {"subscribed", "acquiring", "starting"} => o \subseteq Queued(a)
    PROVE  LoopInv'
<1>1. Typed'
    BY DEF LoopInv, Typed
<1>2. HeardInv' /\ Pending' = Pending
    BY SchedulerUntouched
<1>3. /\ stage'[a] = s /\ owed'[a] = o
      /\ \A b \in Agents \ {a} : stage'[b] = stage[b] /\ owed'[b] = owed[b]
      /\ \A b \in Agents : Queued(b)' = Queued(b)
    BY DEF LoopInv, Typed, Queued
<1>4. WakeInv'
    BY <1>2, <1>3 DEF LoopInv, WakeInv, SeenInLog, Waits
<1> QED
    BY <1>1, <1>2, <1>4 DEF LoopInv

\* Subscribing: what the log holds is owed, and will be looked at.
LEMMA SubscribeStep ==
    ASSUME LoopInv, NEW a \in Agents, Subscribe(a) PROVE LoopInv'
<1> DEFINE s == IF Limited THEN "listening" ELSE "subscribed"
           o == IF Limited THEN {} ELSE Pending
<1>1. s \in Stages /\ o \in SUBSET Nat
    <2>1. Pending \subseteq Nat
        <3>1. \A i \in DOMAIN log : log[i] \in Event
            BY DEF LoopInv, Typed
        <3> QED
            BY <3>1 DEF Pending, Event
    <2> QED
        BY <2>1 DEF Stages, Live
<1>2. /\ stage' = [stage EXCEPT ![a] = s] /\ owed' = [owed EXCEPT ![a] = o]
      /\ UNCHANGED <<limit, closed, log, next, rx, sched, bookmark, beat, shortened>>
      /\ pausing' \in [Agents -> BOOLEAN]
    BY DEF LoopInv, Typed, Subscribe, agentFrame, schedVars
<1>3. /\ s = "subscribed" => o \subseteq Pending \cup Queued(a)
      /\ s \notin {"subscribed", "acquiring", "starting"} => o \subseteq Queued(a)
    OBVIOUS
<1> HIDE DEF s, o
<1> QED
    BY <1>1, <1>2, <1>3, StageStep

\* The look at the log: if it holds nothing, all that is owed is in the queue.
LEMMA CheckPendingStep ==
    ASSUME LoopInv, NEW a \in Agents, CheckPending(a) PROVE LoopInv'
<1> DEFINE s == IF Pending # {} THEN "starting" ELSE "listening"
<1>1. s \in Stages /\ owed[a] \in SUBSET Nat
    BY DEF LoopInv, Typed, Stages, Live
<1>2. /\ stage' = [stage EXCEPT ![a] = s] /\ owed' = [owed EXCEPT ![a] = owed[a]]
      /\ UNCHANGED <<limit, closed, log, next, rx, sched, bookmark, beat, shortened>>
      /\ pausing' \in [Agents -> BOOLEAN]
    BY DEF LoopInv, Typed, CheckPending, agentFrame, schedVars
<1>3. /\ s = "subscribed" => owed[a] \subseteq Pending \cup Queued(a)
      /\ s \notin {"subscribed", "acquiring", "starting"} => owed[a] \subseteq Queued(a)
    BY DEF LoopInv, WakeInv, SeenInLog, CheckPending
<1> HIDE DEF s
<1> QED
    BY <1>1, <1>2, <1>3, StageStep

\* Taking a wake event: a cycle follows, or it is dropped in the pause and owed
\* no more.
LEMMA TakeStep ==
    ASSUME LoopInv, NEW a \in Agents, Take(a) PROVE LoopInv'
<1>1. /\ rx[a] \in Seq(Event) /\ rx[a] # <<>>
      /\ rx' = [rx EXCEPT ![a] = Tail(rx[a])]
      /\ UNCHANGED <<limit, closed, log, next, pausing, sched, bookmark, beat, shortened>>
    BY DEF LoopInv, Typed, Take, agentFrame, schedVars
<1>2. Tail(rx[a]) \in Seq(Event)
    BY <1>1
<1>3. Queued(a) \subseteq {Head(rx[a]).id} \cup Queued(a)'
    <2>1. rx'[a] = Tail(rx[a])
        BY <1>1 DEF LoopInv, Typed
    <2>2. \A i \in DOMAIN rx[a] : i = 1 \/ (i - 1 \in DOMAIN Tail(rx[a]) /\ Tail(rx[a])[i - 1] = rx[a][i])
        BY <1>1
    <2>3. Head(rx[a]) = rx[a][1]
        BY <1>1
    <2> QED
        BY <2>1, <2>2, <2>3 DEF Queued
<1>4. \A b \in Agents \ {a} : Queued(b)' = Queued(b)
    BY <1>1 DEF LoopInv, Typed, Queued
<1>5. HeardInv' /\ Pending' = Pending
    BY <1>1, SchedulerUntouched
<1>6. CASE pausing[a]
    <2>1. owed' = [owed EXCEPT ![a] = @ \ {Head(rx[a]).id}] /\ stage' = stage
        BY <1>6 DEF Take
    <2>2. Typed'
        BY <1>1, <1>2, <2>1 DEF LoopInv, Typed
    <2>3. /\ owed'[a] = owed[a] \ {Head(rx[a]).id}
          /\ \A b \in Agents \ {a} : owed'[b] = owed[b]
          /\ stage[a] = "listening"
        BY <2>1 DEF LoopInv, Typed, Take
    <2>4. WakeInv'
        BY <1>3, <1>4, <1>5, <2>1, <2>3 DEF LoopInv, WakeInv, SeenInLog, Waits
    <2> QED
        BY <1>5, <2>2, <2>4 DEF LoopInv
<1>7. CASE ~pausing[a]
    <2>1. PICK s \in {"acquiring", "starting"} :
             stage' = [stage EXCEPT ![a] = s] /\ owed' = owed
        BY <1>7 DEF Take
    <2>2. Typed'
        BY <1>1, <1>2, <2>1 DEF LoopInv, Typed, Stages, Live
    <2>3. stage'[a] = s /\ \A b \in Agents \ {a} : stage'[b] = stage[b]
        BY <2>1 DEF LoopInv, Typed
    <2>4. WakeInv'
        BY <1>4, <1>5, <2>1, <2>3 DEF LoopInv, WakeInv, SeenInLog, Waits
    <2> QED
        BY <1>5, <2>2, <2>4 DEF LoopInv
<1> QED
    BY <1>6, <1>7

\* The steps between the start of a cycle and its end, and the pause.
LEMMA CycleStep ==
    ASSUME LoopInv, NEW a \in Agents,
           PauseOver(a) \/ Acquire(a) \/ CycleReads(a) \/ CycleEnd(a)
    PROVE  LoopInv'
<1>1. /\ UNCHANGED <<limit, closed, log, next, rx, sched, bookmark, beat, shortened>>
      /\ pausing' \in [Agents -> BOOLEAN]
    BY DEF LoopInv, Typed, PauseOver, Acquire, CycleReads, CycleEnd, agentFrame, schedVars
<1>2. owed[a] \in SUBSET Nat /\ stage[a] \in Stages
    BY DEF LoopInv, Typed
<1>3. CASE PauseOver(a)
    <2>1. stage' = [stage EXCEPT ![a] = stage[a]] /\ owed' = [owed EXCEPT ![a] = owed[a]]
        BY <1>3 DEF LoopInv, Typed, PauseOver
    <2>2. /\ stage[a] = "subscribed" => owed[a] \subseteq Pending \cup Queued(a)
          /\ stage[a] \notin {"subscribed", "acquiring", "starting"} => owed[a] \subseteq Queued(a)
        BY DEF LoopInv, WakeInv, SeenInLog, Waits
    <2> QED
        BY <1>1, <1>2, <2>1, <2>2, StageStep
<1>4. CASE Acquire(a)
    <2>1. stage' = [stage EXCEPT ![a] = "starting"] /\ owed' = [owed EXCEPT ![a] = owed[a]]
        BY <1>4 DEF LoopInv, Typed, Acquire
    <2> QED
        BY <1>1, <1>2, <2>1, StageStep DEF Stages, Live
<1>5. CASE CycleReads(a)
    <2>1. stage' = [stage EXCEPT ![a] = "cycling"] /\ owed' = [owed EXCEPT ![a] = {}]
        BY <1>5 DEF CycleReads
    <2> QED
        BY <1>1, <2>1, StageStep DEF Stages, Live
<1>6. CASE CycleEnd(a)
    <2>1. stage' = [stage EXCEPT ![a] = "listening"] /\ owed' = [owed EXCEPT ![a] = owed[a]]
        BY <1>6 DEF LoopInv, Typed, CycleEnd
    <2>2. owed[a] \subseteq Queued(a)
        BY <1>6 DEF LoopInv, WakeInv, Waits, CycleEnd
    <2> QED
        BY <1>1, <1>2, <2>1, <2>2, StageStep DEF Stages, Live
<1> QED
    BY <1>3, <1>4, <1>5, <1>6

\* A cycle that fails goes on listening, or is the end of the task.
LEMMA CycleFailsStep ==
    ASSUME LoopInv, NEW a \in Agents, CycleFails(a) PROVE LoopInv'
<1>1. CASE End(a, "failed")
    BY <1>1, EndStep DEF CycleFails, Ended
<1>2. CASE /\ stage' = [stage EXCEPT ![a] = "listening"]
           /\ pausing' = [pausing EXCEPT ![a] = TRUE]
           /\ UNCHANGED <<log, next, rx, owed>>
    <2>1. /\ UNCHANGED <<limit, closed, log, next, rx, sched, bookmark, beat, shortened>>
          /\ pausing' \in [Agents -> BOOLEAN]
        BY <1>2 DEF LoopInv, Typed, CycleFails, agentFrame, schedVars
    <2>2. owed[a] \in SUBSET Nat /\ owed' = [owed EXCEPT ![a] = owed[a]]
        BY <1>2 DEF LoopInv, Typed
    <2>3. owed[a] \subseteq Queued(a)
        BY DEF LoopInv, WakeInv, Waits, CycleFails
    <2> QED
        BY <1>2, <2>1, <2>2, <2>3, StageStep DEF Stages, Live
<1> QED
    BY <1>1, <1>2 DEF CycleFails

\* Every step of an agent's task.
LEMMA AgentStep ==
    ASSUME LoopInv, NEW a \in Agents, Step(a) PROVE LoopInv'
<1>1. CASE Subscribe(a)
    BY <1>1, SubscribeStep
<1>2. CASE CheckPending(a)
    BY <1>2, CheckPendingStep
<1>3. CASE Take(a)
    BY <1>3, TakeStep
<1>4. CASE Acquire(a) \/ CycleReads(a) \/ CycleEnd(a)
    BY <1>4, CycleStep
<1>5. CASE CycleFails(a)
    BY <1>5, CycleFailsStep
<1>6. CASE Exit(a)
    BY <1>6, EndStep DEF Exit, Ended
<1>7. CASE Panic(a)
    BY <1>7, EndStep DEF Panic, Ended
<1>8. CASE Abort(a)
    BY <1>8, EndStep DEF Abort, Ended
<1>9. CASE Join(a)
    BY <1>9, NothingMoves DEF Join, LoopInv, Typed, agentVars, schedVars
<1> QED
    BY <1>1, <1>2, <1>3, <1>4, <1>5, <1>6, <1>7, <1>8, <1>9 DEF Step

-----------------------------------------------------------------------------
(* The steps of the scheduler.                                             *)

\* A tick that finds activity, and the bookmark that follows it.
LEMMA TickStep == LoopInv /\ (Tick \/ Mark("active", "marked")) => LoopInv'
<1> SUFFICES ASSUME LoopInv, Tick \/ Mark("active", "marked") PROVE LoopInv'
    OBVIOUS
<1>1. UNCHANGED <<limit, closed, log, next, stage, pausing, rx, owed, beat>>
    BY DEF Tick, Mark, schedFrame
<1>2. Len(log) \in Nat
    BY DEF LoopInv, Typed
<1>3. Typed'
    BY <1>1, <1>2 DEF LoopInv, Typed, Tick, Mark
<1>4. WakeInv'
    BY <1>1 DEF LoopInv, WakeInv, SeenInLog, Waits, Queued, Pending
<1>5. HeardInv'
    <2>1. NamesGrow'
        BY <1>1 DEF LoopInv, HeardInv, NamesGrow
    <2>2. BookmarkInLog' /\ Older'
        BY <1>1, <1>2 DEF LoopInv, Typed, HeardInv, BookmarkInLog, Older, Activity, Tick, Mark
    <2> QED
        BY <2>1, <2>2 DEF HeardInv
<1> QED
    BY <1>3, <1>4, <1>5 DEF LoopInv

\* The heartbeat: what lies below the bookmark was there before it.
LEMMA BeatStep == LoopInv /\ Beat("marked", "ticking") => LoopInv'
<1> SUFFICES ASSUME LoopInv, Beat("marked", "ticking") PROVE LoopInv'
    OBVIOUS
<1>1. "system.heartbeat" \in Kinds /\ Publish("system.heartbeat", "anyone")
    BY DEF Beat, Kinds
<1>2. /\ UNCHANGED <<limit, closed, stage, pausing, bookmark, shortened>>
      /\ sched' = "ticking" /\ beat' = next
    BY DEF Beat, schedFrame
<1>3. Typed'
    BY <1>1, <1>2, PublishTyped DEF LoopInv, Typed
<1>4. WakeInv'
    BY <1>1, <1>2, PublishWakes DEF LoopInv
<1>5. NamesGrow'
    BY <1>1, <1>2, PublishNames DEF LoopInv, HeardInv
<1>6. BookmarkInLog' /\ Older'
    <2>1. Len(log') = Len(log) + 1 /\ \A i \in DOMAIN log : log'[i] = log[i]
        BY <1>1, PublishGrows DEF LoopInv
    <2>2. BookmarkInLog'
        BY <1>2, <2>1 DEF LoopInv, Typed, HeardInv, BookmarkInLog
    <2>3. ASSUME ~shortened, NEW i \in 1..bookmark PROVE log'[i].id < beat'
        <3>1. i \in DOMAIN log
            BY <2>3 DEF LoopInv, Typed, HeardInv, BookmarkInLog
        <3> QED
            BY <1>2, <2>1, <3>1 DEF LoopInv, HeardInv, NamesGrow
    <2> QED
        BY <1>2, <2>2, <2>3 DEF Older
<1> QED
    BY <1>3, <1>4, <1>5, <1>6 DEF LoopInv, HeardInv

-----------------------------------------------------------------------------
(* The invariant and what follows from it.                                 *)

\* The invariant is preserved by every step.
THEOREM LoopNext == LoopInv /\ [Next]_vars => LoopInv'
<1> SUFFICES ASSUME LoopInv, [Next]_vars PROVE LoopInv'
    OBVIOUS
<1>1. CASE Input
    BY <1>1, InputStep
<1>2. CASE Rollback
    BY <1>2, RollbackStep
<1>3. CASE Close
    BY <1>3, NothingMoves DEF Close, agentVars, schedVars
<1>4. CASE \E a \in Agents : Step(a) \/ PauseOver(a)
    BY <1>4, AgentStep, CycleStep
<1>5. CASE Tick \/ Emit
    BY <1>5, TickStep, BeatStep DEF Emit
<1>6. CASE UNCHANGED vars
    BY <1>6, NothingMoves DEF vars, LoopInv, Typed
<1> QED
    BY <1>1, <1>2, <1>3, <1>4, <1>5, <1>6 DEF Next

\* It holds in every state the agents, the set and the scheduler can reach.
THEOREM LoopInvariant == Spec => []LoopInv
<1> QED
    BY LoopInit, LoopNext, PTL DEF Spec

\* No order of subscribing, looking at the log, publishing, rolling back and
\* waiting for a permit loses a message an agent is there to answer.
THEOREM NoWakeIsLost == Spec => []NoWakeLost
<1>1. LoopInv => NoWakeLost
    BY DEF LoopInv, WakeInv, Waits, NoWakeLost, Queued
<1> QED
    BY <1>1, LoopInvariant, PTL

\* The scheduler skips a tick only if nothing happened since the last heartbeat,
\* as long as no rollback has moved the log under its bookmark.
THEOREM SchedulerHears == Spec => []NothingPassedOver
<1>1. LoopInv => NothingPassedOver
    BY DEF LoopInv, HeardInv, Older, NothingPassedOver, ActivityIsHeard
<1> QED
    BY <1>1, LoopInvariant, PTL
=============================================================================
