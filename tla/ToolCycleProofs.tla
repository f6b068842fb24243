--------------------------- MODULE ToolCycleProofs ---------------------------
(***************************************************************************)
(* What holds of turns, their tool calls and their repair for any tools,   *)
(* limits and bounds.                                                      *)
(***************************************************************************)
EXTENDS ToolCycle, SequenceTheorems, WellFoundedInduction, TLAPS

-----------------------------------------------------------------------------
(* The shape of a turn's locals.                                           *)

Planning == cycle.pc \in {"propose", "hook", "asking"}
Executing == cycle.pc \in {"running", "publish"}

\* The calls of a cycle are the last the model has asked for; each has an entry
\* in `veto` once it is planned. A turn and a repair are never at work at once.
Shape ==
    /\ ~Planning /\ ~Executing => cycle.calls = <<>> /\ cycle.veto = <<>> /\ cycle.at = 1
    /\ Planning \/ Executing => cycle.at <= Len(cycle.calls)
    /\ Planning => Len(cycle.veto) = cycle.at - 1
    /\ Executing => Len(cycle.veto) = Len(cycle.calls)
    /\ At("running") => cycle.at = 1
    /\ Len(cycle.calls) <= Len(tool)
    /\ \A k \in DOMAIN cycle.calls :
         cycle.calls[k] = Len(tool) - Len(cycle.calls) + k
    /\ ~Executing => task = NoTasks
    /\ ~At("idle") => rec = Off /\ session = "open"
    /\ rec.pc \in {"off", "scan"} => rec.todo = {}
    /\ rec.pc = "replay" => rec.todo # {}
    /\ rec = Off => session \in {"open", "refused"}

Typed == TTypeOK /\ Shape

\* What the cycle and the repair publish are events.
LEMMA EventTypes ==
    /\ User \in EventType
    /\ \A calls \in Seq(CallId) : Assistant(calls) \in EventType
    /\ \A c \in CallId : Proposed(c) \in EventType
    /\ \A c \in CallId, o \in Outcomes : Result(c, o) \in EventType
<1>1. \A c \in CallId : <<c>> \in Seq(CallId) /\ Len(<<c>>) = 1
  OBVIOUS
<1> QED
  BY <1>1 DEF EventType, User, Assistant, Proposed, Result, Event, Outcomes

\* A new session is typed.
LEMMA InitTyped == TInit => Typed
<1> SUFFICES ASSUME TInit PROVE Typed
  OBVIOUS
<1>1. TTypeOK
  <2>1. Idle \in CycleType
    BY BoundsAssumption DEF Idle, CycleType
  <2>2. log = <<>> /\ tool = <<>> /\ cycle = Idle /\ task = NoTasks
    BY DEF TInit
  <2>3. NoTasks \in [CallId -> {"none", "waiting", "running", "ok", "error", "panic"}]
    BY DEF NoTasks
  <2>4. /\ Off \in [pc : {"off", "scan", "decide", "replay"}, todo : SUBSET (1..Len(log))]
        /\ session \in {"open", "opening", "refused"}
        /\ cancelling \in BOOLEAN
    BY DEF TInit, Off
  <2>5. asked \subseteq CallId /\ approved \subseteq CallId /\ runs \in [CallId -> Nat]
    BY DEF TInit
  <2>6. /\ saved \in 0..Len(log)
        /\ stops \in [cancels : 0..MaxCancels, restarts : 0..MaxRestarts]
        /\ Len(tool) <= MaxCalls
    BY <2>2, BoundsAssumption DEF TInit
  <2>7. rec = Off
    BY DEF TInit
  <2> QED
    BY <2>1, <2>2, <2>3, <2>4, <2>5, <2>6, <2>7 DEF TTypeOK
<1>2. Shape
  BY DEF TInit, Shape, Planning, Executing, At, Idle, Off
<1> QED
  BY <1>1, <1>2 DEF Typed

\* A response brings calls of its own, numbered on from the last.
LEMMA ResponseTyped ==
    ASSUME TTypeOK, NEW batch \in Batches, Responds(batch)
    PROVE  LET calls == [i \in DOMAIN batch |-> Len(tool) + i]
           IN  /\ tool' \in Seq(Tools) /\ Len(tool') <= MaxCalls
               /\ Len(tool') = Len(tool) + Len(batch)
               /\ \A c \in 1..Len(tool) : tool'[c] = tool[c]
               /\ calls \in Seq(CallId) /\ Len(calls) = Len(batch) /\ Len(batch) \in Nat
               /\ log' \in Seq(EventType)
<1> DEFINE calls == [i \in DOMAIN batch |-> Len(tool) + i]
<1>1. PICK n \in 0..MaxBatch : batch \in [1..n -> Tools]
  BY DEF Batches
<1>2. batch \in Seq(Tools) /\ Len(batch) = n /\ n \in Nat /\ DOMAIN batch = 1..n
  BY <1>1, BoundsAssumption
<1>3. tool \in Seq(Tools) /\ MaxCalls \in Nat /\ Len(tool) + n <= MaxCalls
  BY <1>2, BoundsAssumption DEF TTypeOK, Responds
<1>4. calls \in [1..n -> CallId]
  BY <1>2, <1>3 DEF CallId
<1>5. calls \in Seq(CallId) /\ Len(calls) = n
  <2> HIDE DEF calls
  <2> QED
    BY <1>4, <1>2
<1>6. /\ tool' \in Seq(Tools) /\ Len(tool') = Len(tool) + n
      /\ \A c \in 1..Len(tool) : tool'[c] = tool[c]
  BY <1>2, <1>3 DEF Responds
<1>7. log' \in Seq(EventType)
  <2>1. Assistant(calls) \in EventType
    BY <1>5, EventTypes
  <2> QED
    BY <2>1 DEF Responds, TTypeOK
<1> QED
  BY <1>2, <1>3, <1>5, <1>6, <1>7

Vetoes == {"none", "denied", "aborted"}

\* What the definitions of types say of a turn's locals.
LEMMA Locals ==
    ASSUME Typed
    PROVE  /\ cycle \in CycleType
           /\ cycle.calls \in Seq(CallId) /\ cycle.veto \in Seq(Vetoes)
           /\ cycle.at \in Nat \ {0} /\ Len(cycle.calls) \in Nat /\ Len(tool) \in Nat
           /\ Planning \/ Executing => Current \in CallId /\ Current <= Len(tool)
<1>1. /\ cycle \in CycleType
      /\ cycle.calls \in Seq(CallId) /\ cycle.veto \in Seq(Vetoes)
      /\ cycle.at \in Nat \ {0} /\ Len(cycle.calls) \in Nat /\ Len(tool) \in Nat
  BY DEF Typed, TTypeOK, CycleType, Vetoes
<1>2. ASSUME Planning \/ Executing
      PROVE  Current \in CallId /\ Current <= Len(tool)
  <2>1. cycle.at \in DOMAIN cycle.calls
    BY <1>1, <1>2 DEF Typed, Shape
  <2>2. Current = Len(tool) - Len(cycle.calls) + cycle.at
    BY <2>1 DEF Typed, Shape, Current
  <2> QED
    BY <1>1, <2>1, <2>2 DEF Current
<1> QED
  BY <1>1, <1>2

\* A call is planned.
LEMMA PlanTyped ==
    ASSUME Typed, Planning, NEW v \in Vetoes, Plan(v),
           UNCHANGED <<tool, rec, session>>
    PROVE  /\ cycle' \in CycleType
           /\ task' \in [CallId -> {"none", "waiting", "running", "ok", "error", "panic"}]
           /\ Shape'
<1> DEFINE veto == Append(cycle.veto, VetoOf(v))
           last == cycle.at = Len(cycle.calls)
           pc == IF last THEN "running" ELSE "propose"
           at == IF last THEN 1 ELSE cycle.at + 1
           aborted == cycle.aborted \/ VetoOf(v) = "aborted"
<1>1. VetoOf(v) \in Vetoes
  BY DEF VetoOf, Vetoes
<1>2. veto \in Seq(Vetoes) /\ Len(veto) = Len(cycle.veto) + 1
  BY <1>1, Locals
<1>3. cycle' = [cycle EXCEPT !.pc = pc, !.at = at, !.veto = veto, !.aborted = aborted]
  BY DEF Plan
<1>4. cycle' \in CycleType
  <2>1. /\ pc \in {"propose", "running"} /\ aborted \in BOOLEAN
        /\ at \in Nat \ {0}
    BY Locals
  <2>2. cycle \in CycleType /\ veto \in Seq({"none", "denied", "aborted"})
    BY <1>2, Locals DEF Vetoes
  <2> HIDE DEF veto, aborted, pc, at
  <2> QED
    BY <1>3, <2>1, <2>2 DEF CycleType
<1> HIDE DEF veto
<1>5. task' \in [CallId -> {"none", "waiting", "running", "ok", "error", "panic"}]
  BY DEF Plan, Typed, TTypeOK
<1>6. /\ cycle'.calls = cycle.calls /\ cycle'.veto = veto
      /\ cycle'.pc = IF last THEN "running" ELSE "propose"
      /\ cycle'.at = IF last THEN 1 ELSE cycle.at + 1
  BY <1>3, Locals DEF CycleType
<1>7. cycle.at <= Len(cycle.calls) /\ Len(cycle.veto) = cycle.at - 1 /\ ~Executing /\ ~At("idle")
  BY DEF Typed, Shape, Planning, Executing, At
<1>8. ~last => task' = task
  BY DEF Plan
<1>9. Shape'
  BY <1>2, <1>6, <1>7, <1>8, Locals DEF Typed, Shape, Planning, Executing, At
<1> QED
  BY <1>4, <1>5, <1>9

\* The locals of a cycle that is not running, spelled out.
LEMMA IdleIs ==
    /\ Idle \in CycleType
    /\ Idle.pc = "idle" /\ Idle.calls = <<>> /\ Idle.veto = <<>> /\ Idle.step = 0
    /\ Idle.at = 1
    /\ Idle.aborted = FALSE /\ Idle.terminal = FALSE
    /\ NoTasks \in [CallId -> {"none", "waiting", "running", "ok", "error", "panic"}]
<1>1. Idle \in CycleType
  BY BoundsAssumption DEF Idle, CycleType
<1> QED
  BY <1>1 DEF Idle, NoTasks

\* The end of a cycle, of a step, and of what is dropped: nothing is at work.
LEMMA Rested ==
    ASSUME cycle'.pc \in {"idle", "step", "llm", "wrapup"},
           cycle'.calls = <<>>, cycle'.veto = <<>>, cycle'.at = 1, task' = NoTasks,
           Len(tool)' \in Nat,
           cycle'.pc # "idle" => rec' = Off /\ session' = "open",
           /\ rec'.pc \in {"off", "scan"} => rec'.todo = {}
           /\ rec'.pc = "replay" => rec'.todo # {}
           /\ rec' = Off => session' \in {"open", "refused"}
    PROVE  Shape'
<1>1. ~Planning' /\ ~Executing' /\ (At("idle")' <=> cycle'.pc = "idle") /\ ~At("running")'
  BY DEF Planning, Executing, At
<1> QED
  BY <1>1 DEF Shape

TaskType == [CallId -> {"none", "waiting", "running", "ok", "error", "panic"}]

\* The rest of the state: the log, the repair and the record of what was done.
Book ==
    /\ log \in Seq(EventType)
    /\ tool \in Seq(Tools) /\ Len(tool) <= MaxCalls
    /\ rec \in [pc : {"off", "scan", "decide", "replay"}, todo : SUBSET (1..Len(log))]
    /\ session \in {"open", "opening", "refused"}
    /\ cancelling \in BOOLEAN
    /\ asked \subseteq CallId /\ approved \subseteq CallId
    /\ runs \in [CallId -> Nat]
    /\ saved \in 0..Len(log)
    /\ stops \in [cancels : 0..MaxCancels, restarts : 0..MaxRestarts]

\* The type invariant taken apart, in this state and the next.
LEMMA TypedParts ==
    /\ Typed <=> cycle \in CycleType /\ task \in TaskType /\ Book /\ Shape
    /\ Typed' <=> cycle' \in CycleType /\ task' \in TaskType /\ Book' /\ Shape'
BY DEF Typed, TTypeOK, Book, TaskType

\* A log that grows keeps the book in order.
LEMMA LogGrows ==
    ASSUME Book, NEW e \in EventType, log' = Append(log, e) \/ log' = log
    PROVE  /\ log' \in Seq(EventType) /\ Len(log') \in Nat /\ Len(log') >= Len(log)
           /\ rec \in [pc : {"off", "scan", "decide", "replay"}, todo : SUBSET (1..Len(log'))]
           /\ saved \in 0..Len(log')
<1>1. log \in Seq(EventType) /\ Len(log) \in Nat
  BY DEF Book
<1>2. log' \in Seq(EventType) /\ Len(log') \in Nat /\ Len(log') >= Len(log)
  BY <1>1
<1>3. 1..Len(log) \subseteq 1..Len(log') /\ 0..Len(log) \subseteq 0..Len(log')
  BY <1>1, <1>2
<1> QED
  BY <1>2, <1>3 DEF Book

\* What a turn does of itself to the book.
LEMMA BookKept ==
    ASSUME Book, NEW e \in EventType, log' = Append(log, e) \/ log' = log,
           cancelling' \in BOOLEAN, asked' \subseteq CallId, approved' \subseteq CallId,
           runs' \in [CallId -> Nat],
           tool' \in Seq(Tools), Len(tool') <= MaxCalls,
           UNCHANGED <<rec, session, saved, stops>>
    PROVE  Book'
BY LogGrows DEF Book

\* prompt_turn keeps the types.
LEMMA SubmitTyped == ASSUME Typed, Submit PROVE Typed'
<1>1. /\ cycle' \in CycleType
      /\ cycle'.pc = "step" /\ cycle'.calls = <<>> /\ cycle'.veto = <<>> /\ cycle'.at = 1
  BY IdleIs DEF Submit, CycleType
<1>2. task' = NoTasks
  BY DEF Submit, Typed, Shape, At, Executing
<1>3. Book'
  BY TypedParts, EventTypes, BookKept DEF Submit, Elsewhere, Book
<1>4. rec' = Off /\ session' = "open" /\ Len(tool)' \in Nat
  BY Locals DEF Submit, Elsewhere
<1>5. Shape'
  BY <1>1, <1>2, <1>4, Rested DEF Off
<1> QED
  BY <1>1, <1>2, <1>3, <1>5, IdleIs, TypedParts DEF TaskType

\* A turn that ends, or goes on to its next step, by itself.
LEMMA TurnsPage ==
    ASSUME Typed, ~At("idle"), Book', UNCHANGED <<rec, session>>, task' = NoTasks,
           cycle' \in CycleType,
           cycle'.pc \in {"idle", "step", "llm", "wrapup"},
           cycle'.calls = <<>>, cycle'.veto = <<>>, cycle'.at = 1
    PROVE  Typed'
<1>1. rec' = Off /\ session' = "open"
  BY DEF Typed, Shape
<1>2. Len(tool)' \in Nat
  BY DEF Book
<1>3. Shape'
  BY <1>1, <1>2, Rested DEF Off
<1> QED
  BY <1>3, IdleIs, TypedParts DEF TaskType

\* The end of a cycle leaves no calls and no plan.
LEMMA EndCycleIs ==
    ASSUME EndCycle
    PROVE  /\ cycle' \in CycleType /\ cycle'.pc \in {"idle", "step", "llm", "wrapup"}
           /\ cycle'.calls = <<>> /\ cycle'.veto = <<>> /\ cycle'.at = 1
           /\ cancelling' \in BOOLEAN
<1>1. cycle' = Idle /\ cancelling' = FALSE
  BY DEF EndCycle
<1> QED
  BY <1>1, IdleIs

\* The beginning of a step, which may go to the model, wrap up or end, keeps the types.
LEMMA BeginStepTyped == ASSUME Typed, BeginStep PROVE Typed'
<1>1. /\ ~At("idle") /\ task' = NoTasks /\ cycle.calls = <<>> /\ cycle.veto = <<>>
      /\ cycle.at = 1 /\ UNCHANGED <<rec, session>>
  BY DEF BeginStep, At, Typed, Shape, Executing, Planning, Elsewhere
<1> DEFINE step == cycle.step + 1
           over == step > MaxSteps
<1>2. CASE (over /\ ~Finalize) \/ (~over /\ Exhausted)
  <2>1. EndCycle
    BY <1>2 DEF BeginStep
  <2>2. Book'
    BY <2>1, EndCycleIs, TypedParts, EventTypes, BookKept DEF BeginStep, Elsewhere, Book
  <2> QED
    BY <1>1, <2>1, <2>2, EndCycleIs, TurnsPage
<1>3. CASE ~((over /\ ~Finalize) \/ (~over /\ Exhausted))
  <2>1. /\ cycle' = IF over THEN [cycle EXCEPT !.pc = "wrapup"]
                             ELSE [Idle EXCEPT !.pc = "llm", !.step = step]
        /\ UNCHANGED cancelling
    BY <1>3 DEF BeginStep
  <2>2. /\ cycle' \in CycleType
        /\ cycle'.pc \in {"idle", "step", "llm", "wrapup"}
        /\ cycle'.calls = <<>> /\ cycle'.veto = <<>> /\ cycle'.at = 1
    <3>1. CASE over
      BY <1>1, <2>1, <3>1, Locals DEF CycleType
    <3>2. CASE ~over
      <4>1. step \in 0..MaxSteps
        BY <3>2, Locals, BoundsAssumption DEF CycleType
      <4> HIDE DEF step
      <4> QED
        BY <2>1, <3>2, <4>1, IdleIs DEF CycleType
    <3> QED
      BY <3>1, <3>2
  <2>3. Book'
    BY <2>1, TypedParts, EventTypes, BookKept DEF BeginStep, Elsewhere, Book
  <2> QED
    BY <1>1, <2>2, <2>3, TurnsPage
<1> QED
  BY <1>2, <1>3

\* A failed request keeps the types.
LEMMA LlmFailsTyped == ASSUME Typed, LlmFails PROVE Typed'
<1>1. ~At("idle") /\ task' = NoTasks /\ UNCHANGED <<rec, session>>
  BY DEF LlmFails, At, Typed, Shape, Executing, Elsewhere
<1>2. EndCycle
  BY DEF LlmFails
<1>3. Book'
  BY <1>2, TypedParts, EventTypes, BookKept, EndCycleIs DEF LlmFails, Elsewhere, Book
<1> QED
  BY <1>1, <1>2, <1>3, EndCycleIs, TurnsPage

\* A response, in a step or in finalize, keeps the types.
LEMMA AnswerTyped ==
    ASSUME Typed, NEW batch \in Batches, LlmAnswers(batch) \/ WrapUp(batch)
    PROVE  Typed'
<1>1. /\ ~At("idle") /\ task' = NoTasks /\ UNCHANGED <<rec, session, saved, stops>>
      /\ UNCHANGED <<asked, approved, runs>> /\ Responds(batch)
  BY DEF LlmAnswers, WrapUp, At, Typed, Shape, Executing, Elsewhere
<1> DEFINE calls == [i \in DOMAIN batch |-> Len(tool) + i]
<1>2. TTypeOK
  BY DEF Typed
<1>3. /\ tool' \in Seq(Tools) /\ Len(tool') <= MaxCalls
      /\ Len(tool') = Len(tool) + Len(batch)
      /\ calls \in Seq(CallId) /\ Len(calls) = Len(batch) /\ Len(batch) \in Nat
  BY <1>1, <1>2, ResponseTyped
<1>4. \E e \in EventType : log' = Append(log, e)
  BY <1>1, <1>3, EventTypes DEF Responds
<1>5. cancelling' \in BOOLEAN => Book'
  BY <1>1, <1>3, <1>4, TypedParts, BookKept DEF Book
<1>6. CASE EndCycle
  BY <1>1, <1>5, <1>6, EndCycleIs, TurnsPage
<1>7. CASE ~EndCycle
  <2>1. /\ At("llm") /\ batch # <<>> /\ UNCHANGED cancelling
        /\ cycle' = [cycle EXCEPT !.pc = "propose", !.calls = calls]
    BY <1>7 DEF LlmAnswers, WrapUp
  <2>2. Book'
    BY <1>5, <2>1, TypedParts DEF Book
  <2>3. \A k \in DOMAIN calls : calls[k] = Len(tool) + k
    OBVIOUS
  <2> HIDE DEF calls
  <2>4. /\ cycle' \in CycleType
        /\ cycle'.pc = "propose" /\ cycle'.calls = calls
        /\ cycle'.at = cycle.at /\ cycle'.veto = cycle.veto
    BY <1>3, <2>1, Locals DEF CycleType
  <2>5. cycle.at = 1 /\ cycle.veto = <<>> /\ rec' = Off /\ session' = "open"
    BY <1>1, <2>1 DEF Typed, Shape, At, Planning, Executing
  <2>6. Len(calls) >= 1 /\ Len(tool) \in Nat
    BY <1>3, <2>1, Locals DEF Batches
  <2>7. Planning' /\ ~Executing' /\ ~At("running")' /\ ~At("idle")'
    BY <2>4 DEF Planning, Executing, At
  <2>8. Shape'
    <3>1. /\ Len(cycle'.calls) <= Len(tool')
          /\ \A k \in DOMAIN cycle'.calls : cycle'.calls[k] = Len(tool') - Len(cycle'.calls) + k
      <4>1. DOMAIN calls = 1..Len(calls) /\ Len(calls) \in Nat /\ Len(tool') = Len(tool) + Len(calls)
        BY <1>3
      <4>2. \A k \in DOMAIN calls : calls[k] = Len(tool') - Len(calls) + k
        BY <2>3, <2>6, <4>1
      <4> QED
        BY <2>4, <2>6, <4>1, <4>2
    <3>2. /\ cycle'.at <= Len(cycle'.calls)
          /\ Len(cycle'.veto) = cycle'.at - 1
      BY <2>4, <2>5, <2>6
    <3> QED
      BY <1>1, <2>5, <2>7, <3>1, <3>2 DEF Shape, Off
  <2> QED
    BY <1>1, <2>2, <2>4, <2>8, IdleIs, TypedParts DEF TaskType
<1> QED
  BY <1>6, <1>7

\* A proposal keeps the types.
LEMMA ProposeTyped == ASSUME Typed, Propose PROVE Typed'
<1>1. Planning /\ At("propose")
  BY DEF Propose, Planning, At
<1>2. /\ cycle' \in CycleType
      /\ cycle'.pc = "hook" /\ cycle'.calls = cycle.calls
      /\ cycle'.at = cycle.at /\ cycle'.veto = cycle.veto
  BY Locals DEF Propose, CycleType
<1>3. Book'
  BY <1>1, Locals, TypedParts, EventTypes, BookKept DEF Propose, Elsewhere, Book
<1>4. Planning' /\ ~Executing' /\ ~At("running")' /\ ~At("idle")'
      /\ ~Executing /\ ~At("idle")
  BY <1>1, <1>2 DEF Planning, Executing, At
<1>5. Shape'
  BY <1>1, <1>2, <1>4 DEF Typed, Shape, Propose, Elsewhere
<1> QED
  BY <1>2, <1>3, <1>5, TypedParts DEF Propose

\* Every way a call comes to be planned.
LEMMA PlannedTyped ==
    ASSUME Typed, Planning, NEW v \in Vetoes, Plan(v), Book',
           UNCHANGED <<tool, rec, session>>
    PROVE  Typed'
BY PlanTyped, TypedParts DEF TaskType

\* Arguments that do not parse and an approval that times out keep the types.
LEMMA VerdictTyped ==
    ASSUME Typed, BadArguments \/ AskTimesOut PROVE Typed'
<1>1. Planning /\ Plan("denied") /\ UNCHANGED <<tool, rec, session>>
  BY DEF BadArguments, AskTimesOut, Planning, At, Elsewhere
<1>2. Book'
  BY TypedParts, EventTypes, BookKept DEF BadArguments, AskTimesOut, Elsewhere, Book
<1> QED
  BY <1>1, <1>2, PlannedTyped DEF Vetoes

\* The verdict of the hook keeps the types.
LEMMA HookTyped == ASSUME Typed, Hook PROVE Typed'
<1>1. Planning /\ At("hook") /\ UNCHANGED <<log, tool, cancelling, approved, runs>>
      /\ UNCHANGED <<rec, session, saved, stops>>
  BY DEF Hook, Planning, At, Elsewhere
<1>2. Current \in CallId
  BY <1>1, Locals
<1>3. Book'
  BY <1>1, <1>2, TypedParts, EventTypes, BookKept DEF Hook, Book
<1>4. CASE \E v \in Vetoes : Plan(v)
  BY <1>1, <1>3, <1>4, PlannedTyped
<1>5. CASE cycle' = [cycle EXCEPT !.pc = "asking"] /\ UNCHANGED task
  <2>1. /\ cycle' \in CycleType
        /\ cycle'.pc = "asking" /\ cycle'.calls = cycle.calls
        /\ cycle'.at = cycle.at /\ cycle'.veto = cycle.veto
    BY <1>5, Locals DEF CycleType
  <2>2. Planning' /\ ~Executing' /\ ~At("running")' /\ ~At("idle")'
        /\ ~Executing /\ ~At("idle")
    BY <1>1, <2>1 DEF Planning, Executing, At
  <2>3. Shape'
    BY <1>1, <1>5, <2>1, <2>2 DEF Typed, Shape
  <2> QED
    BY <1>3, <1>5, <2>1, <2>3, TypedParts
<1> QED
  BY <1>4, <1>5 DEF Hook, Vetoes

\* A decision of a client, in time or late, keeps the types.
LEMMA DecideTyped ==
    ASSUME Typed, NEW c \in CallId, NEW approve \in BOOLEAN, Decide(c, approve)
    PROVE  Typed'
<1>1. UNCHANGED <<log, tool, cancelling, asked, runs>> /\ UNCHANGED <<rec, session, saved, stops>>
  BY DEF Decide, Elsewhere
<1>2. Book'
  BY <1>1, TypedParts, EventTypes, BookKept DEF Decide, Book
<1>3. CASE Awaits(c)
  <2>1. Planning
    BY <1>3 DEF Awaits, Planning, At
  <2>2. \E v \in Vetoes : Plan(v)
    BY <1>3 DEF Decide, Vetoes
  <2> QED
    BY <1>1, <1>2, <2>1, <2>2, PlannedTyped
<1>4. CASE ~Awaits(c)
  <2>1. UNCHANGED <<cycle, task>>
    BY <1>4 DEF Decide
  <2>2. Shape'
    BY <1>1, <2>1 DEF Typed, Shape, Planning, Executing, At
  <2> QED
    BY <1>2, <2>1, <2>2, TypedParts
<1> QED
  BY <1>3, <1>4


\* A tool that starts keeps the types.
LEMMA StartTyped == ASSUME Typed, NEW c \in CallId, Start(c) PROVE Typed'
<1>1. task' = [task EXCEPT ![c] = "running"] /\ UNCHANGED <<cycle, tool, rec, session>>
      /\ task[c] = "waiting"
  BY DEF Start, Elsewhere
<1>2. runs' \in [CallId -> Nat] /\ task' \in TaskType
  BY <1>1, TypedParts DEF Start, Book, TaskType
<1>3. Book'
  BY <1>2, TypedParts, EventTypes, BookKept DEF Start, Elsewhere, Book
<1>4. Executing
  BY <1>1 DEF Typed, Shape, NoTasks
<1>5. Shape'
  BY <1>1, <1>4 DEF Typed, Shape, Planning, Executing, At
<1> QED
  BY <1>1, <1>2, <1>3, <1>5, TypedParts

\* A tool that ends, with or without a panic, keeps the types.
LEMMA FinishTyped ==
    ASSUME Typed, NEW c \in CallId, NEW outcome \in {"ok", "error", "panic"},
           Finish(c, outcome)
    PROVE  Typed'
<1>1. task' = [task EXCEPT ![c] = outcome] /\ UNCHANGED <<cycle, tool, rec, session>>
      /\ task[c] = "running"
  BY DEF Finish, Elsewhere
<1>2. task' \in TaskType
  BY <1>1, TypedParts DEF TaskType
<1>3. Book'
  BY TypedParts, EventTypes, BookKept DEF Finish, Elsewhere, Book
<1>4. Executing
  BY <1>1 DEF Typed, Shape, NoTasks
<1>5. Shape'
  BY <1>1, <1>4 DEF Typed, Shape, Planning, Executing, At
<1> QED
  BY <1>1, <1>2, <1>3, <1>5, TypedParts

\* The collection of the outcomes keeps the types.
LEMMA CollectTyped == ASSUME Typed, Collect PROVE Typed'
<1>1. /\ cycle' \in CycleType
      /\ cycle'.pc = "publish" /\ cycle'.calls = cycle.calls
      /\ cycle'.at = cycle.at /\ cycle'.veto = cycle.veto
  BY Locals DEF Collect, CycleType
<1>2. Book'
  BY TypedParts, EventTypes, BookKept DEF Collect, Elsewhere, Book
<1>3. Executing /\ Executing' /\ ~Planning' /\ ~At("running")' /\ ~At("idle") /\ ~At("idle")'
  BY <1>1 DEF Collect, Executing, Planning, At
<1>4. Shape'
  BY <1>1, <1>3 DEF Typed, Shape, Collect, Elsewhere
<1> QED
  BY <1>1, <1>2, <1>4, TypedParts DEF Collect

\* The publication of a result, the last of a step included, keeps the types.
LEMMA PublishTyped == ASSUME Typed, PublishResult PROVE Typed'
<1>1. Executing /\ At("publish") /\ ~At("idle")
  BY DEF PublishResult, Executing, At
<1>2. cycle.at \in DOMAIN cycle.veto /\ cycle.at <= Len(cycle.calls)
  BY <1>1, Locals DEF Typed, Shape
<1>3. OutcomeOf(cycle.at) \in Outcomes
  BY <1>2, Locals DEF OutcomeOf, Outcomes, Vetoes
<1>4. \E e \in EventType : log' = Append(log, e)
  BY <1>1, <1>3, Locals, EventTypes DEF PublishResult
<1>5. cancelling' \in BOOLEAN => Book'
  BY <1>4, TypedParts, BookKept DEF PublishResult, Elsewhere, Book
<1>6. UNCHANGED <<tool, rec, session>>
  BY DEF PublishResult, Elsewhere
<1> DEFINE terminal == \/ cycle.terminal
                       \/ cycle.veto[cycle.at] = "none" /\ tool[Current] \in Terminal
<1>7. CASE /\ cycle.at < Len(cycle.calls)
           /\ cycle' = [cycle EXCEPT !.at = @ + 1, !.terminal = terminal]
           /\ UNCHANGED <<task, cancelling>>
  <2> DEFINE next == cycle.at + 1
  <2>1. terminal \in BOOLEAN /\ next \in Nat \ {0} /\ next = cycle.at + 1
    BY Locals
  <2>a. cycle' = [cycle EXCEPT !.at = next, !.terminal = terminal]
    BY <1>7
  <2> HIDE DEF terminal, next
  <2>2. /\ cycle' \in CycleType
        /\ cycle'.pc = cycle.pc /\ cycle'.calls = cycle.calls
        /\ cycle'.at = cycle.at + 1 /\ cycle'.veto = cycle.veto
    BY <2>a, <2>1, Locals DEF CycleType
  <2>3. Executing' /\ ~Planning' /\ ~At("running")' /\ ~At("idle")'
    BY <1>1, <2>2 DEF Executing, Planning, At
  <2>4. Shape'
    BY <1>1, <1>2, <1>6, <1>7, <2>2, <2>3, Locals DEF Typed, Shape
  <2>5. Book'
    BY <1>5, <1>7, TypedParts DEF Book
  <2> QED
    BY <1>7, <2>2, <2>4, <2>5, TypedParts
<1>8. CASE EndCycle /\ task' = NoTasks
  BY <1>1, <1>5, <1>6, <1>8, EndCycleIs, TurnsPage
<1>9. CASE /\ cycle' = [Idle EXCEPT !.pc = "step", !.step = cycle.step]
           /\ UNCHANGED cancelling /\ task' = NoTasks
  <2>1. cycle.step \in 0..MaxSteps
    BY Locals DEF CycleType
  <2>2. /\ cycle' \in CycleType
        /\ cycle'.pc \in {"idle", "step", "llm", "wrapup"}
        /\ cycle'.calls = <<>> /\ cycle'.veto = <<>> /\ cycle'.at = 1
    BY <1>9, <2>1, IdleIs DEF CycleType
  <2>3. Book'
    BY <1>5, <1>9, TypedParts DEF Book
  <2> QED
    BY <1>1, <1>6, <1>9, <2>2, <2>3, TurnsPage
<1> QED
  BY <1>7, <1>8, <1>9 DEF PublishResult

\* A cancel keeps the types.
LEMMA CancelTyped == ASSUME Typed, Cancel PROVE Typed'
<1>1. stops' \in [cancels : 0..MaxCancels, restarts : 0..MaxRestarts] /\ cancelling' \in BOOLEAN
  <2>1. stops \in [cancels : 0..MaxCancels, restarts : 0..MaxRestarts]
    BY TypedParts DEF Book
  <2>2. /\ stops.cancels < MaxCancels /\ stops' = [stops EXCEPT !.cancels = @ + 1]
        /\ cancelling' = TRUE
    BY DEF Cancel
  <2> QED
    BY <2>1, <2>2, BoundsAssumption
<1>2. Book'
  BY <1>1, TypedParts DEF Cancel, Book
<1>3. Shape'
  BY DEF Cancel, Typed, Shape, Planning, Executing, At
<1> QED
  BY <1>2, <1>3, TypedParts DEF Cancel

\* A cycle that is dropped leaves no calls, no plan and no tasks.
LEMMA DroppedIs ==
    ASSUME Dropped
    PROVE  /\ cycle' \in CycleType /\ task' \in TaskType
           /\ cycle'.pc = "idle" /\ cycle'.calls = <<>> /\ cycle'.veto = <<>> /\ cycle'.at = 1
           /\ task' = NoTasks /\ cancelling' \in BOOLEAN
BY IdleIs DEF Dropped, TaskType

\* The drop of a cancelled cycle keeps the types.
LEMMA NoticeCancelTyped == ASSUME Typed, NoticeCancel PROVE Typed'
<1>1. /\ rec' \in [pc : {"off", "scan", "decide", "replay"}, todo : SUBSET (1..Len(log))]
      /\ rec'.pc = "scan" /\ rec'.todo = {} /\ rec' # Off
  BY DEF NoticeCancel, Off
<1>2. Dropped /\ UNCHANGED <<log, tool, session, asked, approved, runs, saved, stops>>
  BY DEF NoticeCancel
<1>3. Book'
  BY <1>1, <1>2, DroppedIs, TypedParts DEF Book
<1>4. Shape'
  BY <1>1, <1>2, DroppedIs, Rested, Locals
<1> QED
  BY <1>2, <1>3, <1>4, DroppedIs, TypedParts

\* A stop of the process with any part of the log on file keeps the types.
LEMMA CrashTyped ==
    ASSUME Typed, NEW kept \in saved..Len(log), Crash(kept)
    PROVE  Typed'
<1>1. /\ log' \in Seq(EventType) /\ Len(log') = kept /\ kept \in Nat
  BY TypedParts DEF Crash, Book
<1>2. /\ rec' \in [pc : {"off", "scan", "decide", "replay"}, todo : SUBSET (1..Len(log'))]
      /\ rec'.pc = "scan" /\ rec'.todo = {} /\ rec' # Off
  BY DEF Crash, Off
<1>3. stops' \in [cancels : 0..MaxCancels, restarts : 0..MaxRestarts]
  <2>1. stops \in [cancels : 0..MaxCancels, restarts : 0..MaxRestarts]
    BY TypedParts DEF Book
  <2>2. stops.restarts < MaxRestarts /\ stops' = [stops EXCEPT !.restarts = @ + 1]
    BY DEF Crash
  <2> QED
    BY <2>1, <2>2, BoundsAssumption
<1>a. /\ Dropped /\ UNCHANGED <<tool, approved, runs>>
      /\ session' = "opening" /\ asked' = {} /\ saved' = kept
  BY DEF Crash
<1>b. saved' \in 0..Len(log')
  BY <1>1, <1>a
<1>4. Book'
  BY <1>1, <1>2, <1>3, <1>a, <1>b, DroppedIs, TypedParts DEF Book
<1>5. Shape'
  BY <1>2, DroppedIs, Rested, Locals DEF Crash
<1> QED
  BY <1>4, <1>5, DroppedIs, TypedParts DEF Crash

-----------------------------------------------------------------------------
(* The repair.                                                             *)

\* A set of places in the log has a first.
LEMMA FirstPlace ==
    ASSUME NEW T \in SUBSET Nat, T # {}
    PROVE  \E x \in T : \A y \in T : x <= y
<1> DEFINE R == OpToRel(<, Nat)
<1>1. PICK x \in T : \A y \in T : ~ (<<y, x>> \in R)
  BY WFMin, NatLessThanWellFounded
<1>2. \A y \in T : ~ (y < x)
  BY <1>1 DEF OpToRel
<1> QED
  BY <1>2

\* The proposal the repair takes next is the first of those it has to answer.
LEMMA FirstIs ==
    ASSUME Book, rec.todo # {}
    PROVE  First \in rec.todo /\ \A j \in rec.todo : First <= j
<1>1. rec.todo \in SUBSET Nat
  BY DEF Book
<1>2. \E i \in rec.todo : \A j \in rec.todo : i <= j
  BY <1>1, FirstPlace
<1> QED
  BY <1>2 DEF First

\* A proposal and a result are about one call each.
LEMMA AboutType ==
    ASSUME Book
    PROVE  \A i \in Where("tool.call.proposed") \cup Where("tool.result") :
             /\ About(i) \in CallId
             /\ log[i].calls = <<About(i)>>
<1> SUFFICES ASSUME NEW i \in Where("tool.call.proposed") \cup Where("tool.result")
             PROVE  About(i) \in CallId /\ log[i].calls = <<About(i)>>
  OBVIOUS
<1>1. log[i] \in EventType /\ log[i].kind \in {"tool.call.proposed", "tool.result"}
  BY DEF Where, Book
<1>2. log[i].calls \in Seq(CallId) /\ Len(log[i].calls) = 1
  BY <1>1 DEF EventType
<1> QED
  BY <1>2 DEF About

\* Every step of reconcile_interrupted_tools keeps the types.
LEMMA ReconcileTyped ==
    ASSUME Typed, rec.todo \subseteq Where("tool.call.proposed"), Reconcile
    PROVE  Typed'
<1>1. /\ Book /\ Len(log) \in Nat /\ log \in Seq(EventType)
      /\ rec \in [pc : {"off", "scan", "decide", "replay"}, todo : SUBSET (1..Len(log))]
  BY TypedParts DEF Book
<1>2. /\ UNCHANGED <<tool, cycle, task, cancelling, asked, approved, saved, stops>>
      /\ rec # Off
  BY DEF Reconcile, Scan, Report, Replay, Replayed, Refuse, Reconciled, Bystanders, Off
<1>3. cycle.pc = "idle" /\ At("idle") /\ ~Planning /\ ~Executing /\ ~At("running")
  BY <1>2 DEF Typed, Shape, At, Planning, Executing
<1>4. ASSUME /\ rec' \in [pc : {"off", "scan", "decide", "replay"}, todo : SUBSET (1..Len(log'))]
             /\ rec'.pc \in {"off", "scan"} => rec'.todo = {}
             /\ rec'.pc = "replay" => rec'.todo # {}
             /\ rec' = Off => session' \in {"open", "refused"},
             session' \in {"open", "opening", "refused"},
             NEW e \in EventType, log' = Append(log, e) \/ log' = log,
             runs' \in [CallId -> Nat]
      PROVE  Typed'
  <2>1. Book'
    BY <1>1, <1>2, <1>4, LogGrows DEF Book
  <2>2. Shape'
    BY <1>2, <1>3, <1>4 DEF Typed, Shape, At, Planning, Executing
  <2> QED
    BY <1>2, <2>1, <2>2, TypedParts
<1>5. session \in {"open", "opening", "refused"} /\ runs \in [CallId -> Nat]
  BY <1>1 DEF Book
<1>6. ASSUME rec.todo # {}
      PROVE  First \in 1..Len(log) /\ Orphan \in CallId
  BY <1>1, <1>6, FirstIs, AboutType DEF Orphan
<1>7. ASSUME Scan PROVE Typed'
  <2>1. Orphans \in SUBSET (1..Len(log))
    BY <1>1 DEF Orphans, Where
  <2>2. rec' = [pc |-> "decide", todo |-> Orphans] /\ UNCHANGED <<log, session, runs>>
    BY <1>7 DEF Scan
  <2>3. rec' # Off
    BY <2>2 DEF Off
  <2> QED
    BY <1>1, <1>4, <1>5, <2>1, <2>2, <2>3, EventTypes
<1>8. ASSUME NEW o \in Outcomes, Answer(o), rec.todo # {}, UNCHANGED <<session, runs>>
      PROVE  Typed'
  <2>1. Result(Orphan, o) \in EventType
    BY <1>6, <1>8, EventTypes
  <2>2. log' = Append(log, Result(Orphan, o)) /\ rec' = [pc |-> "decide", todo |-> rec.todo \ {First}]
    BY <1>8 DEF Answer
  <2>3. Len(log') >= Len(log)
    BY <1>1, <2>1, <2>2, LogGrows
  <2>4. rec.todo \ {First} \in SUBSET (1..Len(log')) /\ Len(log') \in Nat
    BY <1>1, <2>1, <2>2, <2>3
  <2>5. rec' # Off
    BY <2>2 DEF Off
  <2> QED
    BY <1>4, <1>5, <1>8, <2>1, <2>2, <2>4, <2>5
<1>9. ASSUME Report PROVE Typed'
  BY <1>8, <1>9 DEF Report, Outcomes
<1>10. ASSUME Replayed PROVE Typed'
  BY <1>8, <1>10 DEF Replayed, Outcomes, Typed, Shape
<1>11. ASSUME Replay PROVE Typed'
  <2>1. /\ rec.todo # {} /\ rec' = [rec EXCEPT !.pc = "replay"]
        /\ runs' = [runs EXCEPT ![Orphan] = @ + 1] /\ UNCHANGED <<log, session>>
    BY <1>11 DEF Replay
  <2>2. runs' \in [CallId -> Nat]
    BY <1>5, <1>6, <2>1
  <2>3. rec'.pc = "replay" /\ rec'.todo = rec.todo /\ rec' # Off
    BY <1>1, <2>1 DEF Off
  <2> QED
    BY <1>1, <1>4, <1>5, <2>1, <2>2, <2>3, EventTypes
<1>12. ASSUME Refuse \/ Reconciled PROVE Typed'
  <2>1. rec' = Off /\ session' \in {"open", "refused"} /\ UNCHANGED <<log, runs>>
    BY <1>12 DEF Refuse, Reconciled
  <2>2. Off.pc = "off" /\ Off.todo = {} /\ Off \in [pc : {"off"}, todo : {{}}]
    BY DEF Off
  <2> QED
    BY <1>1, <1>4, <1>5, <2>1, <2>2, EventTypes
<1> QED
  BY <1>7, <1>9, <1>10, <1>11, <1>12 DEF Reconcile

-----------------------------------------------------------------------------
(* The log: proposals and results.                                         *)

Proposals == Where("tool.call.proposed")
Results == Where("tool.result")

\* Calls are proposed in the order in which the model made them, each once.
ProposedInOrder ==
    \A i \in Proposals :
        /\ log[i] = Proposed(About(i))
        /\ About(i) <= Len(tool)
        /\ \A j \in Proposals : i < j => About(i) < About(j)

\* No call is answered before one that was proposed earlier.
AnsweredInOrder ==
    \A j \in Results, i \in Proposals :
        About(i) < About(j) => \E k \in Results : k < j /\ About(k) = About(i)

LogInv == ProposedInOrder /\ ResultsMatchCalls /\ AnsweredInOrder

\* Proposals, results and orphans are places in the log.
LEMMA Places ==
    ASSUME Book
    PROVE  /\ Len(log) \in Nat /\ DOMAIN log = 1..Len(log)
           /\ Proposals \subseteq 1..Len(log) /\ Results \subseteq 1..Len(log)
           /\ Orphans \subseteq Proposals
           /\ \A i \in Proposals \cup Results : About(i) \in Nat /\ About(i) \in CallId
           /\ Len(tool) \in Nat
<1>1. Len(log) \in Nat /\ DOMAIN log = 1..Len(log) /\ Len(tool) \in Nat
  BY DEF Book
<1>2. Proposals \subseteq 1..Len(log) /\ Results \subseteq 1..Len(log) /\ Orphans \subseteq Proposals
  BY <1>1 DEF Proposals, Results, Where, Orphans
<1>3. \A i \in Proposals \cup Results : About(i) \in CallId
  BY AboutType DEF Proposals, Results
<1> QED
  BY <1>1, <1>2, <1>3, BoundsAssumption DEF CallId

\* An append leaves what was in the log where it was.
LEMMA Appended ==
    ASSUME Book, NEW e \in EventType, log' = Append(log, e), NEW n, n = Len(log) + 1
    PROVE  /\ Len(log') = n /\ log'[n] = e
           /\ \A i \in 1..Len(log) : log'[i] = log[i] /\ About(i)' = About(i)
           /\ About(n)' = e.calls[1]
           /\ Proposals' = Proposals \cup {i \in {n} : e.kind = "tool.call.proposed"}
           /\ Results' = Results \cup {i \in {n} : e.kind = "tool.result"}
<1>1. log \in Seq(EventType) /\ Len(log) \in Nat /\ DOMAIN log = 1..Len(log)
  BY DEF Book
<1>2. /\ Len(log') = n /\ log'[n] = e /\ DOMAIN log' = 1..n /\ n \in Nat /\ n \notin 1..Len(log)
      /\ \A i \in 1..Len(log) : log'[i] = log[i]
  BY <1>1
<1>3. 1..n = 1..Len(log) \cup {n}
  BY <1>1
<1>4. /\ \A i \in 1..Len(log) : About(i)' = About(i)
      /\ About(n)' = e.calls[1]
  BY <1>2 DEF About
<1>5. \A kind : Where(kind)' = Where(kind) \cup {i \in {n} : e.kind = kind}
  BY <1>1, <1>2, <1>3 DEF Where
<1> QED
  BY <1>2, <1>4, <1>5 DEF Proposals, Results

\* What is neither a proposal nor a result changes nothing.
LEMMA OtherAppended ==
    ASSUME Book, LogInv, NEW e \in EventType, log' = Append(log, e),
           e.kind \notin {"tool.call.proposed", "tool.result"},
           Len(tool') \in Nat, Len(tool') >= Len(tool)
    PROVE  LogInv' /\ Orphans' = Orphans /\ Proposals' = Proposals
           /\ \A i \in Proposals : About(i)' = About(i)
<1>1. /\ Proposals' = Proposals /\ Results' = Results
      /\ \A i \in 1..Len(log) : log'[i] = log[i] /\ About(i)' = About(i)
  <2> PICK n : n = Len(log) + 1
    OBVIOUS
  <2>1. /\ \A i \in 1..Len(log) : log'[i] = log[i] /\ About(i)' = About(i)
        /\ Proposals' = Proposals \cup {i \in {n} : e.kind = "tool.call.proposed"}
        /\ Results' = Results \cup {i \in {n} : e.kind = "tool.result"}
    BY Appended
  <2>2. /\ {i \in {n} : e.kind = "tool.call.proposed"} = {}
        /\ {i \in {n} : e.kind = "tool.result"} = {}
    OBVIOUS
  <2> QED
    BY <2>1, <2>2
<1>2. \A i \in Proposals \cup Results :
        i \in 1..Len(log) /\ i \in Nat /\ About(i)' = About(i) /\ log'[i] = log[i] /\ About(i) \in Nat
  BY <1>1, Places
<1>3. Answered' = Answered
  BY <1>1, <1>2 DEF Answered, Results
<1>4. Orphans' = Orphans
  BY <1>1, <1>2, <1>3 DEF Orphans, Proposals
<1>5. ProposedInOrder'
  BY <1>1, <1>2, Places DEF LogInv, ProposedInOrder, Proposed, Event
<1>6. ResultsMatchCalls'
  <2>1. ASSUME NEW j \in Results
        PROVE  /\ \A i \in Results : i < j => About(i)' < About(j)'
               /\ \E i \in 1..(j - 1) : log'[i] = Proposed(About(j)')
    <3>1. PICK i \in 1..(j - 1) : log[i] = Proposed(About(j))
      BY DEF LogInv, ResultsMatchCalls, Results
    <3>2. i \in 1..Len(log)
      BY <1>2, Places
    <3>3. log'[i] = Proposed(About(j)')
      BY <1>1, <1>2, <3>1, <3>2
    <3>4. \A h \in Results : h < j => About(h)' < About(j)'
      BY <1>2 DEF LogInv, ResultsMatchCalls, Results
    <3> QED
      BY <3>3, <3>4
  <2> QED
    BY <1>1, <2>1 DEF ResultsMatchCalls, Results
<1>7. AnsweredInOrder'
  BY <1>1, <1>2 DEF LogInv, AnsweredInOrder
<1> QED
  BY <1>1, <1>2, <1>4, <1>5, <1>6, <1>7 DEF LogInv

\* A call later than all before it is proposed.
LEMMA NextProposed ==
    ASSUME Book, LogInv, NEW c \in CallId, c <= Len(tool),
           \A i \in Proposals : About(i) < c,
           log' = Append(log, Proposed(c)), UNCHANGED tool,
           NEW n, n = Len(log) + 1
    PROVE  /\ LogInv'
           /\ Proposals' = Proposals \cup {n}
           /\ Orphans' = Orphans \cup {n}
           /\ About(n)' = c
           /\ \A i \in Proposals : About(i)' = About(i)
<1>1. Proposed(c).kind = "tool.call.proposed" /\ Proposed(c).calls[1] = c
      /\ Proposed(c) \in EventType
  BY EventTypes DEF Proposed, Event
<1>2. /\ Proposals' = Proposals \cup {n} /\ Results' = Results
      /\ log'[n] = Proposed(c) /\ About(n)' = c
      /\ \A i \in 1..Len(log) : log'[i] = log[i] /\ About(i)' = About(i)
  <2>1. /\ log'[n] = Proposed(c)
        /\ \A i \in 1..Len(log) : log'[i] = log[i] /\ About(i)' = About(i)
        /\ About(n)' = Proposed(c).calls[1]
        /\ Proposals' = Proposals \cup {i \in {n} : Proposed(c).kind = "tool.call.proposed"}
        /\ Results' = Results \cup {i \in {n} : Proposed(c).kind = "tool.result"}
    BY <1>1, Appended
  <2>2. /\ {i \in {n} : Proposed(c).kind = "tool.call.proposed"} = {n}
        /\ {i \in {n} : Proposed(c).kind = "tool.result"} = {}
    BY <1>1
  <2> QED
    BY <1>1, <2>1, <2>2
<1>3. n \in Nat /\ c \in Nat /\ \A i \in Proposals \cup Results : i < n
  BY Places, BoundsAssumption DEF CallId
<1>4. \A i \in Proposals \cup Results :
        i \in 1..Len(log) /\ i \in Nat /\ About(i)' = About(i) /\ log'[i] = log[i] /\ About(i) \in Nat
  BY <1>2, Places
<1>5. Answered' = Answered /\ \A j \in Results : About(j) < c
  <2>1. Answered' = Answered
    BY <1>2, <1>4 DEF Answered, Results
  <2>2. ASSUME NEW j \in Results PROVE About(j) < c
    <3>1. PICK i \in 1..(j - 1) : log[i] = Proposed(About(j))
      BY DEF LogInv, ResultsMatchCalls, Results
    <3>2. i \in 1..Len(log) /\ About(i) = About(j) /\ i \in Proposals
      BY <1>4, <3>1, Places DEF Proposals, Where, Proposed, Event, About
    <3> QED
      BY <3>2
  <2> QED
    BY <2>1, <2>2
<1>6. c \notin Answered
  BY <1>3, <1>4, <1>5 DEF Answered, Results
<1>7. Orphans' = Orphans \cup {n}
  BY <1>2, <1>4, <1>5, <1>6 DEF Orphans, Proposals
<1>8. ProposedInOrder'
  BY <1>2, <1>3, <1>4, Places DEF LogInv, ProposedInOrder, Proposed, Event
<1>9. ResultsMatchCalls'
  <2>1. ASSUME NEW j \in Results
        PROVE  /\ \A i \in Results : i < j => About(i)' < About(j)'
               /\ \E i \in 1..(j - 1) : log'[i] = Proposed(About(j)')
    <3>1. PICK i \in 1..(j - 1) : log[i] = Proposed(About(j))
      BY DEF LogInv, ResultsMatchCalls, Results
    <3>2. i \in 1..Len(log)
      BY <1>4, Places
    <3>3. log'[i] = Proposed(About(j)')
      BY <1>2, <1>4, <3>1, <3>2
    <3>4. \A h \in Results : h < j => About(h)' < About(j)'
      BY <1>4 DEF LogInv, ResultsMatchCalls, Results
    <3> QED
      BY <3>3, <3>4
  <2> QED
    BY <1>2, <2>1 DEF ResultsMatchCalls, Results
<1>10. AnsweredInOrder'
  BY <1>2, <1>3, <1>4, <1>5 DEF LogInv, AnsweredInOrder
<1> QED
  BY <1>2, <1>4, <1>7, <1>8, <1>9, <1>10 DEF LogInv

\* The orphan that was proposed first is answered.
LEMMA FirstAnswered ==
    ASSUME Book, LogInv, NEW f \in Orphans, \A i \in Orphans : f <= i,
           NEW c, c = About(f),
           NEW o \in Outcomes, log' = Append(log, Result(c, o)), UNCHANGED tool
    PROVE  /\ LogInv'
           /\ Proposals' = Proposals
           /\ Orphans' = Orphans \ {f}
           /\ \A i \in Proposals : About(i)' = About(i)
<1> PICK n : n = Len(log) + 1
  OBVIOUS
<1>1. f \in Proposals /\ c \in CallId /\ c \in Nat /\ f \in Nat
  BY Places
<1>2. Result(c, o).kind = "tool.result" /\ Result(c, o).calls[1] = c
      /\ Result(c, o) \in EventType
  BY <1>1, EventTypes DEF Result, Event
<1>3. /\ Proposals' = Proposals /\ Results' = Results \cup {n}
      /\ About(n)' = c
      /\ \A i \in 1..Len(log) : log'[i] = log[i] /\ About(i)' = About(i)
  <2>1. /\ \A i \in 1..Len(log) : log'[i] = log[i] /\ About(i)' = About(i)
        /\ About(n)' = Result(c, o).calls[1]
        /\ Proposals' = Proposals \cup {i \in {n} : Result(c, o).kind = "tool.call.proposed"}
        /\ Results' = Results \cup {i \in {n} : Result(c, o).kind = "tool.result"}
    BY <1>2, Appended
  <2>2. /\ {i \in {n} : Result(c, o).kind = "tool.call.proposed"} = {}
        /\ {i \in {n} : Result(c, o).kind = "tool.result"} = {n}
    BY <1>2
  <2> QED
    BY <1>2, <2>1, <2>2
<1>4. n \in Nat /\ (\A i \in Proposals \cup Results : i < n) /\ f \in 1..(n - 1)
  BY <1>1, Places
<1>5. \A i \in Proposals \cup Results :
        i \in 1..Len(log) /\ i \in Nat /\ About(i)' = About(i) /\ log'[i] = log[i] /\ About(i) \in Nat
  BY <1>3, Places
<1>6. Answered' = Answered \cup {c}
  BY <1>3, <1>5 DEF Answered, Results
<1>7. \A i \in Proposals : About(i) = c => i = f
  BY <1>1, <1>5 DEF LogInv, ProposedInOrder
<1>8. Orphans' = Orphans \ {f}
  <2>1. Orphans = {i \in Proposals : About(i) \notin Answered}
    BY DEF Orphans, Proposals
  <2>2. Orphans' = {i \in Proposals : About(i) \notin Answered'}
    BY <1>3, <1>5 DEF Orphans, Proposals
  <2> QED
    BY <2>1, <2>2, <1>6, <1>7
<1>9. c \notin Answered
  BY DEF Orphans
<1>10. \A j \in Results : About(j) < c
  <2>1. ASSUME NEW j \in Results, c < About(j) PROVE \E k \in Results : About(k) = About(f)
    BY <1>1, <2>1 DEF LogInv, AnsweredInOrder
  <2>2. \A j \in Results : About(j) # c /\ About(j) \in Nat
    BY <1>9, Places DEF Answered, Results
  <2> QED
    BY <1>1, <2>1, <2>2
<1>11. ProposedInOrder'
  BY <1>3, <1>5, Places DEF LogInv, ProposedInOrder, Proposed, Event
<1>12. ResultsMatchCalls'
  <2>1. ASSUME NEW j \in Results
        PROVE  \E i \in 1..(j - 1) : log'[i] = Proposed(About(j)')
    <3>1. PICK i \in 1..(j - 1) : log[i] = Proposed(About(j))
      BY DEF LogInv, ResultsMatchCalls, Results
    <3>2. i \in 1..Len(log)
      BY <1>5, Places
    <3> QED
      BY <1>3, <1>5, <3>1, <3>2
  <2>2. \E i \in 1..(n - 1) : log'[i] = Proposed(About(n)')
    <3>1. log'[f] = Proposed(c)
      BY <1>1, <1>5 DEF LogInv, ProposedInOrder
    <3> QED
      BY <1>3, <1>4, <3>1
  <2>3. \A i, j \in Results \cup {n} : i < j => About(i)' < About(j)'
    <3>1. \A i, j \in Results : i < j => About(i) < About(j)
      BY DEF LogInv, ResultsMatchCalls, Results
    <3> QED
      BY <1>3, <1>4, <1>5, <1>10, <3>1
  <2> QED
    BY <1>3, <2>1, <2>2, <2>3 DEF ResultsMatchCalls, Results
<1>13. AnsweredInOrder'
  <2>1. ASSUME NEW i \in Proposals, About(i) < c
        PROVE  \E k \in Results : About(k) = About(i)
    <3>1. i < f
      BY <1>1, <1>5, <2>1 DEF LogInv, ProposedInOrder
    <3>2. i \notin Orphans
      BY <1>1, <1>5, <3>1
    <3> QED
      BY <3>2 DEF Orphans, Answered, Proposals, Results
  <2> QED
    BY <1>3, <1>4, <1>5, <2>1 DEF LogInv, AnsweredInOrder
<1> QED
  BY <1>3, <1>5, <1>8, <1>11, <1>12, <1>13 DEF LogInv

\* What is left of a log that was cut short.
LEMMA Prefix ==
    ASSUME Book, NEW n \in 0..Len(log), log' = SubSeq(log, 1, n)
    PROVE  /\ DOMAIN log = 1..Len(log) /\ DOMAIN log' = 1..n
           /\ \A i \in 1..n : log'[i] = log[i] /\ i \in 1..Len(log)
<1>1. /\ log \in Seq(EventType) /\ Len(log) \in Nat /\ DOMAIN log = 1..Len(log)
      /\ n \in Nat
  BY DEF Book
<1> QED
  BY <1>1

\* LogInv holds of every beginning of a log it holds of, which is what a crash leaves.
LEMMA CutShort ==
    ASSUME Book, LogInv, NEW n \in 0..Len(log), log' = SubSeq(log, 1, n), UNCHANGED tool
    PROVE  LogInv'
<1>1. n \in Nat /\ Len(log) \in Nat
  BY Places
<1>2. /\ DOMAIN log = 1..Len(log) /\ DOMAIN log' = 1..n
      /\ \A i \in 1..n : log'[i] = log[i] /\ i \in 1..Len(log)
  BY Prefix
<1>3. \A i \in 1..n : About(i)' = About(i)
  BY <1>2 DEF About
<1>4. /\ Proposals' = {i \in Proposals : i <= n}
      /\ Results' = {i \in Results : i <= n}
  BY <1>1, <1>2 DEF Proposals, Results, Where
<1>5. \A i \in Proposals' \cup Results' :
        i \in 1..n /\ i \in Nat /\ About(i)' = About(i) /\ log'[i] = log[i]
  BY <1>1, <1>2, <1>3, <1>4, Places
<1>6. ProposedInOrder'
  BY <1>4, <1>5 DEF LogInv, ProposedInOrder, Proposed, Event
<1>7. ResultsMatchCalls'
  <2>1. ASSUME NEW j \in Results'
        PROVE  /\ \A i \in Results' : i < j => About(i)' < About(j)'
               /\ \E i \in 1..(j - 1) : log'[i] = Proposed(About(j)')
    <3>0. j \in Results
      BY <1>4, <2>1
    <3>1. PICK i \in 1..(j - 1) : log[i] = Proposed(About(j))
      BY <3>0 DEF LogInv, ResultsMatchCalls, Results
    <3>2. i \in 1..n
      BY <1>5
    <3>3. log'[i] = Proposed(About(j)')
      BY <1>2, <1>5, <3>1, <3>2
    <3>4. \A h \in Results' : h < j => About(h)' < About(j)'
      BY <1>4, <1>5 DEF LogInv, ResultsMatchCalls, Results
    <3> QED
      BY <3>3, <3>4
  <2> QED
    BY <2>1 DEF ResultsMatchCalls, Results
<1>8. AnsweredInOrder'
  <2>1. ASSUME NEW j \in Results', NEW i \in Proposals', About(i)' < About(j)'
        PROVE  \E k \in Results' : k < j /\ About(k)' = About(i)'
    <3>1. j \in Results /\ i \in Proposals /\ About(i) < About(j) /\ j \in Nat /\ j <= n
      BY <1>4, <1>5, <2>1
    <3>2. PICK k \in Results : k < j /\ About(k) = About(i)
      BY <3>1 DEF LogInv, AnsweredInOrder
    <3>3. k \in Nat /\ k <= n
      BY <1>1, <3>1, <3>2, Places
    <3>4. k \in Results'
      BY <1>4, <3>3
    <3> QED
      BY <1>5, <3>2, <3>4
  <2> QED
    BY <2>1 DEF AnsweredInOrder
<1> QED
  BY <1>6, <1>7, <1>8 DEF LogInv

-----------------------------------------------------------------------------
(* Which calls are still to be answered.                                   *)

\* How many of the cycle's calls are proposed, and how many are answered.
Planned == IF At("propose") THEN cycle.at - 1
           ELSE IF At("hook") \/ At("asking") THEN cycle.at
           ELSE Len(cycle.calls)
Done == IF At("publish") THEN cycle.at - 1 ELSE 0

Base == Len(tool) - Len(cycle.calls)

\* The orphans are the cycle's calls that are proposed and not answered; a turn
\* begins with none, and a repair leaves none behind.
OpenCalls(low, high) ==
    /\ \A i \in Orphans : low < About(i) /\ About(i) <= high
    /\ \A c \in (low + 1)..high : \E i \in Orphans : About(i) = c
    /\ \A i \in Proposals : About(i) <= high

OpenInv ==
    /\ ~At("idle") => OpenCalls(Base + Done, Base + Planned)
    /\ At("idle") /\ rec = Off /\ session = "open" => Orphans = {}
    /\ rec.pc \in {"decide", "replay"} => rec.todo = Orphans

CycleInv == Typed /\ LogInv /\ OpenInv

\* How many calls are planned and done, and which of them is the current one.
LEMMA Counts ==
    ASSUME Typed
    PROVE  /\ Base \in Nat /\ Planned \in Nat /\ Done \in Nat
           /\ Planning \/ Executing => Current = Base + cycle.at
           /\ Done <= Planned
           /\ At("step") \/ At("llm") \/ At("wrapup") =>
                /\ Planned = 0 /\ Done = 0 /\ Base = Len(tool)
                /\ ~Planning /\ ~Executing
<1>1. /\ cycle.at \in Nat \ {0} /\ Len(cycle.calls) \in Nat /\ Len(tool) \in Nat
      /\ Len(cycle.calls) <= Len(tool) /\ cycle.calls \in Seq(CallId)
  BY Locals DEF Typed, Shape
<1>2. Planning \/ Executing => cycle.at <= Len(cycle.calls)
  BY DEF Typed, Shape
<1>3. ~Planning /\ ~Executing => Len(cycle.calls) = 0
  BY DEF Typed, Shape
<1>4. At("propose") \/ At("hook") \/ At("asking") <=> Planning
  BY DEF At, Planning
<1>5. At("publish") => Executing /\ ~Planning
  BY DEF At, Executing, Planning
<1>6. ASSUME Planning \/ Executing PROVE Current = Base + cycle.at
  <2>1. cycle.at \in DOMAIN cycle.calls
    BY <1>1, <1>2, <1>6
  <2> QED
    BY <1>1, <2>1 DEF Typed, Shape, Current, Base
<1>7. At("step") \/ At("llm") \/ At("wrapup") =>
        ~Planning /\ ~Executing /\ ~At("propose") /\ ~At("hook") /\ ~At("asking") /\ ~At("publish")
  BY DEF At, Planning, Executing
<1> QED
  BY <1>1, <1>2, <1>3, <1>4, <1>5, <1>6, <1>7 DEF Base, Planned, Done

\* Nothing is open, or everything is as it was.
LEMMA OpenKept ==
    ASSUME Book, NEW low \in Nat, NEW high \in Nat, OpenCalls(low, high),
           Orphans' = Orphans, Proposals' = Proposals,
           \A i \in Proposals : About(i)' = About(i)
    PROVE  OpenCalls(low, high)'
BY Places DEF OpenCalls

\* Every proposal has a result exactly when no call is open.
LEMMA NoneOpen ==
    ASSUME Book, LogInv
    PROVE  /\ Orphans = {} => OpenCalls(Len(tool), Len(tool))
           /\ \A n \in Nat : OpenCalls(n, n) => Orphans = {}
<1>1. \A i \in Proposals : About(i) <= Len(tool)
  BY DEF LogInv, ProposedInOrder
<1>2. Len(tool) \in Nat /\ \A i \in Orphans : About(i) \in Nat
  BY Places
<1> QED
  BY <1>1, <1>2 DEF OpenCalls

\* A step that leaves the log alone leaves alone all that LogInv says of it.
LEMMA LogKept ==
    ASSUME LogInv, UNCHANGED <<log, tool>>
    PROVE  /\ LogInv' /\ Orphans' = Orphans /\ Proposals' = Proposals
           /\ \A i \in Proposals : About(i)' = About(i)
<1>1. Orphans' = Orphans /\ Proposals' = Proposals /\ \A i \in Proposals : About(i)' = About(i)
  BY DEF Orphans, Proposals, Answered, Where, About
<1>2. LogInv'
  BY <1>1 DEF LogInv, ProposedInOrder, ResultsMatchCalls, AnsweredInOrder, Where,
              About, Proposals, Results
<1> QED
  BY <1>1, <1>2

\* A step of the turn that leaves the log alone.
LEMMA Quietly ==
    ASSUME CycleInv, ~At("idle"), UNCHANGED <<log, tool, rec, session>>,
           Typed', ~At("idle")', (Base + Done)' = Base + Done, (Base + Planned)' = Base + Planned
    PROVE  CycleInv'
<1>1. /\ LogInv' /\ Orphans' = Orphans /\ Proposals' = Proposals
      /\ \A i \in Proposals : About(i)' = About(i)
  BY LogKept DEF CycleInv
<1>2. OpenCalls(Base + Done, Base + Planned)'
  <2>1. OpenCalls(Base + Done, Base + Planned) /\ Orphans \subseteq Proposals
    BY TypedParts, Places DEF CycleInv, OpenInv
  <2> QED
    BY <1>1, <2>1 DEF OpenCalls
<1>3. rec' = Off
  BY DEF CycleInv, Typed, Shape
<1>4. OpenInv'
  BY <1>2, <1>3 DEF OpenInv, Off
<1> QED
  BY <1>1, <1>4 DEF CycleInv

\* A turn that begins, ends, or goes on to its next step.
LEMMA PageTurned ==
    ASSUME Typed', LogInv', Orphans' = {}, rec' = Off,
           cycle'.pc \in {"idle", "step", "llm", "wrapup"}
    PROVE  CycleInv'
<1>1. ~Planning' /\ ~Executing'
  BY DEF Planning, Executing
<1>2. cycle'.calls = <<>> /\ Len(tool') \in Nat
  BY <1>1, TypedParts DEF Typed, Shape, Book
<1>3. Base' = Len(tool') /\ Done' = 0 /\ Planned' = 0
  BY <1>2 DEF Base, Done, Planned, At
<1>4. OpenCalls(Base + Done, Base + Planned)'
  BY <1>2, <1>3 DEF OpenCalls, LogInv, ProposedInOrder
<1>5. OpenInv'
  BY <1>4 DEF OpenInv, Off
<1> QED
  BY <1>5 DEF CycleInv

\* Before the next response every call is answered.
LEMMA BetweenSteps ==
    ASSUME CycleInv, At("step") \/ At("llm") \/ At("wrapup")
    PROVE  /\ Orphans = {} /\ ~At("idle") /\ rec = Off
           /\ Base + Done = Len(tool) /\ Base + Planned = Len(tool) /\ Len(tool) \in Nat
<1>1. Base + Done = Len(tool) /\ Base + Planned = Len(tool) /\ Len(tool) \in Nat
  BY Counts, Locals DEF CycleInv
<1>2. ~At("idle")
  BY DEF At
<1>3. OpenCalls(Len(tool), Len(tool))
  BY <1>1, <1>2 DEF CycleInv, OpenInv
<1> QED
  BY <1>1, <1>2, <1>3, NoneOpen, TypedParts DEF CycleInv, Typed, Shape

\* A turn begins with no call open.
LEMMA SubmitKeeps == ASSUME CycleInv, Submit PROVE CycleInv'
<1>1. Orphans = {} /\ rec' = Off /\ cycle'.pc = "step"
  BY IdleIs DEF Submit, CycleInv, OpenInv, Elsewhere, CycleType
<1>2. LogInv' /\ Orphans' = Orphans
  <2>1. User \in EventType /\ User.kind = "user.message"
    BY EventTypes DEF User, Event
  <2>2. log' = Append(log, User) /\ tool' = tool
    BY DEF Submit
  <2> QED
    BY <2>1, <2>2, OtherAppended, TypedParts, Places DEF CycleInv
<1> QED
  BY <1>1, <1>2, SubmitTyped, PageTurned DEF CycleInv

\* The model is asked with no call open.
LEMMA BeginStepKeeps == ASSUME CycleInv, BeginStep \/ LlmFails PROVE CycleInv'
<1>1. /\ At("step") \/ At("llm") \/ At("wrapup")
      /\ UNCHANGED <<log, tool, rec, session>>
  BY DEF BeginStep, LlmFails, Elsewhere
<1>2. LogInv' /\ Orphans' = {} /\ rec' = Off
  BY <1>1, BetweenSteps, LogKept DEF CycleInv
<1>3. Typed'
  BY BeginStepTyped, LlmFailsTyped DEF CycleInv
<1>4. cycle'.pc \in {"idle", "step", "llm", "wrapup"}
  BY EndCycleIs, IdleIs, Locals DEF BeginStep, LlmFails, CycleInv, CycleType
<1> QED
  BY <1>2, <1>3, <1>4, PageTurned

\* The calls of a response are new, and none of them has been proposed.
LEMMA AnswerKeeps ==
    ASSUME CycleInv, NEW batch \in Batches, LlmAnswers(batch) \/ WrapUp(batch)
    PROVE  CycleInv'
<1>1. /\ At("step") \/ At("llm") \/ At("wrapup")
      /\ Responds(batch) /\ UNCHANGED <<rec, session>>
  BY DEF LlmAnswers, WrapUp, Elsewhere
<1>2. Orphans = {} /\ Base + Planned = Len(tool) /\ rec = Off /\ Len(tool) \in Nat
      /\ OpenCalls(Len(tool), Len(tool))
  BY <1>1, BetweenSteps DEF CycleInv, OpenInv
<1> DEFINE calls == [i \in DOMAIN batch |-> Len(tool) + i]
<1>3. /\ Len(tool') \in Nat /\ Len(tool') = Len(tool) + Len(batch) /\ Len(batch) \in Nat
      /\ calls \in Seq(CallId) /\ Len(calls) = Len(batch)
  BY <1>1, <1>2, ResponseTyped DEF CycleInv, Typed
<1>4. log' = Append(log, Assistant(calls)) /\ Assistant(calls) \in EventType
      /\ Assistant(calls).kind = "assistant.message"
  BY <1>1, <1>3, EventTypes DEF Responds, Assistant, Event
<1>5. /\ LogInv' /\ Orphans' = {} /\ Proposals' = Proposals
      /\ \A i \in Proposals : About(i)' = About(i)
  <2> HIDE DEF calls
  <2> QED
    BY <1>2, <1>3, <1>4, OtherAppended, TypedParts DEF CycleInv
<1>6. Typed'
  BY AnswerTyped DEF CycleInv
<1>7. CASE EndCycle
  <2>1. cycle'.pc = "idle"
    BY <1>7, IdleIs DEF EndCycle
  <2> QED
    BY <1>1, <1>2, <1>5, <1>6, <2>1, PageTurned
<1>8. CASE ~EndCycle
  <2>1. /\ cycle' = [cycle EXCEPT !.pc = "propose", !.calls = calls] /\ At("llm")
    BY <1>8 DEF LlmAnswers, WrapUp
  <2> HIDE DEF calls
  <2>2. cycle'.pc = "propose" /\ cycle'.calls = calls /\ cycle'.at = 1
    BY <2>1, Locals DEF CycleInv, CycleType, Typed, Shape, Planning, Executing, At
  <2>3. Base' = Len(tool) /\ Planned' = 0 /\ Done' = 0
    BY <1>2, <1>3, <2>2 DEF Base, Planned, Done, At
  <2>4. OpenCalls(Base + Done, Base + Planned)'
    BY <1>2, <1>5, <2>3 DEF OpenCalls
  <2>5. OpenInv'
    BY <1>1, <1>2, <2>2, <2>4 DEF OpenInv, Off, At
  <2> QED
    BY <1>5, <1>6, <2>5 DEF CycleInv
<1> QED
  BY <1>7, <1>8

\* A proposal opens the current call.
LEMMA ProposeKeeps == ASSUME CycleInv, Propose PROVE CycleInv'
<1>1. /\ At("propose") /\ Planning /\ ~At("idle") /\ ~At("publish")
      /\ UNCHANGED <<tool, rec, session>>
      /\ log' = Append(log, Proposed(Current))
  BY DEF Propose, Planning, At, Elsewhere
<1>2. /\ Current = Base + cycle.at /\ Current \in CallId /\ Current <= Len(tool)
      /\ Base \in Nat /\ cycle.at \in Nat \ {0}
  BY <1>1, Counts, Locals DEF CycleInv
<1>3. Planned = cycle.at - 1 /\ Done = 0
  BY <1>1 DEF Planned, Done
<1>4. OpenCalls(Base, Current - 1)
  BY <1>1, <1>2, <1>3 DEF CycleInv, OpenInv
<1>5. \A i \in Proposals : About(i) \in Nat /\ About(i) < Current
  BY <1>2, <1>4, TypedParts, Places DEF OpenCalls, CycleInv
<1> PICK n : n = Len(log) + 1
  OBVIOUS
<1>6. /\ LogInv'
      /\ Proposals' = Proposals \cup {n} /\ Orphans' = Orphans \cup {n}
      /\ About(n)' = Current
      /\ \A i \in Proposals : About(i)' = About(i)
  BY <1>1, <1>2, <1>5, TypedParts, NextProposed DEF CycleInv
<1>7. cycle'.pc = "hook" /\ cycle'.at = cycle.at /\ cycle'.calls = cycle.calls
  BY Locals DEF CycleInv, Propose, CycleType
<1>8. Base' = Base /\ Planned' = cycle.at /\ Done' = 0
  BY <1>1, <1>7 DEF Base, Planned, Done, At
<1>9. OpenCalls(Base + Done, Base + Planned)'
  <2>1. Orphans \subseteq Proposals
    BY TypedParts, Places DEF CycleInv
  <2>2. (Base + Done)' = Base /\ (Base + Planned)' = Current
    BY <1>2, <1>8
  <2>3. \A c \in (Base + 1)..Current : c \in (Base + 1)..(Current - 1) \/ c = Current
    BY <1>2
  <2>4. \A c \in (Base + 1)..Current : \E i \in Orphans' : About(i)' = c
    BY <1>4, <1>6, <2>1, <2>3 DEF OpenCalls
  <2>5. \A i \in Proposals' : About(i)' <= Current
    BY <1>2, <1>5, <1>6, <2>1
  <2>6. \A i \in Orphans' : Base < About(i)' /\ About(i)' <= Current
    BY <1>2, <1>4, <1>5, <1>6, <2>1 DEF OpenCalls
  <2> QED
    BY <2>2, <2>4, <2>5, <2>6 DEF OpenCalls
<1>10. rec' = Off /\ ~At("idle")'
  BY <1>1, <1>7 DEF CycleInv, Typed, Shape, At
<1>11. OpenInv'
  BY <1>9, <1>10 DEF OpenInv, Off
<1> QED
  BY <1>6, <1>11, ProposeTyped DEF CycleInv

\* A verdict moves the plan to the next call, or to the tasks after the last.
LEMMA PlanKeeps ==
    ASSUME CycleInv, At("hook") \/ At("asking"), NEW v \in Vetoes, Plan(v), Typed',
           UNCHANGED <<log, tool, rec, session>>
    PROVE  CycleInv'
<1>1. ~At("idle") /\ ~At("publish") /\ ~At("propose")
  BY DEF At
<1>2. /\ cycle'.calls = cycle.calls
      /\ cycle'.pc = IF cycle.at = Len(cycle.calls) THEN "running" ELSE "propose"
      /\ cycle'.at = IF cycle.at = Len(cycle.calls) THEN 1 ELSE cycle.at + 1
  BY Locals DEF CycleInv, Plan, CycleType
<1>3. cycle.at \in Nat
  BY Locals DEF CycleInv
<1>4. Base' = Base /\ Planned' = Planned /\ Done' = Done
  BY <1>1, <1>2, <1>3 DEF Base, Planned, Done, At
<1> QED
  BY <1>1, <1>2, <1>4, Quietly DEF At

\* The turn and the log are left alone.
LEMMA Untouched ==
    ASSUME CycleInv, Typed', UNCHANGED <<log, tool, cycle, rec, session>>
    PROVE  CycleInv'
<1>1. /\ LogInv' /\ Orphans' = Orphans /\ Proposals' = Proposals
      /\ \A i \in Proposals : About(i)' = About(i)
  BY LogKept DEF CycleInv
<1>2. OpenInv'
  <2>1. Orphans \subseteq Proposals
    BY TypedParts, Places DEF CycleInv
  <2>2. /\ At("idle")' = At("idle") /\ Base' = Base /\ Planned' = Planned /\ Done' = Done
    BY DEF At, Base, Planned, Done
  <2>3. OpenCalls(Base + Done, Base + Planned) => OpenCalls(Base + Done, Base + Planned)'
    BY <1>1, <2>1, <2>2 DEF OpenCalls
  <2> QED
    BY <1>1, <2>2, <2>3 DEF CycleInv, OpenInv, Off
<1> QED
  BY <1>1, <1>2 DEF CycleInv

\* Each of the three ways to come to a verdict keeps the invariant.
LEMMA VerdictKeeps ==
    ASSUME CycleInv, BadArguments \/ AskTimesOut \/ Hook PROVE CycleInv'
<1>1. /\ At("hook") \/ At("asking")
      /\ UNCHANGED <<log, tool, rec, session>>
  BY DEF BadArguments, AskTimesOut, Hook, Elsewhere
<1>2. Typed'
  BY VerdictTyped, HookTyped DEF CycleInv
<1>3. CASE \E v \in Vetoes : Plan(v)
  BY <1>1, <1>2, <1>3, PlanKeeps
<1>4. CASE At("hook") /\ cycle' = [cycle EXCEPT !.pc = "asking"]
  <2>1. cycle'.pc = "asking" /\ cycle'.at = cycle.at /\ cycle'.calls = cycle.calls
    BY <1>4, Locals DEF CycleInv, CycleType
  <2>2. Base' = Base /\ Planned' = Planned /\ Done' = Done /\ ~At("idle") /\ ~At("idle")'
    BY <1>1, <1>4, <2>1 DEF Base, Planned, Done, At
  <2> QED
    BY <1>1, <1>2, <2>2, Quietly
<1> QED
  BY <1>3, <1>4 DEF BadArguments, AskTimesOut, Hook, Vetoes

\* A decision keeps the invariant.
LEMMA DecideKeeps ==
    ASSUME CycleInv, NEW c \in CallId, NEW approve \in BOOLEAN, Decide(c, approve)
    PROVE  CycleInv'
<1>1. UNCHANGED <<log, tool, rec, session>> /\ Typed'
  BY DecideTyped DEF CycleInv, Decide, Elsewhere
<1>2. CASE Awaits(c)
  <2>1. At("asking") /\ \E v \in Vetoes : Plan(v)
    BY <1>2 DEF Decide, Awaits, Vetoes
  <2> QED
    BY <1>1, <2>1, PlanKeeps
<1>3. CASE ~Awaits(c)
  BY <1>1, <1>3, Untouched DEF Decide
<1> QED
  BY <1>2, <1>3

\* Tools that start and end, in any order, keep the invariant.
LEMMA TasksKeep ==
    ASSUME CycleInv, NEW c \in CallId,
           Start(c) \/ \E outcome \in {"ok", "error", "panic"} : Finish(c, outcome)
    PROVE  CycleInv'
<1>1. Typed'
  BY StartTyped, FinishTyped DEF CycleInv
<1>2. UNCHANGED <<log, tool, cycle, rec, session>>
  BY DEF Start, Finish, Elsewhere
<1> QED
  BY <1>1, <1>2, Untouched

\* The collection of the outcomes keeps the invariant.
LEMMA CollectKeeps == ASSUME CycleInv, Collect PROVE CycleInv'
<1>1. /\ cycle'.pc = "publish" /\ cycle'.calls = cycle.calls /\ cycle'.at = 1
      /\ At("running") /\ UNCHANGED <<log, tool, rec, session>>
  BY Locals DEF Collect, CycleInv, CycleType, Elsewhere, Typed, Shape
<1>2. Base' = Base /\ Planned' = Planned /\ Done' = Done /\ ~At("idle") /\ ~At("idle")'
  BY <1>1 DEF Base, Planned, Done, At
<1> QED
  BY <1>1, <1>2, CollectTyped, Quietly DEF CycleInv

\* A result closes the current call, which comes after all that have one.
LEMMA PublishKeeps == ASSUME CycleInv, PublishResult PROVE CycleInv'
<1>1. /\ At("publish") /\ Executing /\ ~At("idle") /\ ~At("propose") /\ ~At("hook") /\ ~At("asking")
      /\ UNCHANGED <<tool, rec, session>> /\ rec = Off
  BY DEF PublishResult, Executing, At, Elsewhere, CycleInv, Typed, Shape
<1>2. /\ Current = Base + cycle.at /\ Base \in Nat /\ cycle.at \in Nat \ {0}
      /\ Len(cycle.calls) \in Nat /\ cycle.at <= Len(cycle.calls)
      /\ Len(tool) \in Nat /\ Base + Len(cycle.calls) = Len(tool)
  BY <1>1, Counts, Locals DEF CycleInv, Typed, Shape, Base
<1>3. Planned = Len(cycle.calls) /\ Done = cycle.at - 1
  BY <1>1 DEF Planned, Done
<1>4. OpenCalls(Current - 1, Len(tool))
  BY <1>1, <1>2, <1>3 DEF CycleInv, OpenInv
<1>5. PICK f \in Orphans : About(f) = Current
  BY <1>2, <1>4 DEF OpenCalls
<1>6. \A i \in Orphans : f <= i /\ i \in Nat /\ (i # f => About(i) > Current) /\ About(i) \in Nat
  <2>1. f \in Proposals /\ \A i \in Orphans : i \in Proposals /\ i \in Nat /\ About(i) \in Nat
    BY TypedParts, Places DEF CycleInv
  <2>2. \A i \in Orphans : Current <= About(i)
    BY <1>2, <1>4, <2>1 DEF OpenCalls
  <2>3. \A i, j \in Proposals : i < j => About(i) < About(j)
    BY DEF CycleInv, LogInv, ProposedInOrder
  <2> QED
    BY <1>5, <2>1, <2>2, <2>3
<1>7. OutcomeOf(cycle.at) \in Outcomes
  BY <1>1, <1>2, Locals DEF OutcomeOf, Outcomes, Vetoes, CycleInv, Typed, Shape
<1>8. /\ LogInv' /\ Proposals' = Proposals /\ Orphans' = Orphans \ {f}
      /\ \A i \in Proposals : About(i)' = About(i)
  <2>1. log' = Append(log, Result(Current, OutcomeOf(cycle.at)))
    BY DEF PublishResult
  <2>2. Book
    BY TypedParts DEF CycleInv
  <2> HIDE DEF LogInv, Orphans, Proposals
  <2> QED
    BY <1>1, <1>5, <1>6, <1>7, <2>1, <2>2, FirstAnswered DEF CycleInv
<1>9. /\ \A i \in Orphans' : Current < About(i)' /\ About(i)' <= Len(tool)
      /\ \A c \in (Current + 1)..Len(tool) : \E i \in Orphans' : About(i)' = c
      /\ \A i \in Proposals' : About(i)' <= Len(tool)
  <2>1. Orphans \subseteq Proposals
    BY TypedParts, Places DEF CycleInv
  <2>2. /\ \A i \in Orphans' : i \in Orphans /\ i # f /\ About(i)' = About(i)
        /\ \A i \in Orphans : About(i) # Current => i \in Orphans' /\ About(i)' = About(i)
    BY <1>5, <1>8, <2>1
  <2>3. \A c \in (Current + 1)..Len(tool) : c \in (Current - 1 + 1)..Len(tool) /\ c # Current
    BY <1>2
  <2>4. \A c \in (Current + 1)..Len(tool) : \E i \in Orphans' : About(i)' = c
    BY <1>4, <2>2, <2>3 DEF OpenCalls
  <2>5. \A i \in Proposals' : About(i)' <= Len(tool)
    BY <1>4, <1>8 DEF OpenCalls
  <2>6. \A i \in Orphans' : Current < About(i)' /\ About(i)' <= Len(tool)
    BY <1>2, <1>4, <1>6, <2>2 DEF OpenCalls
  <2> QED
    BY <2>4, <2>5, <2>6
<1>10. Typed'
  BY PublishTyped DEF CycleInv
<1>11. CASE cycle.at < Len(cycle.calls)
  <2>1. /\ cycle'.pc = "publish" /\ cycle'.calls = cycle.calls /\ cycle'.at = cycle.at + 1
    <3> DEFINE terminal == \/ cycle.terminal
                           \/ cycle.veto[cycle.at] = "none" /\ tool[Current] \in Terminal
    <3>1. cycle' = [cycle EXCEPT !.at = cycle.at + 1, !.terminal = terminal]
      BY <1>2, <1>11 DEF PublishResult
    <3>2. cycle \in CycleType /\ cycle.pc = "publish"
      BY <1>1, Locals DEF CycleInv, At
    <3> HIDE DEF terminal
    <3> QED
      BY <3>1, <3>2 DEF CycleType
  <2>2. Base' = Base /\ Planned' = Len(cycle.calls) /\ Done' = cycle.at
    BY <1>1, <1>2, <2>1 DEF Base, Planned, Done, At
  <2>3. (Base + Done)' = Current /\ (Base + Planned)' = Len(tool)
    BY <1>2, <2>2
  <2>4. OpenCalls(Base + Done, Base + Planned)'
    BY <1>9, <2>3 DEF OpenCalls
  <2>5. OpenInv'
    BY <1>1, <2>1, <2>4 DEF OpenInv, Off, At
  <2> QED
    BY <1>8, <1>10, <2>5 DEF CycleInv
<1>12. CASE cycle.at = Len(cycle.calls)
  <2>1. Orphans' = {}
    <3>1. Current = Len(tool)
      BY <1>2, <1>12
    <3>2. \A i \in Orphans' : About(i)' \in Nat
      BY <1>6, <1>8, TypedParts, Places DEF CycleInv
    <3> QED
      BY <1>2, <1>9, <3>1, <3>2
  <2>2. cycle'.pc \in {"idle", "step", "llm", "wrapup"}
    <3>1. EndCycle \/ cycle' = [Idle EXCEPT !.pc = "step", !.step = cycle.step]
      BY <1>2, <1>12 DEF PublishResult
    <3> QED
      BY <3>1, EndCycleIs, IdleIs DEF CycleType
  <2> QED
    BY <1>1, <1>8, <1>10, <2>1, <2>2, PageTurned
<1> QED
  BY <1>2, <1>11, <1>12

\* A cancel, the drop of a cycle and a stop of the process keep the invariant.
LEMMA StopsKeep ==
    ASSUME CycleInv,
           Cancel \/ NoticeCancel \/ \E kept \in saved..Len(log) : Crash(kept)
    PROVE  CycleInv'
<1>1. Typed'
  BY CancelTyped, NoticeCancelTyped, CrashTyped DEF CycleInv
<1>2. ASSUME Cancel PROVE CycleInv'
  BY <1>1, <1>2, Untouched DEF Cancel
<1>3. ASSUME LogInv', Dropped, rec' = [Off EXCEPT !.pc = "scan"] PROVE CycleInv'
  <2>1. At("idle")' /\ rec'.pc = "scan" /\ rec' # Off
    BY <1>3, DroppedIs DEF At, Off
  <2> QED
    BY <1>1, <1>3, <2>1 DEF CycleInv, OpenInv
<1>4. ASSUME NoticeCancel PROVE CycleInv'
  BY <1>3, <1>4, LogKept DEF NoticeCancel, CycleInv
<1>5. ASSUME NEW kept \in saved..Len(log), Crash(kept) PROVE CycleInv'
  <2>1. kept \in 0..Len(log)
    BY TypedParts DEF CycleInv, Book
  <2> QED
    BY <1>3, <1>5, <2>1, CutShort, TypedParts DEF Crash, CycleInv
<1> QED
  BY <1>2, <1>4, <1>5

\* The repair answers what is open in order, and hands on a log where nothing is.
LEMMA ReconcileKeeps == ASSUME CycleInv, Reconcile PROVE CycleInv'
<1>1. Book /\ Orphans \subseteq Proposals
  BY TypedParts, Places DEF CycleInv
<1>2. /\ UNCHANGED <<tool, cycle>> /\ rec # Off /\ At("idle") /\ At("idle")'
  BY DEF Reconcile, Scan, Report, Replay, Replayed, Refuse, Reconciled, Bystanders, Off,
         CycleInv, Typed, Shape, At
<1>3. rec.todo \subseteq Proposals
  BY <1>1 DEF CycleInv, OpenInv, Typed, Shape, Book
<1>4. Typed'
  BY <1>3, ReconcileTyped DEF CycleInv, Proposals
<1>5. ASSUME LogInv',
             rec'.pc \in {"decide", "replay"} => rec'.todo = Orphans',
             rec' = Off /\ session' = "open" => Orphans' = {}
      PROVE  CycleInv'
  BY <1>2, <1>4, <1>5 DEF CycleInv, OpenInv
<1>6. ASSUME Scan PROVE CycleInv'
  <2>1. LogInv' /\ Orphans' = Orphans /\ rec'.pc = "decide" /\ rec'.todo = Orphans /\ rec' # Off
    BY <1>6, LogKept DEF Scan, Bystanders, CycleInv, Off
  <2> QED
    BY <1>5, <2>1
<1>7. ASSUME NEW o \in Outcomes, Answer(o), rec.todo = Orphans, rec.todo # {} PROVE CycleInv'
  <2>1. First \in Orphans /\ \A i \in Orphans : First <= i
    BY <1>1, <1>7, FirstIs
  <2>2. log' = Append(log, Result(About(First), o)) /\ rec' = [pc |-> "decide", todo |-> rec.todo \ {First}]
    BY <1>7 DEF Answer, Orphan
  <2>3. LogInv' /\ Orphans' = Orphans \ {First}
    <3> DEFINE f == First
    <3>1. f \in Orphans /\ (\A i \in Orphans : f <= i) /\ log' = Append(log, Result(About(f), o))
      BY <2>1, <2>2
    <3> HIDE DEF f
    <3>2. LogInv' /\ Orphans' = Orphans \ {f}
      BY <1>1, <1>2, <3>1, FirstAnswered DEF CycleInv
    <3> QED
      BY <3>2 DEF f
  <2>4. rec'.pc = "decide" /\ rec'.todo = Orphans' /\ rec' # Off
    BY <1>7, <2>2, <2>3 DEF Off
  <2> QED
    BY <1>5, <2>3, <2>4
<1>8. ASSUME Report \/ Replayed PROVE CycleInv'
  <2>1. rec.todo = Orphans /\ rec.todo # {}
    BY <1>8 DEF Report, Replayed, CycleInv, OpenInv, Typed, Shape
  <2> QED
    BY <1>7, <1>8, <2>1 DEF Report, Replayed, Outcomes
<1>9. ASSUME Replay PROVE CycleInv'
  <2>1. rec'.pc = "replay" /\ rec'.todo = rec.todo /\ rec.todo = Orphans /\ rec' # Off
    BY <1>1, <1>9 DEF Replay, Book, CycleInv, OpenInv, Off
  <2>2. LogInv' /\ Orphans' = Orphans
    BY <1>9, LogKept DEF Replay, Bystanders, CycleInv
  <2> QED
    BY <1>5, <2>1, <2>2
<1>10. ASSUME Refuse \/ Reconciled PROVE CycleInv'
  <2>1. LogInv' /\ Orphans' = Orphans /\ rec' = Off
    BY <1>10, LogKept DEF Refuse, Reconciled, Bystanders, CycleInv
  <2>2. session' = "open" => Orphans = {}
    BY <1>10 DEF Refuse, Reconciled, CycleInv, OpenInv
  <2> QED
    BY <1>5, <2>1, <2>2 DEF Off
<1> QED
  BY <1>6, <1>8, <1>9, <1>10 DEF Reconcile

-----------------------------------------------------------------------------

\* A new session satisfies the invariant.
LEMMA InitHolds == TInit => CycleInv
<1> SUFFICES ASSUME TInit PROVE CycleInv
  OBVIOUS
<1>1. log = <<>> /\ At("idle") /\ rec = Off
  BY DEF TInit, Idle, At
<1>2. Proposals = {} /\ Results = {}
  BY <1>1 DEF Proposals, Results, Where
<1>3. LogInv
  BY <1>2 DEF LogInv, ProposedInOrder, ResultsMatchCalls, AnsweredInOrder, Results
<1>4. OpenInv
  BY <1>1, <1>2 DEF OpenInv, Orphans, Proposals, Off
<1> QED
  BY <1>3, <1>4, InitTyped DEF CycleInv

\* Every step keeps the invariant.
LEMMA StepKeeps == ASSUME CycleInv, [TNext]_tvars PROVE CycleInv'
<1>1. ASSUME Submit PROVE CycleInv'
  BY <1>1, SubmitKeeps
<1>2. ASSUME Turn PROVE CycleInv'
  BY <1>2, BeginStepKeeps, AnswerKeeps, ProposeKeeps, VerdictKeeps, TasksKeep,
     CollectKeeps, PublishKeeps, StopsKeep DEF Turn
<1>3. ASSUME NEW c \in CallId, NEW approve \in BOOLEAN, Decide(c, approve) PROVE CycleInv'
  BY <1>3, DecideKeeps
<1>4. ASSUME Cancel \/ \E kept \in saved..Len(log) : Crash(kept) PROVE CycleInv'
  BY <1>4, StopsKeep
<1>5. ASSUME Reconcile PROVE CycleInv'
  BY <1>5, ReconcileKeeps
<1>6. ASSUME UNCHANGED tvars PROVE CycleInv'
  <2>1. UNCHANGED <<log, tool, cycle, task, rec, session, cancelling, asked, approved,
                    runs, saved, stops>>
    BY <1>6 DEF tvars
  <2>2. Typed'
    BY <2>1 DEF CycleInv, Typed, TTypeOK, Shape, Planning, Executing, At
  <2> QED
    BY <2>1, <2>2, Untouched
<1> QED
  BY <1>1, <1>2, <1>3, <1>4, <1>5, <1>6 DEF TNext

\* In every state of every session, what is in the log, the locals of the turn
\* and the orphans of the repair agree.
THEOREM CycleInvariant == TSpec => []CycleInv
<1>1. CycleInv /\ [TNext]_tvars => CycleInv'
  BY StepKeeps
<1> QED
  BY <1>1, InitHolds, PTL DEF TSpec

\* The variables keep their types.
THEOREM TypesHold == TSpec => []TTypeOK
<1>1. CycleInv => TTypeOK
  BY DEF CycleInv, Typed
<1> QED
  BY <1>1, CycleInvariant, PTL

\* However turns are cut off and repaired, each call has one result, after its
\* proposal, and results are in the order of the calls.
THEOREM ResultsKeepTheirOrder == TSpec => []ResultsMatchCalls
<1>1. CycleInv => ResultsMatchCalls
  BY DEF CycleInv, LogInv
<1> QED
  BY <1>1, CycleInvariant, PTL

\* The model is never asked while a proposed call has no result.
THEOREM NoRequestWithOpenCalls == TSpec => []AnsweredBeforeRequest
<1>1. CycleInv => AnsweredBeforeRequest
  BY BetweenSteps DEF AnsweredBeforeRequest, Orphans
<1> QED
  BY <1>1, CycleInvariant, PTL

-----------------------------------------------------------------------------
(* What becomes of the executions of tools: results say what has happened, *)
(* and approvals are waited for.                                           *)

\* A result with outcome `o` says the truth of the call `c`.
Told(c, o) ==
    /\ o \in {"denied", "aborted"} => runs[c] = 0
    /\ o \in {"ok", "replayed"} => runs[c] > 0
    /\ o = "ok" => runs[c] = 1
    /\ task[c] \notin {"waiting", "running"}

ResultsTold == \A j \in Results : Told(About(j), log[j].outcome)

\* Calls nobody has made have not run, and only those that may be replayed have
\* run twice; a replay that is under way has begun.
Counted ==
    /\ \A c \in CallId : c > Len(tool) => runs[c] = 0
    /\ \A c \in CallId : runs[c] > 1 => Policy[tool[c]] = "replay"
    /\ rec.pc = "replay" => runs[Orphan] > 0

\* The calls of the cycle: none has run while they are planned; then those with
\* no veto have a task, which has run the call unless it is waiting still.
Underway ==
    /\ Planning => \A c \in CallId : c > Base => runs[c] = 0
    /\ Executing => \A k \in DOMAIN cycle.calls :
         IF cycle.veto[k] = "none"
         THEN /\ task[cycle.calls[k]] # "none"
              /\ runs[cycle.calls[k]] = IF task[cycle.calls[k]] = "waiting" THEN 0 ELSE 1
         ELSE task[cycle.calls[k]] = "none" /\ runs[cycle.calls[k]] = 0
    /\ \A c \in CallId : task[c] # "none" => c > Base /\ c <= Len(tool)
    /\ At("publish") => Joined

RunInv == ResultsTold /\ Counted /\ Underway

-----------------------------------------------------------------------------

\* What the invariant of the cycle says of the types of what is counted here.
LEMMA Typings ==
    ASSUME CycleInv
    PROVE  /\ runs \in [CallId -> Nat] /\ Len(tool) \in Nat /\ Len(log) \in Nat
           /\ task \in TaskType
           /\ CallId \subseteq Nat /\ Base \in Nat
           /\ Len(cycle.calls) \in Nat /\ DOMAIN cycle.calls = 1..Len(cycle.calls)
           /\ Base + Len(cycle.calls) = Len(tool)
           /\ \A k \in DOMAIN cycle.calls : cycle.calls[k] = Base + k /\ cycle.calls[k] \in CallId
           /\ ~Executing => task = NoTasks
           /\ ~At("idle") => rec = Off
<1>1. /\ runs \in [CallId -> Nat] /\ Len(tool) \in Nat /\ Len(log) \in Nat /\ task \in TaskType
  BY TypedParts, Locals, Places DEF CycleInv, Book
<1>2. CallId \subseteq Nat /\ Base \in Nat
  BY BoundsAssumption, Counts DEF CallId, CycleInv
<1>3. /\ cycle.calls \in Seq(CallId) /\ Len(cycle.calls) \in Nat
  BY Locals DEF CycleInv
<1>4. \A k \in DOMAIN cycle.calls : cycle.calls[k] = Base + k
  BY DEF CycleInv, Typed, Shape, Base
<1>5. Base + Len(cycle.calls) = Len(tool)
  BY <1>1, <1>3 DEF Base
<1> QED
  BY <1>1, <1>2, <1>3, <1>4, <1>5 DEF CycleInv, Typed, Shape

\* While calls are planned and run, none of them has a result.
LEMMA Unanswered ==
    ASSUME CycleInv, Planning \/ At("running"), NEW c \in CallId, c > Base
    PROVE  c \notin Answered
<1> SUFFICES ASSUME c \in Answered PROVE FALSE
  OBVIOUS
<1>1. PICK j \in Results : About(j) = c
  BY DEF Answered, Results
<1>2. PICK i \in 1..(j - 1) : log[i] = Proposed(c)
  BY <1>1 DEF CycleInv, LogInv, ResultsMatchCalls, Results
<1>3. i \in Proposals /\ About(i) = c
  BY <1>1, <1>2, TypedParts, Places DEF CycleInv, Proposals, Where, Proposed, Event, About
<1>4. ~At("idle") /\ Done = 0 /\ Base \in Nat /\ Planned \in Nat
  BY Counts DEF Planning, At, Done, CycleInv
<1>5. OpenCalls(Base, Base + Planned)
  BY <1>4 DEF CycleInv, OpenInv
<1>6. c \in (Base + 1)..(Base + Planned)
  BY <1>3, <1>4, <1>5, Typings DEF OpenCalls
<1>7. \E h \in Orphans : About(h) = c
  BY <1>5, <1>6 DEF OpenCalls
<1> QED
  BY <1>7 DEF Orphans

\* What is left of the results after a step that publishes none.
LEMMA SameResults ==
    ASSUME Book,
           \/ log' = log
           \/ \E e \in EventType : e.kind # "tool.result" /\ log' = Append(log, e)
           \/ \E n \in 0..Len(log) : log' = SubSeq(log, 1, n)
    PROVE  \A j \in Results' : j \in Results /\ log'[j] = log[j] /\ About(j)' = About(j)
<1>1. CASE log' = log
  BY <1>1 DEF Results, Where, About
<1>2. CASE \E e \in EventType : e.kind # "tool.result" /\ log' = Append(log, e)
  <2>1. PICK e \in EventType : e.kind # "tool.result" /\ log' = Append(log, e)
    BY <1>2
  <2> PICK n : n = Len(log) + 1
    OBVIOUS
  <2>2. /\ \A i \in 1..Len(log) : log'[i] = log[i] /\ About(i)' = About(i)
        /\ Results' = Results \cup {i \in {n} : e.kind = "tool.result"}
    BY <2>1, Appended
  <2>3. {i \in {n} : e.kind = "tool.result"} = {}
    BY <2>1
  <2> QED
    BY <2>2, <2>3, Places
<1>3. CASE \E n \in 0..Len(log) : log' = SubSeq(log, 1, n)
  <2>1. PICK n \in 0..Len(log) : log' = SubSeq(log, 1, n)
    BY <1>3
  <2>2. DOMAIN log' = 1..n /\ \A i \in 1..n : log'[i] = log[i] /\ i \in DOMAIN log
    BY <2>1, Prefix
  <2> QED
    BY <2>2 DEF Results, Where, About
<1> QED
  BY <1>1, <1>2, <1>3

\* No step runs what is answered.
LEMMA StillTold ==
    ASSUME ResultsTold,
           \A j \in Results' : j \in Results /\ log'[j] = log[j] /\ About(j)' = About(j),
           \A c \in Answered : runs'[c] = runs[c] /\ task'[c] \notin {"waiting", "running"}
    PROVE  ResultsTold'
<1> SUFFICES ASSUME NEW j \in Results' PROVE Told(About(j), log[j].outcome)'
  BY DEF ResultsTold
<1>1. j \in Results /\ log'[j] = log[j] /\ About(j)' = About(j) /\ Told(About(j), log[j].outcome)
  BY DEF ResultsTold
<1>2. About(j) \in Answered
  BY <1>1 DEF Answered, Results
<1> QED
  BY <1>1, <1>2 DEF Told

\* A step after which no call is planned or run, and that runs none.
LEMMA Resting ==
    ASSUME CycleInv, CycleInv', RunInv, ~Planning', ~Executing', rec'.pc # "replay",
           runs' = runs, Len(tool') >= Len(tool),
           \A c \in 1..Len(tool) : tool'[c] = tool[c]
    PROVE  Counted' /\ Underway'
<1>1. task' = NoTasks /\ ~At("publish")'
  BY DEF CycleInv, Typed, Shape, Executing, At
<1>2. Underway'
  BY <1>1 DEF Underway, NoTasks
<1>3. Len(tool) \in Nat /\ Len(tool') \in Nat /\ CallId \subseteq Nat /\ runs \in [CallId -> Nat]
  BY Typings, TypedParts DEF CycleInv, Book
<1>4. \A c \in CallId : c > Len(tool') => runs[c] = 0
  BY <1>3 DEF RunInv, Counted
<1>5. \A c \in CallId : runs[c] > 1 => c \in 1..Len(tool)
  BY <1>3 DEF RunInv, Counted, CallId
<1>6. \A c \in CallId : runs[c] > 1 => Policy[tool'[c]] = "replay"
  BY <1>5 DEF RunInv, Counted
<1>7. Counted'
  BY <1>4, <1>6 DEF Counted
<1> QED
  BY <1>2, <1>7

\* Submitting, asking the model, ending, cancelling and stopping.
LEMMA RestingSteps ==
    ASSUME CycleInv, CycleInv', RunInv,
           \/ Submit \/ BeginStep \/ LlmFails
           \/ \E batch \in Batches : WrapUp(batch) \/ (LlmAnswers(batch) /\ EndCycle)
           \/ NoticeCancel
           \/ \E kept \in saved..Len(log) : Crash(kept)
    PROVE  RunInv'
<1>1. Book
  BY TypedParts DEF CycleInv
<1>2. \/ log' = log
      \/ \E e \in EventType : e.kind # "tool.result" /\ log' = Append(log, e)
      \/ \E n \in 0..Len(log) : log' = SubSeq(log, 1, n)
  <2>1. CASE Submit
    <3>1. User.kind # "tool.result"
      BY DEF User, Event
    <3> QED
      BY <2>1, <3>1, EventTypes DEF Submit
  <2>2. CASE \E batch \in Batches : Responds(batch)
    <3>1. PICK batch \in Batches : Responds(batch)
      BY <2>2
    <3> DEFINE calls == [i \in DOMAIN batch |-> Len(tool) + i]
    <3>2. calls \in Seq(CallId)
      BY <3>1, ResponseTyped DEF CycleInv, Typed
    <3>3. log' = Append(log, Assistant(calls))
      BY <3>1 DEF Responds
    <3> HIDE DEF calls
    <3>4. Assistant(calls) \in EventType /\ Assistant(calls).kind # "tool.result"
      BY <3>2, EventTypes DEF Assistant, Event
    <3> QED
      BY <3>3, <3>4
  <2>3. CASE \E kept \in saved..Len(log) : Crash(kept)
    <3>1. PICK kept \in saved..Len(log) : Crash(kept)
      BY <2>3
    <3>2. kept \in 0..Len(log)
      BY <1>1 DEF Book
    <3> QED
      BY <3>1, <3>2 DEF Crash
  <2>4. CASE BeginStep \/ LlmFails \/ NoticeCancel
    BY <2>4 DEF BeginStep, LlmFails, NoticeCancel
  <2> QED
    BY <2>1, <2>2, <2>3, <2>4 DEF WrapUp, LlmAnswers
<1>3. runs' = runs /\ rec'.pc # "replay"
  <2>1. CASE NoticeCancel \/ \E kept \in saved..Len(log) : Crash(kept)
    BY <2>1 DEF NoticeCancel, Crash, Off
  <2>2. CASE ~(NoticeCancel \/ \E kept \in saved..Len(log) : Crash(kept))
    <3>1. rec = Off /\ rec' = rec
      <4>1. CASE Submit
        BY <4>1 DEF Submit, Elsewhere
      <4>2. CASE ~Submit
        BY <2>2, <4>2, Typings DEF BeginStep, LlmFails, WrapUp, LlmAnswers, Elsewhere, At
      <4> QED
        BY <4>1, <4>2
    <3> QED
      BY <2>2, <3>1 DEF Submit, BeginStep, LlmFails, WrapUp, LlmAnswers, Off
  <2> QED
    BY <2>1, <2>2
<1>4. cycle'.pc \in {"idle", "step", "llm", "wrapup"}
  BY EndCycleIs, IdleIs, DroppedIs, Locals
     DEF Submit, BeginStep, LlmFails, WrapUp, NoticeCancel, Crash, CycleInv, CycleType
<1>5. ~Planning' /\ ~Executing'
  BY <1>4 DEF Planning, Executing
<1>6. Len(tool') >= Len(tool) /\ \A c \in 1..Len(tool) : tool'[c] = tool[c]
  <2>1. CASE \E batch \in Batches : Responds(batch)
    <3>1. PICK batch \in Batches : Responds(batch)
      BY <2>1
    <3>2. /\ Len(tool') = Len(tool) + Len(batch)
          /\ \A c \in 1..Len(tool) : tool'[c] = tool[c]
          /\ Len(batch) \in Nat
      BY <3>1, ResponseTyped DEF CycleInv, Typed
    <3> QED
      BY <3>2, Typings
  <2>2. CASE tool' = tool
    BY <2>2, Typings
  <2> QED
    BY <2>1, <2>2 DEF Submit, BeginStep, LlmFails, WrapUp, LlmAnswers, NoticeCancel, Crash
<1>7. task' = NoTasks
  BY <1>5 DEF CycleInv, Typed, Shape
<1>8. Answered \subseteq CallId
  BY <1>1, Places DEF Answered, Results
<1>9. ResultsTold'
  BY <1>1, <1>2, <1>3, <1>7, <1>8, SameResults, StillTold DEF RunInv, NoTasks
<1> QED
  BY <1>3, <1>5, <1>6, <1>9, Resting DEF RunInv

\* A response with calls: they are new.
LEMMA NewCalls ==
    ASSUME CycleInv, CycleInv', RunInv,
           NEW batch \in Batches, LlmAnswers(batch), ~EndCycle
    PROVE  RunInv'
<1> DEFINE calls == [i \in DOMAIN batch |-> Len(tool) + i]
<1>1. /\ At("llm") /\ Responds(batch) /\ UNCHANGED <<task, runs, rec>>
      /\ cycle' = [cycle EXCEPT !.pc = "propose", !.calls = calls]
  BY DEF LlmAnswers, Elsewhere
<1>2. /\ calls \in Seq(CallId) /\ Len(calls) = Len(batch) /\ Len(batch) \in Nat
      /\ Len(tool') = Len(tool) + Len(batch)
      /\ \A c \in 1..Len(tool) : tool'[c] = tool[c]
  BY <1>1, ResponseTyped DEF CycleInv, Typed
<1>3. log' = Append(log, Assistant(calls))
  BY <1>1 DEF Responds
<1> HIDE DEF calls
<1>4. Book /\ Assistant(calls) \in EventType /\ Assistant(calls).kind # "tool.result"
  BY <1>2, EventTypes, TypedParts DEF Assistant, Event, CycleInv
<1>5. task = NoTasks /\ rec.pc = "off" /\ Len(tool) \in Nat
  BY <1>1, Typings DEF At, Executing, Off
<1>6. ResultsTold'
  <2>1. Answered \subseteq CallId
    BY <1>4, Places DEF Answered, Results
  <2> QED
    BY <1>1, <1>3, <1>4, <1>5, <2>1, SameResults, StillTold DEF RunInv, NoTasks
<1>7. cycle'.pc = "propose" /\ cycle'.calls = calls
  BY <1>1, Locals DEF CycleInv, CycleType
<1>8. Base' = Len(tool) /\ Planning' /\ ~Executing' /\ ~At("publish")'
  BY <1>2, <1>5, <1>7 DEF Base, Planning, Executing, At
<1>9. Underway'
  BY <1>1, <1>5, <1>8 DEF RunInv, Counted, Underway, NoTasks
<1>10. Counted'
  <2>1. CallId \subseteq Nat /\ runs \in [CallId -> Nat]
    BY Typings
  <2>2. \A c \in CallId : runs[c] > 1 => c \in 1..Len(tool)
    BY <1>5, <2>1 DEF RunInv, Counted, CallId
  <2>3. \A c \in CallId : c > Len(tool') => runs'[c] = 0
    BY <1>1, <1>2, <1>5, <2>1 DEF RunInv, Counted
  <2>4. \A c \in CallId : runs'[c] > 1 => Policy[tool'[c]] = "replay"
    BY <1>1, <1>2, <2>2 DEF RunInv, Counted
  <2>5. rec'.pc # "replay"
    BY <1>1, <1>5
  <2> QED
    BY <2>3, <2>4, <2>5 DEF Counted
<1> QED
  BY <1>6, <1>9, <1>10 DEF RunInv

\* A step that runs nothing and leaves the cycle's calls as they are.
LEMMA NothingRuns ==
    ASSUME CycleInv, RunInv, UNCHANGED <<tool, task, runs, rec>>, log' = log \/ rec.pc # "replay",
           cycle'.calls = cycle.calls, cycle'.veto = cycle.veto,
           Planning' => Planning, Executing' => Executing,
           At("publish")' => Joined
    PROVE  Counted' /\ Underway'
<1>1. Base' = Base /\ Joined' = Joined
  BY DEF Base, Joined
<1>2. Underway'
  BY <1>1 DEF RunInv, Underway
<1>3. Counted'
  BY DEF RunInv, Counted, Orphan, First, About
<1> QED
  BY <1>2, <1>3

\* Results stay true when no step runs anything and no task begins.
LEMMA ToldOn ==
    ASSUME CycleInv, RunInv,
           \A j \in Results' : j \in Results /\ log'[j] = log[j] /\ About(j)' = About(j),
           UNCHANGED <<runs, task>>
    PROVE  ResultsTold'
<1>1. \A c \in Answered : task[c] \notin {"waiting", "running"}
  <2> SUFFICES ASSUME NEW j \in Results PROVE task[About(j)] \notin {"waiting", "running"}
    BY DEF Answered, Results
  <2> QED
    BY DEF RunInv, ResultsTold, Told
<1> QED
  BY <1>1, StillTold DEF RunInv

\* Proposing a call, asking about it, collecting the tasks, asking for a
\* cancellation: nothing runs.
LEMMA QuietSteps ==
    ASSUME CycleInv, RunInv,
           \/ Propose \/ Collect \/ Cancel
           \/ Hook /\ cycle' = [cycle EXCEPT !.pc = "asking"] /\ UNCHANGED task
           \/ \E c \in CallId, approve \in BOOLEAN : Decide(c, approve) /\ ~Awaits(c)
    PROVE  RunInv'
<1>1. Book /\ cycle \in CycleType
  BY TypedParts DEF CycleInv
<1>2. UNCHANGED <<tool, task, runs, rec>>
  BY DEF Propose, Collect, Cancel, Hook, Decide, Elsewhere
<1>3. /\ cycle'.calls = cycle.calls /\ cycle'.veto = cycle.veto
      /\ Planning' => Planning
      /\ Executing' => Executing
      /\ At("publish")' => Joined
  <2>1. CASE Propose
    BY <1>1, <2>1 DEF Propose, CycleType, Planning, Executing, At
  <2>2. CASE Collect
    BY <1>1, <2>2 DEF Collect, CycleType, Planning, Executing, At
  <2>3. CASE Hook /\ cycle' = [cycle EXCEPT !.pc = "asking"] /\ UNCHANGED task
    BY <1>1, <2>3 DEF Hook, CycleType, Planning, Executing, At
  <2>4. CASE cycle' = cycle
    BY <2>4 DEF Planning, Executing, At, RunInv, Underway
  <2> QED
    BY <2>1, <2>2, <2>3, <2>4 DEF Cancel, Decide
<1>4. log' = log \/ (Propose /\ rec.pc # "replay")
  BY Typings DEF Propose, Collect, Cancel, Hook, Decide, At, Off
<1>5. \/ log' = log
      \/ \E e \in EventType : e.kind # "tool.result" /\ log' = Append(log, e)
  <2>1. CASE Propose
    <3>1. Current \in CallId
      BY <2>1, Locals DEF CycleInv, Propose, Planning, At
    <3>2. Proposed(Current) \in EventType /\ Proposed(Current).kind # "tool.result"
      BY <3>1, EventTypes DEF Proposed, Event
    <3> QED
      BY <2>1, <3>2 DEF Propose
  <2> QED
    BY <1>4, <2>1
<1>6. ResultsTold'
  BY <1>1, <1>2, <1>5, SameResults, ToldOn
<1> QED
  BY <1>2, <1>3, <1>4, <1>6, NothingRuns DEF RunInv

\* A call is planned; after the last one there is a task for each call that was
\* not vetoed.
LEMMA PlanTold ==
    ASSUME CycleInv, CycleInv', RunInv, At("hook") \/ At("asking"),
           NEW v \in Vetoes, Plan(v), UNCHANGED <<log, tool, runs, rec>>
    PROVE  RunInv'
<1> DEFINE veto == Append(cycle.veto, VetoOf(v))
<1>1. /\ cycle'.calls = cycle.calls /\ cycle'.veto = veto
      /\ cycle'.pc = IF cycle.at = Len(cycle.calls) THEN "running" ELSE "propose"
  BY Locals DEF CycleInv, Plan, CycleType
<1>2. Planning /\ ~Executing /\ Base' = Base /\ task = NoTasks
  BY <1>1, Typings DEF Planning, Executing, At, Base
<1>3. \A c \in CallId : c > Base => runs[c] = 0 /\ c \notin Answered
  BY <1>2, Unanswered DEF RunInv, Underway
<1>4. Counted'
  BY DEF RunInv, Counted, Orphan, First, About
<1>5. CASE cycle.at # Len(cycle.calls)
  <2>1. task' = task /\ Planning' /\ ~Executing' /\ ~At("publish")'
    BY <1>1, <1>5 DEF Plan, Planning, Executing, At
  <2>2. Underway'
    BY <1>2, <1>3, <2>1 DEF RunInv, Underway
  <2>3. ResultsTold'
    BY <2>1, ToldOn DEF Results, Where, About
  <2> QED
    BY <1>4, <2>2, <2>3 DEF RunInv
<1>6. CASE cycle.at = Len(cycle.calls)
  <2>1. ~Planning' /\ Executing' /\ ~At("publish")'
    BY <1>1, <1>6 DEF Planning, Executing, At
  <2>2. /\ Len(veto) = Len(cycle.calls) /\ DOMAIN veto = DOMAIN cycle.calls
    <3>1. Len(cycle.veto) = cycle.at - 1 /\ cycle.veto \in Seq(Vetoes)
      BY <1>2, Locals DEF CycleInv, Typed, Shape
    <3>2. VetoOf(v) \in Vetoes
      BY DEF VetoOf, Vetoes
    <3>3. veto \in Seq(Vetoes) /\ Len(veto) = cycle.at
      BY <3>1, <3>2, Locals DEF CycleInv
    <3> HIDE DEF veto
    <3> QED
      BY <1>6, <3>3, Typings
  <2>3. \A c \in CallId : task'[c] = IF \E i \in DOMAIN veto : cycle.calls[i] = c /\ veto[i] = "none"
                                     THEN "waiting" ELSE "none"
    BY <1>6 DEF Plan
  <2> HIDE DEF veto
  <2>4. \A k \in DOMAIN cycle.calls :
          /\ cycle.calls[k] \in CallId /\ cycle.calls[k] > Base /\ cycle.calls[k] <= Len(tool)
          /\ task'[cycle.calls[k]] = IF veto[k] = "none" THEN "waiting" ELSE "none"
    <3> SUFFICES ASSUME NEW k \in DOMAIN cycle.calls
                 PROVE  /\ cycle.calls[k] \in CallId /\ cycle.calls[k] > Base
                        /\ cycle.calls[k] <= Len(tool)
                        /\ task'[cycle.calls[k]] = IF veto[k] = "none" THEN "waiting" ELSE "none"
      OBVIOUS
    <3>1. /\ cycle.calls[k] \in CallId /\ cycle.calls[k] > Base /\ cycle.calls[k] <= Len(tool)
          /\ \A i \in DOMAIN cycle.calls : cycle.calls[i] = cycle.calls[k] => i = k
      BY Typings
    <3> QED
      BY <2>2, <2>3, <3>1
  <2>5. \A c \in CallId : task'[c] # "none" => c > Base /\ c <= Len(tool)
    BY <2>2, <2>3, <2>4
  <2>6. Underway'
    BY <1>1, <1>2, <1>3, <2>1, <2>4, <2>5 DEF Underway
  <2>7. \A c \in Answered : task'[c] \notin {"waiting", "running"}
    <3>1. \A c \in Answered : c \in CallId
      BY TypedParts, Places DEF CycleInv, Answered, Results
    <3>2. \A c \in CallId : task'[c] \in {"waiting", "running"} => c \notin Answered
      BY <1>3, <2>5
    <3> QED
      BY <3>1, <3>2
  <2>8. ResultsTold'
    BY <2>7, StillTold DEF RunInv, Results, Where, About
  <2> QED
    BY <1>4, <2>6, <2>8 DEF RunInv
<1> QED
  BY <1>5, <1>6

\* A task that is not over belongs to a call of the cycle that was not vetoed.
LEMMA TaskOf ==
    ASSUME CycleInv, RunInv, NEW c \in CallId, task[c] # "none"
    PROVE  /\ Executing /\ c > Base /\ c <= Len(tool)
           /\ \E k \in DOMAIN cycle.calls : cycle.calls[k] = c /\ cycle.veto[k] = "none"
           /\ runs[c] = IF task[c] = "waiting" THEN 0 ELSE 1
           /\ task[c] \in {"waiting", "running"} => At("running") /\ c \notin Answered
<1>1. Executing
  BY Typings DEF NoTasks
<1>2. c > Base /\ c <= Len(tool)
  BY DEF RunInv, Underway
<1>3. PICK k \in DOMAIN cycle.calls : cycle.calls[k] = c
  <2>1. c \in Nat /\ Base \in Nat /\ c - Base \in 1..Len(cycle.calls)
    BY <1>2, Typings
  <2>2. c - Base \in DOMAIN cycle.calls /\ cycle.calls[c - Base] = Base + (c - Base)
    BY <2>1, Typings
  <2>3. cycle.calls[c - Base] = c
    BY <2>1, <2>2
  <2> QED
    BY <2>2, <2>3
<1>4. cycle.veto[k] = "none" /\ runs[c] = IF task[c] = "waiting" THEN 0 ELSE 1
  BY <1>1, <1>3 DEF RunInv, Underway
<1>5. task[c] \in {"waiting", "running"} => At("running")
  BY <1>1 DEF RunInv, Underway, Joined, Executing, At
<1> QED
  BY <1>1, <1>2, <1>3, <1>4, <1>5, Unanswered

\* The execution of a tool that starts is counted.
LEMMA StartTold == ASSUME CycleInv, RunInv, NEW c \in CallId, Start(c) PROVE RunInv'
<1>1. /\ task[c] = "waiting" /\ UNCHANGED <<log, tool, cycle, rec>>
      /\ task' = [task EXCEPT ![c] = "running"]
      /\ runs' = [runs EXCEPT ![c] = @ + 1]
  BY DEF Start, Elsewhere
<1>2. /\ At("running") /\ ~Planning /\ c \notin Answered /\ runs[c] = 0
      /\ c > Base /\ c <= Len(tool) /\ rec = Off
      /\ \E k \in DOMAIN cycle.calls : cycle.calls[k] = c /\ cycle.veto[k] = "none"
  BY <1>1, TaskOf, Typings DEF At, Planning
<1>3. /\ task'[c] = "running" /\ runs'[c] = 1
      /\ \A d \in CallId : d # c => task'[d] = task[d] /\ runs'[d] = runs[d]
  BY <1>1, <1>2, Typings DEF TaskType
<1>4. ResultsTold'
  <2>1. \A d \in Answered : d \in CallId
    BY TypedParts, Places DEF CycleInv, Answered, Results
  <2>2. \A d \in Answered : task[d] \notin {"waiting", "running"}
    BY DEF RunInv, ResultsTold, Told, Answered, Results
  <2> QED
    BY <1>1, <1>2, <1>3, <2>1, <2>2, StillTold DEF RunInv, Results, Where, About
<1>5. Counted'
  <2>1. rec'.pc # "replay"
    BY <1>1, <1>2 DEF Off
  <2>2. \A d \in CallId : d > Len(tool) => runs'[d] = 0
    BY <1>2, <1>3, Typings DEF RunInv, Counted
  <2>3. \A d \in CallId : runs'[d] > 1 => Policy[tool[d]] = "replay"
    BY <1>3 DEF RunInv, Counted
  <2> QED
    BY <1>1, <2>1, <2>2, <2>3 DEF Counted
<1>6. Underway'
  <2>1. Base' = Base /\ ~Planning' /\ ~At("publish")' /\ Executing /\ (Executing' <=> Executing)
    BY <1>1, <1>2 DEF Base, Planning, Executing, At
  <2>2. ASSUME NEW k \in DOMAIN cycle.calls
        PROVE  IF cycle.veto[k] = "none"
               THEN /\ task'[cycle.calls[k]] # "none"
                    /\ runs'[cycle.calls[k]] = IF task'[cycle.calls[k]] = "waiting" THEN 0 ELSE 1
               ELSE task'[cycle.calls[k]] = "none" /\ runs'[cycle.calls[k]] = 0
    <3>1. CASE cycle.calls[k] = c
      <4>1. cycle.veto[k] = "none"
        BY <1>2, <3>1, Typings
      <4> QED
        BY <1>3, <3>1, <4>1
    <3>2. CASE cycle.calls[k] # c
      <4>1. PICK e : e = cycle.calls[k]
        OBVIOUS
      <4>2. e # c /\ task'[e] = task[e] /\ runs'[e] = runs[e]
        BY <1>3, <3>2, <4>1, Typings
      <4>3. IF cycle.veto[k] = "none"
            THEN /\ task[e] # "none"
                 /\ runs[e] = IF task[e] = "waiting" THEN 0 ELSE 1
            ELSE task[e] = "none" /\ runs[e] = 0
        BY <1>3, <2>1, <4>1 DEF RunInv, Underway
      <4> QED
        BY <4>1, <4>2, <4>3
    <3> QED
      BY <3>1, <3>2
  <2>3. \A d \in CallId : task'[d] # "none" => d > Base /\ d <= Len(tool)
    BY <1>2, <1>3 DEF RunInv, Underway
  <2> QED
    BY <1>1, <2>1, <2>2, <2>3 DEF Underway
<1> QED
  BY <1>4, <1>5, <1>6 DEF RunInv

\* The outcome of a tool that ends waits for its publication.
LEMMA FinishTold ==
    ASSUME CycleInv, RunInv, NEW c \in CallId, NEW outcome \in {"ok", "error", "panic"},
           Finish(c, outcome)
    PROVE  RunInv'
<1>1. /\ task[c] = "running" /\ UNCHANGED <<log, tool, cycle, rec, runs>>
      /\ task' = [task EXCEPT ![c] = outcome]
  BY DEF Finish, Elsewhere
<1>2. /\ At("running") /\ ~Planning /\ c > Base /\ c <= Len(tool) /\ runs[c] = 1
  BY <1>1, TaskOf DEF At, Planning
<1>3. /\ task'[c] = outcome
      /\ \A d \in CallId : d # c => task'[d] = task[d]
  BY <1>1, Typings DEF TaskType
<1>4. ResultsTold'
  <2>1. \A d \in Answered : d \in CallId
    BY TypedParts, Places DEF CycleInv, Answered, Results
  <2>2. \A d \in Answered : task[d] \notin {"waiting", "running"}
    BY DEF RunInv, ResultsTold, Told, Answered, Results
  <2> QED
    BY <1>1, <1>3, <2>1, <2>2, StillTold DEF RunInv, Results, Where, About
<1>5. Counted'
  BY <1>1 DEF RunInv, Counted, Orphan, First, About
<1>6. Underway'
  <2>1. Base' = Base /\ ~Planning' /\ ~At("publish")' /\ Executing /\ (Executing' <=> Executing)
    BY <1>1, <1>2 DEF Base, Planning, Executing, At
  <2>2. ASSUME NEW k \in DOMAIN cycle.calls
        PROVE  IF cycle.veto[k] = "none"
               THEN /\ task'[cycle.calls[k]] # "none"
                    /\ runs[cycle.calls[k]] = IF task'[cycle.calls[k]] = "waiting" THEN 0 ELSE 1
               ELSE task'[cycle.calls[k]] = "none" /\ runs[cycle.calls[k]] = 0
    <3>1. CASE cycle.calls[k] = c
      <4>1. cycle.veto[k] = "none"
        BY <1>1, <2>1, <3>1 DEF RunInv, Underway
      <4> QED
        BY <1>2, <1>3, <3>1, <4>1
    <3>2. CASE cycle.calls[k] # c
      BY <1>3, <2>1, <3>2, Typings DEF RunInv, Underway
    <3> QED
      BY <3>1, <3>2
  <2>3. \A d \in CallId : task'[d] # "none" => d > Base /\ d <= Len(tool)
    BY <1>2, <1>3 DEF RunInv, Underway
  <2> QED
    BY <1>1, <2>1, <2>2, <2>3 DEF Underway
<1> QED
  BY <1>4, <1>5, <1>6 DEF RunInv

\* A result is added that is true, and nothing else changes for the worse.
LEMMA OneMoreTold ==
    ASSUME CycleInv, RunInv, NEW c \in CallId, NEW o \in Outcomes,
           log' = Append(log, Result(c, o)), Told(c, o), runs' = runs,
           task' = task \/ task' = NoTasks
    PROVE  ResultsTold'
<1> PICK n : n = Len(log) + 1
  OBVIOUS
<1>1. /\ Result(c, o) \in EventType /\ Result(c, o).kind = "tool.result"
      /\ Result(c, o).calls[1] = c /\ Result(c, o).outcome = o
  BY EventTypes DEF Result, Event
<1>2. Book
  BY TypedParts DEF CycleInv
<1>3. /\ \A i \in 1..Len(log) : log'[i] = log[i] /\ About(i)' = About(i)
      /\ log'[n] = Result(c, o) /\ About(n)' = Result(c, o).calls[1]
      /\ Results' = Results \cup {i \in {n} : Result(c, o).kind = "tool.result"}
  BY <1>1, <1>2, Appended
<1>4. {i \in {n} : Result(c, o).kind = "tool.result"} = {n}
  BY <1>1
<1>5. \A d \in CallId : task'[d] \in {task[d], "none"}
  BY DEF NoTasks
<1>6. Told(About(n), log[n].outcome)'
  <2>1. About(n)' = c /\ log'[n].outcome = o
    BY <1>1, <1>3
  <2> QED
    BY <1>5, <2>1 DEF Told
<1>7. ASSUME NEW j \in Results PROVE Told(About(j), log[j].outcome)'
  <2>1. About(j) \in CallId /\ j \in 1..Len(log) /\ Told(About(j), log[j].outcome)
    BY <1>2, Places DEF RunInv, ResultsTold
  <2>2. About(j)' = About(j) /\ log'[j] = log[j]
    BY <1>3, <2>1
  <2> QED
    BY <1>5, <2>1, <2>2 DEF Told
<1> QED
  BY <1>3, <1>4, <1>6, <1>7 DEF ResultsTold

\* A result that is published says what happened to its call.
LEMMA PublishTold == ASSUME CycleInv, CycleInv', RunInv, PublishResult PROVE RunInv'
<1>1. /\ At("publish") /\ Executing /\ ~Planning /\ Joined /\ rec = Off
      /\ UNCHANGED <<tool, runs, rec>>
      /\ log' = Append(log, Result(Current, OutcomeOf(cycle.at)))
  BY Typings DEF PublishResult, At, Executing, Planning, Elsewhere, RunInv, Underway
<1>2. /\ cycle.at \in DOMAIN cycle.calls /\ cycle.at \in DOMAIN cycle.veto
      /\ cycle.veto[cycle.at] \in Vetoes /\ Current = cycle.calls[cycle.at]
      /\ Current \in CallId
  BY <1>1, Locals DEF CycleInv, Typed, Shape, Current
<1>3. OutcomeOf(cycle.at) \in Outcomes /\ Told(Current, OutcomeOf(cycle.at))
  <2>1. task[Current] \notin {"waiting", "running"}
    BY <1>1, <1>2 DEF Joined
  <2>2. CASE cycle.veto[cycle.at] = "none"
    <3>1. runs[Current] = 1
      BY <1>1, <1>2, <2>1, <2>2 DEF RunInv, Underway
    <3>2. OutcomeOf(cycle.at) \in {"ok", "error"}
      BY <2>2 DEF OutcomeOf
    <3> QED
      BY <2>1, <3>1, <3>2 DEF Told, Outcomes
  <2>3. CASE cycle.veto[cycle.at] # "none"
    <3>1. runs[Current] = 0
      BY <1>1, <1>2, <2>3 DEF RunInv, Underway
    <3>2. OutcomeOf(cycle.at) \in {"denied", "aborted"}
      <4>1. OutcomeOf(cycle.at) = cycle.veto[cycle.at]
        BY <2>3 DEF OutcomeOf
      <4> QED
        BY <1>2, <2>3, <4>1 DEF Vetoes
    <3> QED
      BY <2>1, <3>1, <3>2 DEF Told, Outcomes
  <2> QED
    BY <2>2, <2>3
<1>4. task' = task \/ task' = NoTasks
  BY DEF PublishResult
<1>5. ResultsTold'
  BY <1>1, <1>2, <1>3, <1>4, OneMoreTold
<1>6. rec'.pc # "replay"
  BY <1>1 DEF Off
<1>7. CASE cycle.at < Len(cycle.calls)
  <2> DEFINE terminal == \/ cycle.terminal
                         \/ cycle.veto[cycle.at] = "none" /\ tool[Current] \in Terminal
  <2>1. /\ cycle' = [cycle EXCEPT !.at = cycle.at + 1, !.terminal = terminal]
        /\ UNCHANGED task
    BY <1>2, <1>7, Locals DEF PublishResult, CycleInv
  <2> HIDE DEF terminal
  <2>2. cycle'.pc = cycle.pc /\ cycle'.calls = cycle.calls /\ cycle'.veto = cycle.veto
    BY <2>1, Locals DEF CycleInv, CycleType
  <2>3. /\ ~Planning' /\ Executing' /\ Base' = Base /\ Joined' = Joined
    BY <1>1, <2>1, <2>2 DEF Planning, Executing, Base, Joined, At
  <2>4. Underway'
    BY <1>1, <2>1, <2>2, <2>3 DEF RunInv, Underway
  <2>5. Counted'
    BY <1>1, <1>6 DEF RunInv, Counted
  <2> QED
    BY <1>5, <2>4, <2>5 DEF RunInv
<1>8. CASE cycle.at = Len(cycle.calls)
  <2>1. EndCycle \/ cycle' = [Idle EXCEPT !.pc = "step", !.step = cycle.step]
    BY <1>2, <1>8, Locals DEF PublishResult, CycleInv
  <2>2. cycle'.pc \in {"idle", "step", "llm", "wrapup"}
    BY <2>1, EndCycleIs, IdleIs DEF CycleType
  <2>3. ~Planning' /\ ~Executing'
    BY <2>2 DEF Planning, Executing
  <2> QED
    BY <1>1, <1>5, <1>6, <2>3, Resting, Typings DEF RunInv
<1> QED
  BY <1>2, <1>7, <1>8, Locals DEF CycleInv

\* The repair runs a call only to replay it, and only while it is an orphan.
LEMMA ReconcileTold == ASSUME CycleInv, CycleInv', RunInv, Reconcile PROVE RunInv'
<1>1. /\ UNCHANGED <<tool, cycle, task>> /\ rec # Off /\ At("idle") /\ ~At("publish")
      /\ ~Planning /\ ~Executing /\ task = NoTasks
  <2>1. UNCHANGED <<tool, cycle, task>> /\ rec # Off
    BY DEF Reconcile, Scan, Report, Replay, Replayed, Refuse, Reconciled, Bystanders, Off
  <2>2. At("idle")
    BY <2>1, Typings
  <2> QED
    BY <2>1, <2>2, Typings DEF At, Planning, Executing
<1>2. Book /\ Orphans \subseteq Proposals
  BY TypedParts, Places DEF CycleInv
<1>3. Underway'
  BY <1>1 DEF Underway, Planning, Executing, At, NoTasks
<1>4. ASSUME rec.pc \in {"decide", "replay"}, rec.todo # {}
      PROVE  /\ Orphan \in CallId /\ Orphan \notin Answered /\ Orphan <= Len(tool)
             /\ First \in Orphans
  <2>1. First \in Orphans
    BY <1>2, <1>4, FirstIs DEF CycleInv, OpenInv
  <2>2. Orphan \notin Answered /\ Orphan <= Len(tool) /\ Orphan \in CallId
    BY <1>2, <2>1, Places DEF Orphan, Orphans, CycleInv, LogInv, ProposedInOrder
  <2> QED
    BY <2>1, <2>2
<1>5. CASE Scan \/ Refuse \/ Reconciled
  <2>1. UNCHANGED <<log, runs>> /\ rec'.pc # "replay"
    BY <1>5 DEF Scan, Refuse, Reconciled, Off
  <2>2. Counted'
    BY <1>1, <2>1 DEF RunInv, Counted
  <2>3. ResultsTold'
    BY <1>1, <2>1, ToldOn DEF Results, Where, About
  <2> QED
    BY <1>3, <2>2, <2>3 DEF RunInv
<1>6. ASSUME NEW o \in Outcomes, Answer(o), Told(Orphan, o), Orphan \in CallId, runs' = runs
      PROVE  RunInv'
  <2>1. /\ log' = Append(log, Result(Orphan, o)) /\ rec'.pc # "replay"
    BY <1>6 DEF Answer
  <2>2. ResultsTold'
    BY <1>1, <1>6, <2>1, OneMoreTold
  <2>3. Counted'
    BY <1>1, <1>6, <2>1 DEF RunInv, Counted
  <2> QED
    BY <1>3, <2>2, <2>3 DEF RunInv
<1>7. CASE Report
  <2>1. Answer("interrupted") /\ runs' = runs /\ Orphan \in CallId
    BY <1>4, <1>7 DEF Report
  <2>2. Told(Orphan, "interrupted") /\ "interrupted" \in Outcomes
    BY <1>1, <2>1 DEF Told, NoTasks, Outcomes
  <2> QED
    BY <1>6, <2>1, <2>2
<1>8. CASE Replayed
  <2>1. Answer("replayed") /\ runs' = runs /\ rec.pc = "replay" /\ rec.todo # {}
    BY <1>8 DEF Replayed, CycleInv, Typed, Shape
  <2>2. Orphan \in CallId /\ runs[Orphan] > 0
    BY <1>4, <2>1 DEF RunInv, Counted
  <2>3. Told(Orphan, "replayed") /\ "replayed" \in Outcomes
    BY <1>1, <2>2 DEF Told, NoTasks, Outcomes
  <2> QED
    BY <1>6, <2>1, <2>2, <2>3
<1>9. CASE Replay
  <2>1. /\ rec.pc = "decide" /\ rec.todo # {} /\ PolicyFor(Orphan) = "replay" /\ log' = log
        /\ runs' = [runs EXCEPT ![Orphan] = @ + 1]
        /\ rec' = [rec EXCEPT !.pc = "replay"]
    BY <1>9 DEF Replay
  <2>2. /\ Orphan \in CallId /\ Orphan \notin Answered /\ Orphan <= Len(tool)
        /\ Policy[tool[Orphan]] = "replay"
    BY <1>4, <2>1 DEF PolicyFor
  <2>3. rec'.todo = rec.todo
    BY <1>2, <2>1 DEF Book
  <2>4. Orphan' = Orphan
    BY <2>1, <2>3 DEF Orphan, First, About
  <2>5. /\ runs'[Orphan] = runs[Orphan] + 1 /\ runs[Orphan] \in Nat
        /\ \A c \in CallId : c # Orphan => runs'[c] = runs[c]
    BY <2>1, <2>2, Typings
  <2>6. Counted'
    <3>1. \A c \in CallId : c > Len(tool) => runs'[c] = 0
      BY <2>2, <2>5, Typings DEF RunInv, Counted
    <3>2. \A c \in CallId : runs'[c] > 1 => Policy[tool[c]] = "replay"
      BY <2>2, <2>5 DEF RunInv, Counted
    <3>3. runs'[Orphan'] > 0
      BY <2>4, <2>5
    <3> QED
      BY <1>1, <3>1, <3>2, <3>3 DEF Counted
  <2>7. ResultsTold'
    <3>1. \A c \in Answered : c \in CallId
      BY <1>2, Places DEF Answered, Results
    <3>2. \A c \in Answered : runs'[c] = runs[c] /\ task'[c] \notin {"waiting", "running"}
      BY <1>1, <2>2, <2>5, <3>1 DEF NoTasks
    <3> QED
      BY <2>1, <3>2, StillTold DEF RunInv, Results, Where, About
  <2> QED
    BY <1>3, <2>6, <2>7 DEF RunInv
<1> QED
  BY <1>5, <1>7, <1>8, <1>9 DEF Reconcile

-----------------------------------------------------------------------------

\* In a new session nothing has run.
LEMMA InitTold == TInit => RunInv
<1> SUFFICES ASSUME TInit PROVE RunInv
  OBVIOUS
<1>1. log = <<>> /\ cycle = Idle /\ task = NoTasks /\ rec = Off /\ runs = [c \in CallId |-> 0]
  BY DEF TInit
<1>2. Results = {} /\ ~Planning /\ ~Executing /\ ~At("publish") /\ rec.pc # "replay"
  BY <1>1, IdleIs DEF Results, Where, Planning, Executing, At, Off
<1> QED
  BY <1>1, <1>2 DEF RunInv, ResultsTold, Counted, Underway, NoTasks

\* Every step keeps the invariant.
LEMMA StepTold == ASSUME CycleInv, CycleInv', RunInv, [TNext]_tvars PROVE RunInv'
<1>1. CASE Submit \/ \E kept \in saved..Len(log) : Crash(kept)
  BY <1>1, RestingSteps
<1>2. CASE Cancel \/ Propose \/ Collect
  BY <1>2, QuietSteps
<1>3. CASE BeginStep \/ LlmFails \/ NoticeCancel
  BY <1>3, RestingSteps
<1>4. ASSUME NEW batch \in Batches, LlmAnswers(batch) \/ WrapUp(batch) PROVE RunInv'
  <2>1. CASE LlmAnswers(batch) /\ ~EndCycle
    BY <2>1, NewCalls
  <2>2. CASE WrapUp(batch) \/ (LlmAnswers(batch) /\ EndCycle)
    BY <2>2, RestingSteps
  <2> QED
    BY <1>4, <2>1, <2>2
<1>5. CASE BadArguments \/ AskTimesOut \/ Hook
  <2>1. /\ At("hook") \/ At("asking")
        /\ UNCHANGED <<log, tool, runs, rec>>
    BY <1>5 DEF BadArguments, AskTimesOut, Hook, Elsewhere
  <2>2. CASE \E v \in Vetoes : Plan(v)
    BY <2>1, <2>2, PlanTold
  <2>3. CASE Hook /\ cycle' = [cycle EXCEPT !.pc = "asking"] /\ UNCHANGED task
    BY <2>3, QuietSteps
  <2> QED
    BY <1>5, <2>2, <2>3 DEF BadArguments, AskTimesOut, Hook, Vetoes
<1>6. ASSUME NEW c \in CallId, NEW approve \in BOOLEAN, Decide(c, approve) PROVE RunInv'
  <2>1. CASE Awaits(c)
    <3>1. At("asking") /\ UNCHANGED <<log, tool, runs, rec>> /\ \E v \in Vetoes : Plan(v)
      BY <1>6, <2>1 DEF Decide, Awaits, Vetoes, Elsewhere
    <3> QED
      BY <3>1, PlanTold
  <2>2. CASE ~Awaits(c)
    BY <1>6, <2>2, QuietSteps
  <2> QED
    BY <2>1, <2>2
<1>7. ASSUME NEW c \in CallId,
             Start(c) \/ \E outcome \in {"ok", "error", "panic"} : Finish(c, outcome)
      PROVE  RunInv'
  BY <1>7, StartTold, FinishTold
<1>8. CASE PublishResult
  BY <1>8, PublishTold
<1>9. CASE Reconcile
  BY <1>9, ReconcileTold
<1>10. CASE UNCHANGED tvars
  <2>1. UNCHANGED <<log, tool, cycle, task, rec, runs>>
    BY <1>10 DEF tvars
  <2>2. ResultsTold'
    BY <2>1, ToldOn DEF Results, Where, About
  <2>3. Counted' /\ Underway'
    BY <2>1 DEF RunInv, Counted, Underway, Orphan, First, About, Planning, Executing, At, Base, Joined
  <2> QED
    BY <2>2, <2>3 DEF RunInv
<1> QED
  BY <1>1, <1>2, <1>3, <1>4, <1>5, <1>6, <1>7, <1>8, <1>9, <1>10 DEF TNext, Turn

\* In every state, what has run agrees with the results, the tasks and the
\* calls that are planned.
THEOREM RunInvariant == TSpec => [](CycleInv /\ RunInv)
<1>1. TInit => CycleInv /\ RunInv
  BY InitHolds, InitTold
<1>2. CycleInv /\ RunInv /\ [TNext]_tvars => (CycleInv /\ RunInv)'
  <2> SUFFICES ASSUME CycleInv, RunInv, [TNext]_tvars PROVE CycleInv' /\ RunInv'
    OBVIOUS
  <2>1. CycleInv'
    BY StepKeeps
  <2> QED
    BY <2>1, StepTold
<1> QED
  BY <1>1, <1>2, PTL DEF TSpec

\* What a result says of its call is so, and a call runs twice only if its tool
\* may be replayed.
THEOREM ResultsTellTheTruth == TSpec => []ResultsAreTrue
<1>1. CycleInv /\ RunInv => ResultsAreTrue
  BY DEF RunInv, Counted, ResultsTold, Told, ResultsAreTrue, Results
<1> QED
  BY <1>1, RunInvariant, PTL

-----------------------------------------------------------------------------
(* Approvals.                                                              *)

\* The calls of the cycle that are planned to run are approved, if they are
\* asked about.
Granted ==
    \A k \in DOMAIN cycle.veto :
        cycle.veto[k] = "none" /\ Verdict[tool[cycle.calls[k]]] = "ask"
            => cycle.calls[k] \in approved

\* The repair of a session that opens may come to replay a call yet.
MayReplay(c) ==
    /\ session = "opening"
    /\ \/ rec.pc = "scan"
       \/ \E i \in rec.todo :
            /\ About(i) = c
            /\ rec.pc = "decide" \/ (rec.pc = "replay" /\ i # First)

\* A call that is asked about and not approved has been replayed once for each
\* restart at most, the one included whose repair has not come to it.
Spared ==
    \A c \in 1..Len(tool) : Verdict[tool[c]] = "ask" /\ c \notin approved =>
        IF Policy[tool[c]] = "replay"
        THEN runs[c] <= stops.restarts /\ (MayReplay(c) => runs[c] < stops.restarts)
        ELSE runs[c] = 0

\* Only a turn that is under way can be cancelled.
Heard == cancelling => ~At("idle")

Approvals == Spared /\ Granted /\ Heard

\* What is counted here are numbers, and a turn finds no repair at work.
LEMMA ApprovalTypes ==
    ASSUME CycleInv
    PROVE  /\ stops.restarts \in Nat /\ Len(tool) \in Nat /\ cycle \in CycleType
           /\ stops \in [cancels : 0..MaxCancels, restarts : 0..MaxRestarts]
           /\ \A c \in 1..Len(tool) : c \in CallId /\ runs[c] \in Nat /\ tool[c] \in Tools
           /\ ~At("idle") => rec = Off /\ session = "open"
<1>1. Book /\ Shape /\ cycle \in CycleType
  BY TypedParts DEF CycleInv
<1>2. /\ stops \in [cancels : 0..MaxCancels, restarts : 0..MaxRestarts]
      /\ Len(tool) \in Nat /\ Len(tool) <= MaxCalls /\ tool \in Seq(Tools)
      /\ MaxCalls \in Nat /\ MaxRestarts \in Nat
  BY <1>1, BoundsAssumption DEF Book
<1>3. stops.restarts \in Nat
  BY <1>2
<1>4. \A c \in 1..Len(tool) : c \in CallId /\ runs[c] \in Nat /\ tool[c] \in Tools
  BY <1>1, <1>2 DEF Book, CallId
<1> QED
  BY <1>1, <1>2, <1>3, <1>4 DEF Shape

\* A step that runs nothing, and plans nothing or drops its plans.
LEMMA ApprovalsKept ==
    ASSUME CycleInv, RunInv, Approvals, runs' = runs, approved \subseteq approved',
           Len(tool') \in Nat, Len(tool') >= Len(tool),
           \A c \in 1..Len(tool) : tool'[c] = tool[c],
           cancelling' => cycle'.pc # "idle",
           \/ stops'.restarts = stops.restarts + 1
           \/ /\ stops'.restarts = stops.restarts
              /\ \A c \in CallId : MayReplay(c)' => MayReplay(c) /\ c <= Len(tool),
           \/ cycle'.veto = <<>>
           \/ cycle'.veto = cycle.veto /\ cycle'.calls = cycle.calls /\ tool' = tool,
           Len(tool') <= MaxCalls
    PROVE  Approvals'
<1>1. Spared'
  <2> SUFFICES ASSUME NEW c \in 1..Len(tool'), Verdict[tool'[c]] = "ask", c \notin approved'
               PROVE  IF Policy[tool'[c]] = "replay"
                      THEN /\ runs[c] <= stops'.restarts
                           /\ MayReplay(c)' => runs[c] < stops'.restarts
                      ELSE runs[c] = 0
    BY DEF Spared
  <2>1. stops.restarts \in Nat /\ Len(tool) \in Nat /\ MaxCalls \in Nat
    BY ApprovalTypes, BoundsAssumption
  <2>2. c \in CallId
    BY <2>1 DEF CallId
  <2>3. CASE c > Len(tool)
    <3>1. runs[c] = 0
      BY <2>2, <2>3 DEF RunInv, Counted
    <3>2. ~MayReplay(c)' \/ stops'.restarts = stops.restarts + 1
      BY <2>1, <2>2, <2>3
    <3> QED
      BY <2>1, <3>1, <3>2
  <2>4. CASE c <= Len(tool)
    <3>1. c \in 1..Len(tool) /\ tool'[c] = tool[c] /\ c \notin approved /\ runs[c] \in Nat
      BY <2>1, <2>4, ApprovalTypes
    <3>2. IF Policy[tool[c]] = "replay"
          THEN runs[c] <= stops.restarts /\ (MayReplay(c) => runs[c] < stops.restarts)
          ELSE runs[c] = 0
      BY <3>1 DEF Approvals, Spared
    <3> QED
      BY <2>1, <2>2, <3>1, <3>2
  <2> QED
    BY <2>1, <2>3, <2>4
<1>2. Granted'
  <2>1. CASE cycle'.veto = <<>>
    BY <2>1 DEF Granted
  <2>2. CASE cycle'.veto = cycle.veto /\ cycle'.calls = cycle.calls /\ tool' = tool
    BY <2>2 DEF Approvals, Granted
  <2> QED
    BY <2>1, <2>2
<1> QED
  BY <1>1, <1>2 DEF Approvals, Heard, At

\* Outside a repair that opens a session nothing is going to be replayed.
LEMMA NoneReplayed ==
    ASSUME session' # "opening" \/ rec' = Off
    PROVE  \A c \in CallId : ~MayReplay(c)'
BY DEF MayReplay, Off

\* A call is planned: only an approval plans to run what is asked about.
LEMMA PlanApproved ==
    ASSUME CycleInv, RunInv, Approvals, At("hook") \/ At("asking"),
           NEW v \in Vetoes, Plan(v), UNCHANGED <<tool, runs, rec, session, stops>>,
           approved \subseteq approved',
           v = "none" /\ Verdict[tool[Current]] = "ask" => Current \in approved'
    PROVE  Approvals'
<1> DEFINE veto == Append(cycle.veto, VetoOf(v))
<1>1. cycle'.calls = cycle.calls /\ cycle'.veto = veto /\ cycle'.pc # "idle"
  BY Locals DEF CycleInv, Plan, CycleType
<1>2. /\ cycle.veto \in Seq(Vetoes) /\ VetoOf(v) \in Vetoes
      /\ Len(cycle.veto) = cycle.at - 1 /\ cycle.at \in Nat \ {0}
  BY Locals DEF VetoOf, Vetoes, CycleInv, Typed, Shape, Planning, At
<1>3. DOMAIN veto = 1..cycle.at
      /\ veto[cycle.at] = VetoOf(v)
      /\ \A k \in 1..cycle.at : k # cycle.at => k \in DOMAIN cycle.veto /\ veto[k] = cycle.veto[k]
  BY <1>2
<1> HIDE DEF veto
<1>4. VetoOf(v) = "none" => v = "none"
  BY DEF VetoOf
<1>5. Granted'
  <2> SUFFICES ASSUME NEW k \in 1..cycle.at, veto[k] = "none",
                      Verdict[tool[cycle.calls[k]]] = "ask"
               PROVE  cycle.calls[k] \in approved'
    BY <1>1, <1>3 DEF Granted
  <2>1. CASE k = cycle.at
    BY <1>3, <1>4, <2>1 DEF Current
  <2>2. CASE k # cycle.at
    BY <1>3, <2>2 DEF Approvals, Granted
  <2> QED
    BY <2>1, <2>2
<1>6. Spared'
  <2>1. rec' = Off
    BY ApprovalTypes DEF At
  <2>2. \A c \in 1..Len(tool) : ~MayReplay(c)'
    BY <2>1, NoneReplayed, ApprovalTypes
  <2> QED
    BY <2>2 DEF Approvals, Spared
<1>7. Heard'
  BY <1>1 DEF Heard, At
<1> QED
  BY <1>5, <1>6, <1>7 DEF Approvals

\* A call is run by the turn.
LEMMA RunApproved ==
    ASSUME CycleInv, Approvals, NEW c \in CallId, runs' = [runs EXCEPT ![c] = @ + 1],
           UNCHANGED <<tool, cycle, approved, cancelling, rec, session, stops>>,
           ~At("idle"), Verdict[tool[c]] = "ask" => c \in approved
    PROVE  Approvals'
<1>1. \A d \in CallId : d # c => runs'[d] = runs[d]
  BY Typings
<1>2. \A d \in 1..Len(tool) : d \in CallId /\ ~MayReplay(d)'
  BY ApprovalTypes, NoneReplayed
<1>3. Spared'
  <2> SUFFICES ASSUME NEW d \in 1..Len(tool), Verdict[tool[d]] = "ask", d \notin approved
               PROVE  IF Policy[tool[d]] = "replay" THEN runs'[d] <= stops.restarts
                                                    ELSE runs'[d] = 0
    BY <1>2 DEF Spared
  <2>1. d # c /\ runs'[d] = runs[d]
    BY <1>1, <1>2
  <2> QED
    BY <2>1 DEF Approvals, Spared
<1> QED
  BY <1>3 DEF Approvals, Granted, Heard, At

\* A call is replayed by the repair.
LEMMA ReplaySpares == ASSUME CycleInv, RunInv, Approvals, Replay PROVE Approvals'
<1>1. /\ rec.pc = "decide" /\ rec.todo # {} /\ PolicyFor(Orphan) = "replay"
      /\ runs' = [runs EXCEPT ![Orphan] = @ + 1] /\ rec' = [rec EXCEPT !.pc = "replay"]
      /\ UNCHANGED <<log, session, tool, cycle, task, cancelling, asked, approved, saved, stops>>
  BY DEF Replay, Bystanders
<1>2. Book /\ Orphans \subseteq Proposals /\ ProposedInOrder /\ rec.todo = Orphans
  BY <1>1, TypedParts, Places DEF CycleInv, LogInv, OpenInv
<1>3. First \in rec.todo /\ rec'.pc = "replay" /\ rec'.todo = rec.todo /\ First' = First
  <2>1. First \in rec.todo
    BY <1>1, <1>2, FirstIs
  <2>2. rec'.pc = "replay" /\ rec'.todo = rec.todo
    BY <1>1, <1>2 DEF Book
  <2> QED
    BY <2>1, <2>2 DEF First
<1>4. Orphan \in 1..Len(tool) /\ Orphan \in CallId
  BY <1>2, <1>3, Places DEF Orphan, ProposedInOrder, CallId
<1>5. session = "opening" /\ Policy[tool[Orphan]] = "replay"
  BY <1>1 DEF PolicyFor
<1>6. \A i \in rec.todo : About(i)' = About(i) /\ (i # First => About(i) # Orphan)
  <2>1. \A i \in Proposals : About(i) \in Nat /\ i \in Nat
    BY <1>2, Places
  <2>2. \A i, j \in Proposals : i < j => About(i) < About(j)
    BY <1>2 DEF ProposedInOrder
  <2>3. ASSUME NEW i \in rec.todo, i # First PROVE About(i) # About(First)
    <3>1. i \in Proposals /\ First \in Proposals
      BY <1>2, <1>3
    <3>2. i < First \/ First < i
      BY <2>1, <2>3, <3>1
    <3> QED
      BY <2>1, <2>2, <3>1, <3>2
  <2> QED
    BY <1>1, <2>3 DEF Orphan, About
<1>7. \A d \in CallId : d # Orphan => runs'[d] = runs[d]
  BY <1>1, Typings
<1>8. runs'[Orphan] = runs[Orphan] + 1
  BY <1>1, <1>4, Typings
<1>9. \A d \in CallId : MayReplay(d)' => MayReplay(d) /\ d # Orphan
  BY <1>1, <1>3, <1>5, <1>6 DEF MayReplay
<1>10. MayReplay(Orphan)
  BY <1>1, <1>3, <1>5 DEF MayReplay, Orphan
<1>11. Spared'
  <2> SUFFICES ASSUME NEW d \in 1..Len(tool), Verdict[tool[d]] = "ask", d \notin approved
               PROVE  IF Policy[tool[d]] = "replay"
                      THEN /\ runs'[d] <= stops.restarts
                           /\ MayReplay(d)' => runs'[d] < stops.restarts
                      ELSE runs'[d] = 0
    BY <1>1 DEF Spared
  <2>1. /\ d \in CallId /\ runs[d] \in Nat /\ stops.restarts \in Nat
        /\ IF Policy[tool[d]] = "replay"
           THEN runs[d] <= stops.restarts /\ (MayReplay(d) => runs[d] < stops.restarts)
           ELSE runs[d] = 0
    BY ApprovalTypes DEF Approvals, Spared
  <2>2. CASE d = Orphan
    BY <1>5, <1>8, <1>9, <1>10, <2>1, <2>2
  <2>3. CASE d # Orphan
    BY <1>7, <1>9, <2>1, <2>3
  <2> QED
    BY <2>2, <2>3
<1> QED
  BY <1>1, <1>11 DEF Approvals, Granted, Heard, At

\* Every other step of the repair.
LEMMA RepairSpares ==
    ASSUME CycleInv, RunInv, Approvals,
           Scan \/ Report \/ Replayed \/ Refuse \/ Reconciled
    PROVE  Approvals'
<1>1. /\ UNCHANGED <<tool, runs, cycle, approved, cancelling, stops>>
      /\ cancelling => cycle.pc # "idle"
  BY DEF Scan, Report, Replayed, Refuse, Reconciled, Bystanders, Approvals, Heard, At
<1>2. Book /\ Orphans \subseteq Proposals /\ ProposedInOrder
  BY TypedParts, Places DEF CycleInv, LogInv
<1>3. \A c \in CallId : MayReplay(c)' => MayReplay(c) /\ c <= Len(tool)
  <2>1. CASE Scan
    <3>1. rec.pc = "scan" /\ rec' = [pc |-> "decide", todo |-> Orphans] /\ UNCHANGED <<log, session>>
      BY <2>1 DEF Scan
    <3>2. rec'.todo = Orphans /\ rec'.pc = "decide"
      BY <3>1
    <3>3. \A i \in Orphans : About(i)' = About(i) /\ About(i) <= Len(tool)
      BY <1>2, <3>1 DEF About, ProposedInOrder
    <3> QED
      BY <3>1, <3>2, <3>3 DEF MayReplay
  <2>2. CASE Report \/ Replayed
    <3>1. PICK o \in Outcomes : Answer(o)
      BY <2>2 DEF Report, Replayed, Outcomes
    <3>2. /\ rec.pc \in {"decide", "replay"} /\ rec.todo # {} /\ session' = session
      BY <2>2 DEF Report, Replayed, CycleInv, Typed, Shape
    <3>3. rec'.pc = "decide" /\ rec'.todo = rec.todo \ {First} /\ rec.todo = Orphans
      BY <3>1, <3>2 DEF Answer, CycleInv, OpenInv
    <3>4. \A i \in Orphans : About(i)' = About(i) /\ About(i) <= Len(tool)
      <4>1. log' = Append(log, Result(Orphan, o)) /\ log \in Seq(EventType)
        BY <1>2, <3>1 DEF Answer, Book
      <4>2. \A i \in Orphans : log'[i] = log[i]
        BY <1>2, <4>1, Places
      <4> QED
        BY <1>2, <4>2 DEF About, ProposedInOrder
    <3> QED
      BY <3>2, <3>3, <3>4 DEF MayReplay
  <2>3. CASE Refuse \/ Reconciled
    BY <2>3, NoneReplayed DEF Refuse, Reconciled
  <2> QED
    BY <2>1, <2>2, <2>3
<1> QED
  BY <1>1, <1>3, ApprovalTypes, ApprovalsKept DEF CycleInv, Typed, TTypeOK

\* Every step keeps the record of approvals.
LEMMA StepApproved ==
    ASSUME CycleInv, CycleInv', RunInv, Approvals, [TNext]_tvars
    PROVE  Approvals'
<1>1. /\ Len(tool) \in Nat /\ cycle \in CycleType /\ stops.restarts \in Nat
      /\ Len(tool) <= MaxCalls /\ Len(tool') \in Nat /\ Len(tool') <= MaxCalls
      /\ stops \in [cancels : 0..MaxCancels, restarts : 0..MaxRestarts]
  BY ApprovalTypes, Typings DEF CycleInv, Typed, TTypeOK
<1>a. ASSUME ~At("idle"), UNCHANGED <<rec, stops>>
      PROVE  /\ stops'.restarts = stops.restarts
             /\ \A c \in CallId : ~MayReplay(c)'
  BY <1>a, ApprovalTypes, NoneReplayed
<1>2. CASE Submit \/ BeginStep \/ LlmFails
  <2>1. UNCHANGED <<tool, runs, approved, rec, stops>> /\ rec' = Off
    BY <1>2, ApprovalTypes DEF Submit, BeginStep, LlmFails, Elsewhere, At
  <2>2. \/ cycle'.veto = <<>>
        \/ cycle'.veto = cycle.veto /\ cycle'.calls = cycle.calls
    BY <1>1, <1>2, IdleIs, EndCycleIs DEF Submit, BeginStep, LlmFails, CycleType
  <2>3. cancelling' => cycle'.pc # "idle"
    BY <1>1, <1>2, IdleIs DEF Submit, BeginStep, LlmFails, EndCycle, CycleType
  <2> QED
    BY <1>1, <2>1, <2>2, <2>3, NoneReplayed, ApprovalsKept
<1>b. CASE NoticeCancel
  <2>1. UNCHANGED <<tool, runs, approved, session, stops>> /\ Dropped /\ cancelling
    BY <1>b DEF NoticeCancel
  <2>2. session' = "open"
    BY <2>1, ApprovalTypes DEF Approvals, Heard
  <2>3. cycle'.veto = <<>> /\ cancelling' = FALSE
    BY <2>1, DroppedIs DEF Dropped
  <2> QED
    BY <1>1, <2>1, <2>2, <2>3, NoneReplayed, ApprovalsKept
<1>c. ASSUME NEW kept \in saved..Len(log), Crash(kept) PROVE Approvals'
  <2>1. UNCHANGED <<tool, runs, approved>> /\ Dropped
        /\ stops' = [stops EXCEPT !.restarts = @ + 1]
    BY <1>c DEF Crash
  <2>2. stops'.restarts = stops.restarts + 1
    BY <1>1, <2>1
  <2>3. cycle'.veto = <<>> /\ cancelling' = FALSE
    BY <2>1, DroppedIs DEF Dropped
  <2> QED
    BY <1>1, <2>1, <2>2, <2>3, ApprovalsKept
<1>3. ASSUME NEW batch \in Batches, LlmAnswers(batch) \/ WrapUp(batch) PROVE Approvals'
  <2>1. UNCHANGED <<runs, approved, rec, stops>> /\ Responds(batch) /\ ~At("idle")
    BY <1>3 DEF LlmAnswers, WrapUp, Elsewhere, At
  <2>2. /\ Len(tool') \in Nat /\ Len(tool') >= Len(tool)
        /\ \A c \in 1..Len(tool) : tool'[c] = tool[c]
    <3>1. /\ Len(tool') = Len(tool) + Len(batch) /\ Len(batch) \in Nat
          /\ \A c \in 1..Len(tool) : tool'[c] = tool[c]
      BY <2>1, ResponseTyped DEF CycleInv, Typed
    <3> QED
      BY <1>1, <3>1
  <2>3. cycle'.veto = <<>>
    <3>1. cycle.veto = <<>>
      BY <1>3 DEF LlmAnswers, WrapUp, CycleInv, Typed, Shape, Planning, Executing, At
    <3> QED
      BY <1>1, <1>3, <3>1, EndCycleIs DEF LlmAnswers, WrapUp, CycleType
  <2>4. cancelling' => cycle'.pc # "idle"
    BY <1>1, <1>3 DEF LlmAnswers, WrapUp, EndCycle, CycleType
  <2>5. stops'.restarts = stops.restarts /\ \A c \in CallId : ~MayReplay(c)'
    BY <1>a, <2>1
  <2> QED
    BY <1>1, <2>1, <2>2, <2>3, <2>4, <2>5, ApprovalsKept
<1>4. CASE Propose \/ Collect \/ Cancel
  <2>1. /\ UNCHANGED <<tool, runs, approved, rec>> /\ ~At("idle")
        /\ stops'.restarts = stops.restarts
        /\ cycle'.veto = cycle.veto /\ cycle'.calls = cycle.calls /\ cycle'.pc # "idle"
    BY <1>1, <1>4 DEF Propose, Collect, Cancel, Elsewhere, CycleType, At
  <2>2. \A c \in CallId : ~MayReplay(c)'
    BY <2>1, ApprovalTypes, NoneReplayed
  <2> QED
    BY <1>1, <2>1, <2>2, ApprovalsKept
<1>5. CASE BadArguments \/ AskTimesOut
  BY <1>5, PlanApproved DEF BadArguments, AskTimesOut, Vetoes, Elsewhere
<1>6. CASE Hook
  <2>1. UNCHANGED <<tool, runs, approved, rec, session, stops>> /\ At("hook")
    BY <1>6 DEF Hook, Elsewhere
  <2>2. CASE Verdict[tool[Current]] = "allow" /\ Plan("none")
    BY <2>1, <2>2, PlanApproved DEF Vetoes
  <2>3. CASE Plan("denied") \/ Plan("aborted")
    BY <2>1, <2>3, PlanApproved DEF Vetoes
  <2>4. CASE cycle' = [cycle EXCEPT !.pc = "asking"]
    <3>1. cycle'.veto = cycle.veto /\ cycle'.calls = cycle.calls /\ cycle'.pc = "asking"
      BY <1>1, <2>4 DEF CycleType
    <3>2. stops'.restarts = stops.restarts /\ \A c \in CallId : ~MayReplay(c)'
      BY <1>a, <2>1 DEF At
    <3> QED
      BY <1>1, <2>1, <3>1, <3>2, ApprovalsKept
  <2> QED
    BY <1>6, <2>2, <2>3, <2>4 DEF Hook
<1>7. ASSUME NEW c \in CallId, NEW approve \in BOOLEAN, Decide(c, approve) PROVE Approvals'
  <2>1. /\ UNCHANGED <<log, tool, runs, rec, session, stops, cancelling>>
        /\ approved \subseteq approved'
        /\ approve => c \in approved'
    BY <1>7 DEF Decide, Elsewhere
  <2>2. CASE Awaits(c)
    <3>1. At("asking") /\ Current = c
      BY <2>2 DEF Awaits
    <3>2. Plan(IF approve THEN "none" ELSE "denied")
      BY <1>7, <2>2 DEF Decide
    <3> QED
      BY <2>1, <3>1, <3>2, PlanApproved DEF Vetoes
  <2>3. CASE ~Awaits(c)
    <3>1. cycle' = cycle /\ (cancelling' => cycle'.pc # "idle")
      BY <1>7, <2>1, <2>3 DEF Decide, Approvals, Heard, At
    <3>2. Spared'
      <4>1. \A d \in 1..Len(tool) : MayReplay(d)' => MayReplay(d)
        BY <2>1 DEF MayReplay, About, First
      <4> QED
        BY <2>1, <4>1 DEF Approvals, Spared
    <3> QED
      BY <2>1, <3>1, <3>2 DEF Approvals, Granted, Heard, At
  <2> QED
    BY <2>2, <2>3
<1>8. ASSUME NEW c \in CallId, Start(c) PROVE Approvals'
  <2>1. /\ task[c] = "waiting" /\ UNCHANGED <<tool, cycle, approved, cancelling, rec, session, stops>>
        /\ runs' = [runs EXCEPT ![c] = @ + 1]
    BY <1>8 DEF Start, Elsewhere
  <2>2. PICK k \in DOMAIN cycle.calls : cycle.calls[k] = c /\ cycle.veto[k] = "none"
    BY <2>1, TaskOf
  <2>3. Executing
    BY <2>1, TaskOf
  <2>4. k \in DOMAIN cycle.veto
    <3>1. Len(cycle.veto) = Len(cycle.calls) /\ cycle.veto \in Seq(Vetoes)
      BY <2>3, Locals DEF CycleInv, Typed, Shape
    <3> QED
      BY <3>1, Typings
  <2>5. ~At("idle")
    BY <2>3 DEF Executing, At
  <2> QED
    BY <2>1, <2>2, <2>4, <2>5, RunApproved DEF Approvals, Granted
<1>9. ASSUME NEW c \in CallId, NEW outcome \in {"ok", "error", "panic"}, Finish(c, outcome)
      PROVE  Approvals'
  <2>1. /\ task[c] # "none" /\ UNCHANGED <<tool, runs, approved, cycle, rec, stops, cancelling>>
    BY <1>9 DEF Finish, Elsewhere
  <2>2. ~At("idle")
    BY <2>1, TaskOf DEF Executing, At
  <2>3. \A d \in CallId : ~MayReplay(d)'
    BY <1>a, <2>1, <2>2
  <2>4. cycle'.pc # "idle"
    BY <2>1, <2>2 DEF At
  <2> QED
    BY <1>1, <2>1, <2>3, <2>4, ApprovalsKept
<1>10. CASE PublishResult
  <2>1. UNCHANGED <<tool, runs, approved, rec, stops>> /\ ~At("idle")
    BY <1>10 DEF PublishResult, Elsewhere, At
  <2> DEFINE terminal == \/ cycle.terminal
                         \/ cycle.veto[cycle.at] = "none" /\ tool[Current] \in Terminal
  <2>2. \/ cycle' = [cycle EXCEPT !.at = cycle.at + 1, !.terminal = terminal]
        \/ EndCycle
        \/ cycle' = [Idle EXCEPT !.pc = "step", !.step = cycle.step]
    BY <1>10 DEF PublishResult
  <2> HIDE DEF terminal
  <2>3. \/ cycle'.veto = <<>>
        \/ cycle'.veto = cycle.veto /\ cycle'.calls = cycle.calls
    BY <1>1, <2>2, IdleIs, EndCycleIs DEF CycleType
  <2>4. cancelling' => cycle'.pc # "idle"
    BY <1>1, <2>1, <2>2, IdleIs DEF CycleType, EndCycle, At
  <2>5. \A d \in CallId : ~MayReplay(d)'
    BY <1>a, <2>1
  <2> QED
    BY <1>1, <2>1, <2>3, <2>4, <2>5, ApprovalsKept
<1>11. CASE Replay
  BY <1>11, ReplaySpares
<1>12. CASE Scan \/ Report \/ Replayed \/ Refuse \/ Reconciled
  BY <1>12, RepairSpares
<1>13. CASE UNCHANGED tvars
  <2>1. \A c \in 1..Len(tool) : MayReplay(c)' => MayReplay(c)
    BY <1>13 DEF tvars, MayReplay, About, First
  <2> QED
    BY <1>13, <2>1 DEF tvars, Approvals, Spared, Granted, Heard, At
<1> QED
  BY <1>2, <1>b, <1>c, <1>3, <1>4, <1>5, <1>6, <1>7, <1>8, <1>9, <1>10, <1>11, <1>12, <1>13
     DEF TNext, Turn, Reconcile

\* For any verdicts and policies: a turn runs a call that is asked about only after
\* somebody has approved of that call, and without it only a repair does, if the
\* tool may be replayed, and once for each restart.
THEOREM ApprovalsAreAwaited == TSpec => []TurnsRunOnlyApproved
<1>1. TInit => Approvals
  <2> SUFFICES ASSUME TInit PROVE Approvals
    OBVIOUS
  <2>1. cycle.veto = <<>> /\ tool = <<>> /\ ~cancelling
    BY IdleIs DEF TInit
  <2> QED
    BY <2>1 DEF Approvals, Spared, Granted, Heard
<1>2. CycleInv /\ CycleInv' /\ RunInv /\ Approvals /\ [TNext]_tvars => Approvals'
  BY StepApproved
<1>3. CycleInv /\ RunInv /\ Approvals => TurnsRunOnlyApproved
  <2> SUFFICES ASSUME CycleInv, RunInv, Approvals, NEW c \in DOMAIN tool,
                      Verdict[tool[c]] = "ask", c \notin approved
               PROVE  /\ task[c] = "none"
                      /\ runs[c] <= IF Policy[tool[c]] = "replay" THEN stops.restarts ELSE 0
    BY DEF TurnsRunOnlyApproved
  <2>1. c \in 1..Len(tool) /\ c \in CallId /\ runs[c] \in Nat
    <3>1. tool \in Seq(Tools)
      BY DEF CycleInv, Typed, TTypeOK
    <3> QED
      BY <3>1, ApprovalTypes
  <2>2. ASSUME task[c] # "none" PROVE FALSE
    <3>1. Executing /\ \E k \in DOMAIN cycle.calls : cycle.calls[k] = c /\ cycle.veto[k] = "none"
      BY <2>1, <2>2, TaskOf
    <3>2. Len(cycle.veto) = Len(cycle.calls) /\ cycle.veto \in Seq(Vetoes)
      BY <3>1, Locals DEF CycleInv, Typed, Shape
    <3>3. DOMAIN cycle.veto = DOMAIN cycle.calls
      BY <3>2, Typings
    <3> QED
      BY <3>1, <3>3 DEF Approvals, Granted
  <2>3. runs[c] <= IF Policy[tool[c]] = "replay" THEN stops.restarts ELSE 0
    BY <2>1 DEF Approvals, Spared
  <2> QED
    BY <2>2, <2>3
<1> QED
  BY <1>1, <1>2, <1>3, RunInvariant, PTL DEF TSpec
=============================================================================
