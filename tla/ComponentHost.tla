---------------------------- MODULE ComponentHost ----------------------------
(***************************************************************************)
(* The host of runtime components, src/component.rs: components come and   *)
(* go while the agent runs, each registers effects through a context that  *)
(* records how to undo them, and each runs only while the services it      *)
(* requires are there.                                                     *)
(*                                                                         *)
(* Every method of the host takes `&self`, so several tasks may be inside  *)
(* it at once.  A step is what a task does under one lock, or up to one    *)
(* await: `load` looks for a duplicate and inserts under two locks,        *)
(* `try_start` looks the component up under one lock, awaits its `start`   *)
(* with none, and marks it active under another.  A call may be dropped    *)
(* at any await: the task is then free for another call, and what the call *)
(* held is gone without being undone.                                      *)
(*                                                                         *)
(* Tools and services are both slots of a registry, filled and emptied by  *)
(* name; hooks and spawned tasks belong to the context that made them and  *)
(* are its one "own" effect.  What a component does besides is left out.   *)
(*                                                                         *)
(* A definition marked "Slip" is a way to get the one after it wrong.      *)
(***************************************************************************)
EXTENDS Integers, Sequences, FiniteSets, SequencesExt, Filtering

CONSTANTS
    Tasks,      \* the tasks that may be inside the host at one time
    Names,      \* the components there are, by name
    Slots,      \* the names of tools and services
    Requires,   \* Component::requires
    Registers,  \* the slots a component's `start` fills, in order
    MayFail,    \* the components whose `start` may fail, after any effect
    MaxDrops    \* bound: the calls that are dropped

Own == "own"

ASSUME ComponentsAssumption ==
    /\ IsFiniteSet(Tasks) /\ IsFiniteSet(Names)
    /\ Requires \in [Names -> SUBSET Slots]
    /\ Registers \in [Names -> Seq(Slots)]
    /\ MayFail \subseteq Names
    /\ Own \notin Slots
    /\ MaxDrops \in Nat

VARIABLES
    components,  \* ComponentHost::components
    order,       \* ComponentHost::order
    registry,    \* ToolRegistry and ServiceRegistry: the context that filled a slot
    running,     \* the contexts whose hooks and tasks are live
    told,        \* the last lifecycle event published about a component
    proc,        \* where each task is inside the host
    dropped,     \* the host itself is gone
    left         \* history, which only the bound reads: what dropped calls left

hvars == <<components, order, registry, running, told, proc, dropped, left>>

-----------------------------------------------------------------------------
(* Contexts, components and calls.                                         *)

Nobody == 0

\* Bound: no more contexts than these are held, or left behind, at one time.
ContextIds == 1..(Cardinality(Names) + Cardinality(Tasks) + MaxDrops)

\* ComponentContext: `made` is the list of disposers, oldest first.
NoContext == [id |-> Nobody, made |-> <<>>]

Effects(n) == <<Own>> \o Registers[n]

Unlisted == [state |-> "none", context |-> NoContext]
Pending == [state |-> "Pending", context |-> NoContext]
Active(ctx) == [state |-> "Active", context |-> ctx]

IsActive(n) == components[n].state = "Active"
IsPending(n) == components[n].state = "Pending"
IsListed(n) == components[n].state # "none"

Calls == {"load", "unload", "remove", "reload"}

\* The locals of a call: `name` is its argument, `cur` the component it is
\* starting or stopping now, `loop` whether it does so inside `reconcile` or
\* `cascade`, and `todo` and `attempted` belong to those.
Returned == [pc |-> "idle", call |-> "none", name |-> "none", cur |-> "none",
             loop |-> FALSE, todo |-> <<>>, attempted |-> {}, ctx |-> NoContext]

Entry == [load |-> "check", unload |-> "known", remove |-> "known", reload |-> "stop"]

Awaits == {"pending", "starting", "loaded", "unloaded"}

UsedIds == running \cup {registry[s] : s \in Slots}
             \cup {components[n].context.id : n \in Names}
             \cup {proc[t].ctx.id : t \in Tasks} \cup left.contexts

\* `drops` counts the dropped calls; `contexts` went half way through a `start`,
\* and nobody will undo their effects; the coming and going of `services` was
\* left to nobody; about `untold` the bus has not heard the last.
NothingLeft == [drops |-> 0, contexts |-> {}, services |-> {}, untold |-> {}]

At(t, pc) == proc[t].pc = pc
Goto(t, pc) == proc' = [proc EXCEPT ![t].pc = pc]
Return(t) == proc' = [proc EXCEPT ![t] = Returned]

Tell(n, event) ==
    /\ told' = [told EXCEPT ![n] = event]
    /\ left' = [left EXCEPT !.untold = @ \ {n}]

MissingFor(n) == {s \in Requires[n] : registry[s] = Nobody}

\* Slip: `reconcile` makes progress and still counts its earlier attempts.
AfterStart_KeepsAttempts(p, result) ==
    CASE p.loop ->
           [p EXCEPT !.pc = IF result = "Active" THEN "candidates" ELSE "candidate",
                     !.ctx = NoContext]
      [] ~p.loop /\ (\/ result = "Active"
                     \/ result = "Pending" /\ p.call = "reload") ->
           [p EXCEPT !.pc = "candidates", !.loop = TRUE, !.ctx = NoContext]
      [] OTHER -> Returned

\* What a task does once `try_start` has returned: the caller of `load` and
\* `reload` goes on to `reconcile`, and `reconcile` starts its round again if
\* it made progress.
AfterStart(p, result) ==
    CASE p.loop /\ result = "Active" ->
           [p EXCEPT !.pc = "candidates", !.attempted = {}, !.ctx = NoContext]
      [] p.loop /\ result # "Active" ->
           [p EXCEPT !.pc = "candidate", !.ctx = NoContext]
      [] ~p.loop /\ (\/ result = "Active"
                     \/ result = "Pending" /\ p.call = "reload") ->
           [p EXCEPT !.pc = "candidates", !.loop = TRUE, !.ctx = NoContext]
      [] OTHER -> Returned

-----------------------------------------------------------------------------
(* load, and try_start.                                                    *)

Call(t, call, n) ==
    /\ At(t, "idle")
    /\ ~dropped
    /\ proc' = [proc EXCEPT ![t] =
                  [Returned EXCEPT !.pc = Entry[call], !.call = call,
                                   !.name = n, !.cur = n]]
    /\ UNCHANGED <<components, order, registry, running, told, dropped, left>>

\* A duplicate is refused ...
CheckDuplicate(t) ==
    /\ At(t, "check")
    /\ IF IsListed(proc[t].name) THEN Return(t) ELSE Goto(t, "insert")
    /\ UNCHANGED <<components, order, registry, running, told, dropped, left>>

\* ... under another lock than the one it is inserted under.
Insert(t) ==
    /\ At(t, "insert")
    /\ components' = [components EXCEPT ![proc[t].name] = Pending]
    /\ order' = Append(order, proc[t].name)
    /\ Goto(t, "lookup")
    /\ UNCHANGED <<registry, running, told, dropped, left>>

Lookup(t) ==
    /\ At(t, "lookup")
    /\ LET p == proc[t]
       IN  proc' = [proc EXCEPT ![t] =
                      CASE ~IsListed(p.cur) -> AfterStart(p, "Err")
                        [] IsActive(p.cur)  -> AfterStart(p, "Active")
                        [] IsPending(p.cur) -> [p EXCEPT !.pc = "missing"]]
    /\ UNCHANGED <<components, order, registry, running, told, dropped, left>>

CheckMissing(t) ==
    /\ At(t, "missing")
    /\ \/ /\ MissingFor(proc[t].cur) # {}
          /\ Goto(t, "pending")
       \/ /\ MissingFor(proc[t].cur) = {}
          /\ \E id \in ContextIds \ UsedIds :
               /\ \A other \in ContextIds \ UsedIds : id <= other
               /\ proc' = [proc EXCEPT ![t].pc = "starting",
                                       ![t].ctx = [id |-> id, made |-> <<>>]]
    /\ UNCHANGED <<components, order, registry, running, told, dropped, left>>

TellPending(t) ==
    /\ At(t, "pending")
    /\ Tell(proc[t].cur, "pending")
    /\ proc' = [proc EXCEPT ![t] = AfterStart(proc[t], "Pending")]
    /\ UNCHANGED <<components, order, registry, running, dropped>>

\* One registration of the component's `start`, recorded with its undo.
Register(t) ==
    /\ At(t, "starting")
    /\ LET p == proc[t]
           effect == Effects(p.cur)[Len(p.ctx.made) + 1]
       IN  /\ Len(p.ctx.made) < Len(Effects(p.cur))
           /\ IF effect = Own
              THEN running' = running \cup {p.ctx.id} /\ UNCHANGED registry
              ELSE registry' = [registry EXCEPT ![effect] = p.ctx.id]
                   /\ UNCHANGED running
           /\ proc' = [proc EXCEPT ![t].ctx.made = Append(@, effect)]
    /\ UNCHANGED <<components, order, told, dropped, left>>

StartReturns(t) ==
    /\ At(t, "starting")
    /\ Len(proc[t].ctx.made) = Len(Effects(proc[t].cur))
    /\ Goto(t, "activate")
    /\ UNCHANGED <<components, order, registry, running, told, dropped, left>>

\* Slip: a start that fails gives its error back and nothing else.
StartFails_NoRevert(t) ==
    /\ At(t, "starting")
    /\ proc[t].cur \in MayFail
    /\ proc' = [proc EXCEPT ![t] = AfterStart(proc[t], "Err")]
    /\ UNCHANGED <<components, order, registry, running, told, dropped, left>>

StartFails(t) ==
    /\ At(t, "starting")
    /\ proc[t].cur \in MayFail
    /\ Goto(t, "reverting")
    /\ UNCHANGED <<components, order, registry, running, told, dropped, left>>

\* Slip: the component is marked active, its undo steps are not kept.
Activate_NoContext(t) ==
    /\ At(t, "activate")
    /\ components' = IF IsListed(proc[t].cur)
                     THEN [components EXCEPT ![proc[t].cur] = Active(NoContext)]
                     ELSE components
    /\ proc' = [proc EXCEPT ![t].pc = "loaded", ![t].ctx = NoContext]
    /\ UNCHANGED <<order, registry, running, told, dropped, left>>

\* The context is given to whatever entry bears the name now; if none does, it
\* is dropped, and its disposers with it.
Activate(t) ==
    /\ At(t, "activate")
    /\ components' = IF IsListed(proc[t].cur)
                     THEN [components EXCEPT ![proc[t].cur] = Active(proc[t].ctx)]
                     ELSE components
    /\ proc' = [proc EXCEPT ![t].pc = "loaded", ![t].ctx = NoContext]
    /\ UNCHANGED <<order, registry, running, told, dropped, left>>

TellLoaded(t) ==
    /\ At(t, "loaded")
    /\ Tell(proc[t].cur, "loaded")
    /\ proc' = [proc EXCEPT ![t] = AfterStart(proc[t], "Active")]
    /\ UNCHANGED <<components, order, registry, running, dropped>>

-----------------------------------------------------------------------------
(* stop, and the disposal of a context.                                    *)

\* The last undo step: a slot is emptied by name, whoever fills it now.
Undo(ctx) ==
    LET effect == Last(ctx.made)
    IN  IF effect = Own
        THEN running' = running \ {ctx.id} /\ UNCHANGED registry
        ELSE registry' = [registry EXCEPT ![effect] = Nobody] /\ UNCHANGED running

\* ComponentContext::dispose, one undo step: each takes its own lock.
Dispose(t) ==
    /\ proc[t].pc \in {"disposing", "reverting"}
    /\ proc[t].ctx.made # <<>>
    /\ Undo(proc[t].ctx)
    /\ proc' = [proc EXCEPT ![t].ctx.made = Front(@)]
    /\ UNCHANGED <<components, order, told, dropped, left>>

Reverted(t) ==
    /\ At(t, "reverting")
    /\ proc[t].ctx.made = <<>>
    /\ proc' = [proc EXCEPT ![t] = AfterStart(proc[t], "Err")]
    /\ UNCHANGED <<components, order, registry, running, told, dropped, left>>

\* Slip: only a component that was stopped by name is announced.
Disposed_Quiet(t) ==
    /\ At(t, "disposing")
    /\ proc[t].ctx.made = <<>>
    /\ proc' = [proc EXCEPT ![t].pc = IF proc[t].loop THEN "casualty" ELSE "unloaded",
                            ![t].ctx = NoContext]
    /\ UNCHANGED <<components, order, registry, running, told, dropped, left>>

Disposed(t) ==
    /\ At(t, "disposing")
    /\ proc[t].ctx.made = <<>>
    /\ proc' = [proc EXCEPT ![t].pc = "unloaded", ![t].ctx = NoContext]
    /\ UNCHANGED <<components, order, registry, running, told, dropped, left>>

\* Slip: `unload` stops the component and nothing that depended on it.
AfterStop_ReturnsEarly(p) ==
    IF p.loop \/ p.call = "reload" THEN [p EXCEPT !.pc = "cascade"] ELSE Returned

\* Where a task goes on after `stop`: to `cascade`, or to its next casualty.
AfterStop(p) == [p EXCEPT !.pc = IF p.loop THEN "casualty" ELSE "cascade"]

CheckKnown(t) ==
    /\ At(t, "known")
    /\ IF IsListed(proc[t].name) THEN Goto(t, "stop") ELSE Return(t)
    /\ UNCHANGED <<components, order, registry, running, told, dropped, left>>

\* `stop` takes the context out of the entry, under the lock; one that is not
\* active is left as it is.
Stop(t) ==
    /\ At(t, "stop")
    /\ LET n == proc[t].cur
       IN  \/ /\ IsActive(n)
              /\ components' = [components EXCEPT ![n] = Pending]
              /\ proc' = [proc EXCEPT ![t].pc = "disposing",
                                      ![t].ctx = components[n].context]
           \/ /\ ~IsActive(n)
              /\ proc' = [proc EXCEPT ![t] = AfterStop(proc[t])]
              /\ UNCHANGED components
    /\ UNCHANGED <<order, registry, running, told, dropped, left>>

TellUnloaded(t) ==
    /\ At(t, "unloaded")
    /\ Tell(proc[t].cur, "unloaded")
    /\ proc' = [proc EXCEPT ![t] = AfterStop(proc[t])]
    /\ UNCHANGED <<components, order, registry, running, dropped>>

-----------------------------------------------------------------------------
(* cascade and reconcile.                                                  *)

\* Slip: whatever lacks a service is a casualty, running or not.
Casualties_AnyState == {n \in Names : IsListed(n) /\ MissingFor(n) # {}}

Casualties == {n \in Names : IsActive(n) /\ MissingFor(n) # {}}

AfterCascade(p) ==
    CASE p.call = "unload" -> Returned
      [] p.call = "remove" -> [p EXCEPT !.pc = "delete", !.loop = FALSE]
      [] p.call = "reload" -> [p EXCEPT !.pc = "lookup", !.loop = FALSE,
                                        !.cur = p.name]

\* The casualties are found in the order of a hash map: any order.  When there
\* are none left, only the services of dropped starts stand without an owner.
Cascade(t) ==
    /\ At(t, "cascade")
    /\ \/ /\ Casualties = {}
          /\ proc' = [proc EXCEPT ![t] = AfterCascade(proc[t])]
          /\ left' = [left EXCEPT !.services = {s \in @ : registry[s] \in left.contexts}]
       \/ /\ Casualties # {}
          /\ \E names \in SetToSeqs(Casualties) :
               proc' = [proc EXCEPT ![t].pc = "casualty", ![t].loop = TRUE,
                                    ![t].todo = names]
          /\ UNCHANGED left
    /\ UNCHANGED <<components, order, registry, running, told, dropped>>

StopNext(t) ==
    /\ At(t, "casualty")
    /\ IF proc[t].todo = <<>>
       THEN Goto(t, "cascade")
       ELSE proc' = [proc EXCEPT ![t].pc = "stop",
                                 ![t].cur = Head(proc[t].todo),
                                 ![t].todo = Tail(@)]
    /\ UNCHANGED <<components, order, registry, running, told, dropped, left>>

Delete(t) ==
    /\ At(t, "delete")
    /\ components' = [components EXCEPT ![proc[t].name] = Unlisted]
    /\ Goto(t, "forget")
    /\ UNCHANGED <<order, registry, running, told, dropped, left>>

Forget(t) ==
    /\ At(t, "forget")
    /\ order' \in Filtered(order, {i \in DOMAIN order : order[i] # proc[t].name})
    /\ Return(t)
    /\ UNCHANGED <<components, registry, running, told, dropped, left>>

Candidates(t) ==
    {i \in DOMAIN order : IsPending(order[i]) /\ order[i] \notin proc[t].attempted}

Reconcile(t) ==
    /\ At(t, "candidates")
    /\ IF Candidates(t) = {}
       THEN Return(t)
       ELSE \E names \in Filtered(order, Candidates(t)) :
              proc' = [proc EXCEPT ![t].pc = "candidate", ![t].todo = names]
    /\ UNCHANGED <<components, order, registry, running, told, dropped, left>>

\* A round that starts nothing is the last one.
StartNext(t) ==
    /\ At(t, "candidate")
    /\ IF proc[t].todo = <<>>
       THEN Return(t)
       ELSE LET n == Head(proc[t].todo)
            IN  proc' = [proc EXCEPT ![t].pc = "lookup", ![t].cur = n,
                                     ![t].todo = Tail(@),
                                     ![t].attempted = @ \cup {n}]
    /\ UNCHANGED <<components, order, registry, running, told, dropped, left>>

-----------------------------------------------------------------------------
(* Calls that are dropped, and the host itself.                            *)

\* A call is dropped at an await.  In `start` the context goes with it, and a
\* list of undo steps that is dropped runs none of them; before an event is
\* published, the bus does not hear of what was done; and after a stop no cascade
\* comes for those that need what was withdrawn.
Cancel(t) ==
    /\ left.drops < MaxDrops
    /\ Return(t)
    /\ LET p == proc[t]
       IN  \/ /\ p.pc = "starting"
              /\ left' = [left EXCEPT !.drops = @ + 1,
                                     !.contexts = @ \cup {p.ctx.id},
                                     !.services = @ \cup (ToSet(p.ctx.made) \cap Slots)]
           \/ /\ p.pc = "unloaded"
              /\ left' = [left EXCEPT !.drops = @ + 1,
                                     !.services = @ \cup UNION {MissingFor(n) : n \in Casualties},
                                     !.untold = @ \cup {p.cur}]
           \/ /\ p.pc = "loaded"
              /\ left' = [left EXCEPT !.drops = @ + 1, !.untold = @ \cup {p.cur}]
           \/ /\ p.pc = "pending"
              /\ left' = [left EXCEPT !.drops = @ + 1]
    /\ UNCHANGED <<components, order, registry, running, told, dropped>>

\* `drop` needs the host to itself.
DropHost ==
    /\ ~dropped
    /\ \A t \in Tasks : At(t, "idle")
    /\ LET contexts == {components[n].context : n \in {m \in Names : IsActive(m)}}
           undone == UNION {ToSet(ctx.made) : ctx \in contexts}
       IN  /\ running' = running \ {ctx.id : ctx \in {c \in contexts : Own \in ToSet(c.made)}}
           /\ registry' = [s \in Slots |-> IF s \in undone THEN Nobody ELSE registry[s]]
    /\ components' = [n \in Names |-> IF IsActive(n) THEN Pending ELSE components[n]]
    /\ dropped' = TRUE
    /\ UNCHANGED <<order, told, proc, left>>

-----------------------------------------------------------------------------

HInit ==
    /\ components = [n \in Names |-> Unlisted]
    /\ order = <<>>
    /\ registry = [s \in Slots |-> Nobody]
    /\ running = {}
    /\ told = [n \in Names |-> "none"]
    /\ proc = [t \in Tasks |-> Returned]
    /\ dropped = FALSE
    /\ left = NothingLeft

Starting(t) ==
    \/ CheckDuplicate(t) \/ Insert(t)
    \/ Lookup(t) \/ CheckMissing(t) \/ TellPending(t)
    \/ Register(t) \/ StartReturns(t) \/ StartFails(t) \/ Reverted(t)
    \/ Activate(t) \/ TellLoaded(t)
    \/ Reconcile(t) \/ StartNext(t)

Stopping(t) ==
    \/ CheckKnown(t) \/ Stop(t) \/ Dispose(t) \/ Disposed(t) \/ TellUnloaded(t)
    \/ Cascade(t) \/ StopNext(t)
    \/ Delete(t) \/ Forget(t)

HNext ==
    \/ \E t \in Tasks :
         \/ \E call \in Calls, n \in Names : Call(t, call, n)
         \/ Starting(t)
         \/ Stopping(t)
         \/ Cancel(t)
    \/ DropHost

HSpec == HInit /\ [][HNext]_hvars

\* The runtime runs every task that is ready, and a component's `start` comes
\* to an end; nothing says that a call is ever made, or dropped.
HFairSpec == HSpec /\ \A t \in Tasks : WF_hvars(Starting(t) \/ Stopping(t))

-----------------------------------------------------------------------------
(* Properties.                                                             *)

ContextType == [id : ContextIds \cup {Nobody}, made : Seq(Slots \cup {Own})]

Labels == {"idle", "check", "insert", "lookup", "missing", "activate", "reverting",
           "known", "stop", "disposing", "cascade", "casualty", "delete", "forget",
           "candidates", "candidate"} \cup Awaits

\* Every variable has its type, a context is held where the code holds one, and
\* an idle task holds no locals.
HTypeOK ==
    /\ components \in [Names -> [state : {"none", "Pending", "Active"},
                                 context : ContextType]]
    /\ \A n \in Names : ~IsActive(n) => components[n].context = NoContext
    /\ order \in Seq(Names)
    /\ registry \in [Slots -> ContextIds \cup {Nobody}]
    /\ running \subseteq ContextIds
    /\ told \in [Names -> {"none", "pending", "loaded", "unloaded"}]
    /\ proc \in [Tasks -> [pc        : Labels,
                           call      : Calls \cup {"none"},
                           name      : Names \cup {"none"},
                           cur       : Names \cup {"none"},
                           loop      : BOOLEAN,
                           todo      : Seq(Names),
                           attempted : SUBSET Names,
                           ctx       : ContextType]]
    /\ \A t \in Tasks :
         /\ At(t, "idle") => proc[t] = Returned
         /\ proc[t].ctx # NoContext =>
              proc[t].pc \in {"starting", "activate", "reverting", "disposing"}
    /\ dropped \in BOOLEAN
    /\ left \in [drops : 0..MaxDrops, contexts : SUBSET ContextIds,
                 services : SUBSET Slots, untold : SUBSET Names]

\* The contexts somebody can still dispose of: those of active components and
\* those of the calls under way.
Held == {components[n].context : n \in {m \in Names : IsActive(m)}}
          \cup {proc[t].ctx : t \in Tasks}

\* What of a kind stands and has its undo step on no list that is held.
StrayRuns == {id \in running :
    \A ctx \in Held : ~(ctx.id = id /\ Own \in ToSet(ctx.made))}
StraySlots == {s \in Slots : registry[s] # Nobody /\
    \A ctx \in Held : ~(ctx.id = registry[s] /\ s \in ToSet(ctx.made))}

\* "Nothing outlives its owner": every tool, service, hook and task that is there
\* has its undo step on a list somebody holds, but for what was made by a `start`
\* that was dropped half way. Failed starts, cascades, reloads, the drop of the host and calls dropped
\* anywhere else leave nothing behind.
OnlyDroppedStartsLeak ==
    /\ StrayRuns \subseteq left.contexts
    /\ \A s \in StraySlots : registry[s] \in left.contexts

\* A task on its way to stop what depends on a service it has withdrawn.
Withdrawing(t) ==
    \/ proc[t].pc \in {"disposing", "unloaded", "cascade", "casualty"}
    \/ At(t, "stop") /\ proc[t].loop

\* "An agent should never hold a tool whose backing service is gone": what an
\* active component lacks with no cascade on its way to stop it was withdrawn by a
\* stop dropped before its cascade, or stood on after a dropped start, and the next
\* cascade to end makes up for it.
OnlyDroppedStopsStrand ==
    \A n \in Names :
        IsActive(n) => \/ MissingFor(n) \subseteq left.services
                       \/ \E t \in Tasks : Withdrawing(t)

\* An active component has everything it registered: what others fail at, lose
\* or take down with them leaves its hooks, tasks, tools and services alone.
ActiveIsWhole ==
    \A n \in Names :
        IsActive(n) =>
            /\ components[n].context.id \in running
            /\ \A i \in DOMAIN Registers[n] :
                 registry[Registers[n][i]] = components[n].context.id

\* The last lifecycle event the bus has of a component tells whether it runs,
\* unless a call is at work on it, or was dropped before it had told, or the host
\* went without a word.
BusKnowsState ==
    \A n \in Names \ left.untold :
        (~dropped /\ \A t \in Tasks : proc[t].cur # n) =>
            (IsActive(n) <=> told[n] = "loaded")

\* When `reconcile` returns, every component that could run does: one that is
\* left waiting with its services there is one whose start fails.
ReconcileLeavesNoneOut ==
    [][\A t \in Tasks :
         proc[t].pc \in {"candidates", "candidate"} /\ proc'[t].pc = "idle" =>
             \A n \in Names : IsPending(n) /\ MissingFor(n) = {}
                                => n \in MayFail]_hvars

\* Every call returns: `cascade` and `reconcile` repeat, each until there is
\* nothing left to do, and neither goes round for ever.
CallsReturn ==
    \A t \in Tasks : ~At(t, "idle") ~> At(t, "idle")

-----------------------------------------------------------------------------
(* What does not hold; no configuration checks it. See the README.         *)

\* "Nothing outlives its owner", without exception: the context of a dropped start
\* goes with its undo steps, and so does that of an entry a second load replaces.
NothingOutlivesOwner == StrayRuns = {} /\ StraySlots = {}

\* A component is active without a service it requires only while a task is still
\* working through the cascade that will stop it, with no exception for dropped
\* calls. Of two callers one may withdraw what the other's start has looked up.
DependenciesHold ==
    \A n \in Names :
        IsActive(n) /\ MissingFor(n) # {} => \E t \in Tasks : Withdrawing(t)

\* "Registered but waiting on a service it declared": with no call under way, a
\* pending component lacks a service.
PendingIsWaiting ==
    (\A t \in Tasks : At(t, "idle")) /\ ~dropped =>
        \A n \in Names : IsPending(n) => MissingFor(n) # {}
=============================================================================
