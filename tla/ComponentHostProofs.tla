-------------------------- MODULE ComponentHostProofs --------------------------
(***************************************************************************)
(* What holds of the component host under one caller at a time, for any    *)
(* components, services and tools, where no two components fill one slot.  *)
(*                                                                         *)
(* A component that runs has a context of its own, with an undo step for   *)
(* each of its effects, and all its effects stand; a call that starts or   *)
(* stops one holds the context and has it pending meanwhile.  What runs is *)
(* served by what runs, except while a cascade is under way.               *)
(***************************************************************************)
EXTENDS ComponentHost, FiniteSetTheorems, SequenceTheorems, TLAPS

OneCaller == \A t, u \in Tasks : t = u
OneProvider == \A n, m \in Names : ToSet(Registers[n]) \cap ToSet(Registers[m]) # {} => n = m

-----------------------------------------------------------------------------
(* A call, by its locals.                                                  *)

CallType == [pc        : Labels,
             call      : Calls \cup {"none"},
             name      : Names \cup {"none"},
             cur       : Names \cup {"none"},
             loop      : BOOLEAN,
             todo      : Seq(Names),
             attempted : SUBSET Names,
             ctx       : ContextType]

\* The places where a call holds a context.
Holding == {"starting", "activate", "reverting", "disposing"}
Tidy(p) == (p.pc = "idle" => p = Returned) /\ (p.ctx # NoContext => p.pc \in Holding)

\* The places of `cascade` and of the stops inside it.
Cascades(p) ==
    \/ p.pc \in {"disposing", "unloaded", "cascade", "casualty"}
    \/ p.pc = "stop" /\ p.loop

\* What the locals say of one another at each place.
Locals(p) ==
    /\ p.pc # "idle" => p.cur \in Names /\ p.name \in Names /\ p.call \in Calls
    /\ p.pc \in {"check", "insert", "known"} => p.cur = p.name /\ ~p.loop
    /\ p.pc \in {"stop", "disposing", "unloaded"} /\ ~p.loop => p.cur = p.name
    /\ p.pc \in {"casualty", "candidates", "candidate"} => p.loop
    /\ p.pc \in {"check", "insert"} => p.call = "load"
    /\ p.pc \in {"known", "stop"} \/ Cascades(p) => p.call # "load"
    /\ p.pc \in {"delete", "forget"} => p.call = "remove"

-----------------------------------------------------------------------------
(* Services, contexts and their effects.                                   *)

\* What a component requires is provided by one that runs, or was left to nobody.
Served(n) == \A s \in Requires[n] :
    s \in left.services \/ \E m \in Names : IsActive(m) /\ s \in ToSet(Registers[m])

\* What it requires is there, and not by what a context lists.
Ready(n, made) == \A s \in Requires[n] : registry[s] # Nobody /\ s \notin ToSet(made)

\* What a call knows of the components it works on.
Knows(p) ==
    /\ p.pc = "insert" => ~IsListed(p.name)
    /\ p.pc \in {"missing", "pending", "starting", "activate", "reverting",
                 "disposing", "unloaded"} => IsPending(p.cur)
    /\ p.pc = "loaded" => IsActive(p.cur)
    /\ Cascades(p) \/ p.pc = "delete" => ~IsActive(p.name)
    /\ p.pc = "forget" => ~IsListed(p.name)
    /\ p.pc = "reverting" => p.cur \in MayFail
    /\ p.pc \in {"starting", "activate"} => Served(p.cur)
    /\ p.pc = "pending" => ~Ready(p.cur, p.ctx.made)

Stands(effect, id) == IF effect = Own THEN id \in running ELSE registry[effect] = id

\* The context a call holds lists the first effects of its component, and while
\* that one starts they stand.
Builds(p) ==
    /\ p.pc \in Holding => p.ctx.id # Nobody
    /\ p.pc \in {"starting", "activate"} => p.ctx.id \notin left.contexts
    /\ \A i \in DOMAIN p.ctx.made :
           i <= Len(Effects(p.cur)) /\ p.ctx.made[i] = Effects(p.cur)[i]
    /\ p.pc = "activate" => Len(p.ctx.made) = Len(Effects(p.cur))
    /\ p.pc \in {"starting", "activate"} =>
           \A i \in DOMAIN p.ctx.made : Stands(p.ctx.made[i], p.ctx.id)

\* A round of `reconcile` passes over nothing that could start.
Attempt == {"lookup", "missing", "starting", "activate", "reverting"}
Round == Attempt \cup {"pending", "candidate"}
Tries(p) ==
    /\ p.attempted # {} =>
           p.loop /\ p.pc \in Round \cup {"candidates", "loaded"}
    /\ p.pc # "loaded" =>
           \A n \in p.attempted : IsPending(n) /\ Ready(n, p.ctx.made) =>
               n \in MayFail \/ (p.pc \in Attempt /\ n = p.cur)
    /\ p.loop /\ p.pc \in Round =>
           \A n \in Names : IsPending(n) => n \in p.attempted \cup ToSet(p.todo)

Fits(p) == Locals(p) /\ Knows(p) /\ Builds(p) /\ Tries(p)

-----------------------------------------------------------------------------
(* The invariant.                                                          *)

\* All effects of a component that runs stand, and its context lists them.
Complete(n) ==
    /\ components[n].context.id # Nobody
    /\ components[n].context.made = Effects(n)
    /\ \A i \in DOMAIN Effects(n) : Stands(Effects(n)[i], components[n].context.id)

\* No two contexts have one id.
Apart ==
    /\ \A n, m \in Names : IsActive(n) /\ IsActive(m) /\ n # m =>
           components[n].context.id # components[m].context.id
    /\ \A t \in Tasks, n \in Names : IsActive(n) =>
           proc[t].ctx.id # components[n].context.id

\* What is registered or runs is on the list of a context that is held, or a start
\* that was dropped made it; and then the slot is among those left to nobody.
Lists(ctx, id, effect) == ctx.id = id /\ effect \in ToSet(ctx.made)
OnList(id, effect) ==
    \/ \E n \in Names : IsActive(n) /\ Lists(components[n].context, id, effect)
    \/ \E t \in Tasks : Lists(proc[t].ctx, id, effect)
Recorded ==
    /\ \A id \in running : id \in left.contexts \/ OnList(id, Own)
    /\ \A s \in Slots : registry[s] # Nobody =>
           registry[s] \in left.contexts \/ OnList(registry[s], s)
Stray == \A s \in Slots : registry[s] \in left.contexts => s \in left.services

AllServed == \A n \in Names : IsActive(n) => Served(n)
Serving == AllServed \/ \E t \in Tasks : Cascades(proc[t])

\* At these places the bus does not know yet what became of a component.
Silent == {"loaded", "disposing", "unloaded"}
Announced ==
    ~dropped => \A n \in Names \ left.untold :
        (\A t \in Tasks : proc[t].cur = n => proc[t].pc \notin Silent) =>
            (IsActive(n) <=> told[n] = "loaded")

LeftType == [drops : 0..MaxDrops, contexts : SUBSET ContextIds,
             services : SUBSET Slots, untold : SUBSET Names]

Ordered == \A n \in Names : IsListed(n) => n \in ToSet(order)

HostInv ==
    /\ HTypeOK
    /\ \A t \in Tasks : Fits(proc[t])
    /\ \A n \in Names : IsActive(n) => Complete(n)
    /\ Apart /\ Recorded /\ Stray /\ Serving /\ Announced /\ Ordered

-----------------------------------------------------------------------------
(* What the types give.                                                    *)

\* A call and the component it names.
LEMMA Typings ==
    ASSUME HTypeOK, NEW t \in Tasks
    PROVE  /\ proc[t] \in CallType /\ Tidy(proc[t])
           /\ proc \in [Tasks -> CallType]
BY DEF HTypeOK, CallType, Tidy, Holding, At

\* The fields of a call.
LEMMA Fields ==
    ASSUME NEW p \in CallType
    PROVE  /\ p.pc \in Labels /\ p.call \in Calls \cup {"none"} /\ p.loop \in BOOLEAN
           /\ p.name \in Names \cup {"none"} /\ p.cur \in Names \cup {"none"}
           /\ p.todo \in Seq(Names) /\ p.attempted \in SUBSET Names /\ p.ctx \in ContextType
           /\ p.ctx.id \in ContextIds \cup {Nobody} /\ p.ctx.made \in Seq(Slots \cup {Own})
BY DEF CallType, ContextType

\* Nothing has been done yet, or any more.
LEMMA AtRest ==
    /\ Returned \in CallType /\ Tidy(Returned) /\ Fits(Returned)
    /\ Returned.ctx = NoContext /\ Returned.ctx.made = <<>> /\ ~Cascades(Returned)
    /\ Returned.cur = "none" /\ Returned.pc = "idle"
    /\ NoContext \in ContextType /\ NoContext.made = <<>> /\ NoContext.id = Nobody
<1>1. NoContext \in ContextType /\ NoContext.made = <<>> /\ NoContext.id = Nobody
  BY DEF NoContext, ContextType
<1>2. /\ Returned.pc = "idle" /\ Returned.ctx = NoContext /\ Returned.attempted = {}
      /\ Returned.loop = FALSE /\ Returned.cur = "none" /\ Returned.todo = <<>>
      /\ Returned.call = "none" /\ Returned.name = "none"
  BY DEF Returned
<1>3. Returned \in CallType
  BY <1>1 DEF Returned, CallType, Labels
<1>4. Tidy(Returned)
  BY <1>2 DEF Tidy
<1>5. Locals(Returned) /\ ~Cascades(Returned)
  BY <1>2 DEF Locals, Cascades
<1>6. Knows(Returned)
  BY <1>2 DEF Knows, Cascades
<1>7. Builds(Returned)
  BY <1>1, <1>2 DEF Builds, Holding
<1>8. Tries(Returned)
  BY <1>2 DEF Tries, Round, Attempt
<1> QED
  BY <1>1, <1>2, <1>3, <1>4, <1>5, <1>6, <1>7, <1>8 DEF Fits

\* What a component makes: its own hooks and tasks, then its slots.
LEMMA EffectsAre ==
    ASSUME NEW n \in Names
    PROVE  /\ Effects(n) \in Seq(Slots \cup {Own})
           /\ Len(Effects(n)) = Len(Registers[n]) + 1 /\ Len(Registers[n]) \in Nat
           /\ Effects(n)[1] = Own
           /\ \A i \in 1..Len(Registers[n]) : Effects(n)[i + 1] = Registers[n][i]
           /\ \A i \in DOMAIN Effects(n) :
                  Effects(n)[i] = Own \/ Effects(n)[i] \in ToSet(Registers[n])
           /\ DOMAIN Effects(n) = 1..Len(Effects(n))
           /\ DOMAIN Registers[n] = 1..Len(Registers[n])
           /\ ToSet(Registers[n]) \subseteq Slots
<1>1. Registers[n] \in Seq(Slots)
  BY ComponentsAssumption
<1>2. <<Own>> \in Seq(Slots \cup {Own}) /\ Registers[n] \in Seq(Slots \cup {Own})
  BY <1>1
<1>3. /\ Effects(n) \in Seq(Slots \cup {Own})
      /\ Len(Effects(n)) = Len(Registers[n]) + 1 /\ Len(Registers[n]) \in Nat
      /\ Effects(n)[1] = Own
      /\ \A i \in 1..Len(Registers[n]) : Effects(n)[i + 1] = Registers[n][i]
      /\ DOMAIN Effects(n) = 1..Len(Effects(n))
      /\ DOMAIN Registers[n] = 1..Len(Registers[n])
  BY <1>1, <1>2 DEF Effects
<1>4. ToSet(Registers[n]) \subseteq Slots /\ \A i \in DOMAIN Registers[n] : Registers[n][i] \in ToSet(Registers[n])
  BY <1>1 DEF ToSet
<1>5. ASSUME NEW i \in DOMAIN Effects(n)
      PROVE  Effects(n)[i] = Own \/ Effects(n)[i] \in ToSet(Registers[n])
  <2>1. CASE i = 1
    BY <1>3, <2>1
  <2>2. CASE i # 1
    <3>1. i - 1 \in 1..Len(Registers[n]) /\ i = (i - 1) + 1
      BY <1>3, <2>2
    <3>2. Effects(n)[i] = Registers[n][i - 1]
      BY <1>3, <3>1
    <3> QED
      BY <1>3, <1>4, <3>1, <3>2
  <2> QED
    BY <2>1, <2>2
<1> QED
  BY <1>3, <1>4, <1>5

\* Where one call at most is inside the host, a step moves all calls there are.
LEMMA OneMoves ==
    ASSUME HTypeOK, OneCaller, NEW t \in Tasks, NEW q, proc' = [proc EXCEPT ![t] = q]
    PROVE  proc'[t] = q /\ \A u \in Tasks : u = t /\ proc'[u] = q /\ proc[u] = proc[t]
BY DEF HTypeOK, OneCaller

\* What runs is served, unless the call withdraws.
LEMMA ServedOr ==
    ASSUME OneCaller, Serving, NEW t \in Tasks
    PROVE  AllServed \/ Cascades(proc[t])
BY DEF OneCaller, Serving

-----------------------------------------------------------------------------
(* Steps that change neither components nor effects.                       *)

\* A call goes on to other locals, and what does not run may come or go.
LEMMA Dormantly ==
    ASSUME HostInv, OneCaller, NEW t \in Tasks, NEW q \in CallType, Tidy(q), Fits(q)',
           proc' = [proc EXCEPT ![t] = q], UNCHANGED <<registry, running, dropped>>,
           left' \in LeftType, left'.contexts = left.contexts, Stray',
           components' \in [Names -> [state : {"none", "Pending", "Active"},
                                      context : ContextType]],
           \A n \in Names : /\ IsActive(n)' <=> IsActive(n)
                            /\ IsActive(n) => components'[n] = components[n]
                            /\ ~IsActive(n) => components'[n].context = NoContext,
           order' \in Seq(Names), Ordered',
           told' \in [Names -> {"none", "pending", "loaded", "unloaded"}], Announced',
           \/ q.ctx = proc[t].ctx
           \/ /\ q.ctx.made = <<>> /\ proc[t].ctx.made = <<>>
              /\ \A n \in Names : IsActive(n) => q.ctx.id # components[n].context.id,
           AllServed' \/ Cascades(q)
    PROVE  HostInv'
<1>1. HTypeOK /\ Apart /\ Recorded /\ \A n \in Names : IsActive(n) => Complete(n)
  BY DEF HostInv
<1>2. proc'[t] = q /\ \A u \in Tasks : u = t /\ proc'[u] = q
  BY <1>1, OneMoves
<1>3. HTypeOK'
  <2>1. proc' \in [Tasks -> CallType]
    BY <1>1, Typings
  <2>2. \A u \in Tasks : /\ At(u, "idle")' => proc'[u] = Returned
                         /\ proc'[u].ctx # NoContext => proc'[u].pc \in Holding
    BY <1>2 DEF Tidy, At
  <2> QED
    BY <1>1, <2>1, <2>2 DEF HTypeOK, CallType, LeftType, Holding
<1>4. \A u \in Tasks : Fits(proc[u])'
  <2>1. Locals(q)' /\ Knows(q)' /\ Builds(q)' /\ Tries(q)'
    BY DEF Fits
  <2>2. \A u \in Tasks : Locals(proc[u])'
    BY <1>2, <2>1 DEF Locals, Cascades
  <2>3. \A u \in Tasks : Knows(proc[u])'
    BY <1>2, <2>1 DEF Knows, Cascades, IsActive, IsPending, IsListed, Served, Ready
  <2>4. \A u \in Tasks : Builds(proc[u])'
    BY <1>2, <2>1 DEF Builds, Stands
  <2>5. \A u \in Tasks : Tries(proc[u])'
    BY <1>2, <2>1 DEF Tries, Round, Attempt, IsPending, IsActive, Ready
  <2> QED
    BY <2>2, <2>3, <2>4, <2>5 DEF Fits
<1>5. \A n \in Names : IsActive(n)' => Complete(n)'
  BY <1>1 DEF Complete, Stands
<1>6. Apart'
  <2>1. ASSUME NEW n \in Names, NEW m \in Names, IsActive(n), IsActive(m), n # m
        PROVE  components'[n].context.id # components'[m].context.id
    BY <1>1, <2>1 DEF Apart
  <2>2. ASSUME NEW u \in Tasks, NEW n \in Names, IsActive(n)
        PROVE  proc'[u].ctx.id # components'[n].context.id
    <3>1. components'[n] = components[n] /\ proc'[u] = q
      BY <1>2, <2>2
    <3>2. proc[t].ctx.id # components[n].context.id
      BY <1>1, <2>2 DEF Apart
    <3> QED
      BY <2>2, <3>1, <3>2
  <2> QED
    BY <2>1, <2>2 DEF Apart
<1>7. Recorded'
  <2>1. ASSUME NEW id, NEW effect, OnList(id, effect) PROVE OnList(id, effect)'
    <3>1. CASE \E n \in Names : IsActive(n) /\ Lists(components[n].context, id, effect)
      BY <3>1 DEF OnList, Lists
    <3>2. CASE \E u \in Tasks : Lists(proc[u].ctx, id, effect)
      <4>1. Lists(proc[t].ctx, id, effect)
        BY <1>2, <3>2
      <4>2. q.ctx = proc[t].ctx
        BY <4>1 DEF Lists, ToSet
      <4> QED
        BY <1>2, <4>1, <4>2 DEF OnList, Lists
    <3> QED
      BY <2>1, <3>1, <3>2 DEF OnList
  <2> QED
    BY <1>1, <2>1 DEF Recorded
<1>8. Serving'
  BY <1>2 DEF Serving, AllServed, Cascades
<1> QED
  BY <1>3, <1>4, <1>5, <1>6, <1>7, <1>8 DEF HostInv

\* A call goes on to other locals, and may announce something.
LEMMA Quietly ==
    ASSUME HostInv, OneCaller, NEW t \in Tasks, NEW q \in CallType, Tidy(q), Fits(q),
           proc' = [proc EXCEPT ![t] = q],
           UNCHANGED <<components, order, registry, running, dropped>>,
           left' \in LeftType, left'.contexts = left.contexts, left'.services = left.services,
           told' \in [Names -> {"none", "pending", "loaded", "unloaded"}], Announced',
           \/ q.ctx = proc[t].ctx
           \/ /\ q.ctx.made = <<>> /\ proc[t].ctx.made = <<>>
              /\ \A n \in Names : IsActive(n) => q.ctx.id # components[n].context.id,
           AllServed \/ Cascades(q)
    PROVE  HostInv'
<1>1. HTypeOK /\ Ordered
  BY DEF HostInv
<1>2. Fits(q)'
  <2>1. Locals(q) /\ Knows(q) /\ Builds(q) /\ Tries(q)
    BY DEF Fits
  <2>2. Locals(q)'
    BY <2>1 DEF Locals, Cascades
  <2>3. Knows(q)'
    BY <2>1 DEF Knows, Cascades, IsActive, IsPending, IsListed, Served, Ready
  <2>4. Builds(q)'
    BY <2>1 DEF Builds, Stands
  <2>5. Tries(q)'
    BY <2>1 DEF Tries, Round, Attempt, IsPending, IsActive, Ready
  <2> QED
    BY <2>2, <2>3, <2>4, <2>5 DEF Fits
<1>3. \A n \in Names : /\ IsActive(n)' <=> IsActive(n)
                       /\ IsActive(n) => components'[n] = components[n]
                       /\ ~IsActive(n) => components'[n].context = NoContext
  BY <1>1 DEF IsActive, HTypeOK
<1>4. /\ components' \in [Names -> [state : {"none", "Pending", "Active"},
                                    context : ContextType]]
      /\ order' \in Seq(Names)
  BY <1>1 DEF HTypeOK
<1>5. Ordered'
  BY <1>1 DEF Ordered, IsListed
<1>6. Stray' /\ (AllServed => AllServed')
  <2>1. Stray
    BY DEF HostInv
  <2> QED
    BY <2>1 DEF Stray, AllServed, Served, IsActive
<1> QED
  BY <1>2, <1>3, <1>4, <1>5, <1>6, Dormantly

\* Nothing is announced and nothing done: what was in step is still.
LEMMA StillAnnounced ==
    ASSUME HTypeOK, OneCaller, Announced, NEW t \in Tasks, NEW q,
           proc' = [proc EXCEPT ![t] = q], UNCHANGED <<components, dropped, told>>,
           left'.untold = left.untold,
           proc[t].pc \notin Silent \/ (q.cur = proc[t].cur /\ q.pc \in Silent)
    PROVE  Announced'
<1>1. proc'[t] = q /\ \A u \in Tasks : u = t /\ proc'[u] = q
  BY OneMoves
<1> QED
  BY <1>1 DEF Announced, IsActive

\* A call goes on to another place, with the context it had.
LEMMA GoesOn ==
    ASSUME HostInv, OneCaller, NEW t \in Tasks, NEW q \in CallType, Tidy(q), Fits(q),
           proc' = [proc EXCEPT ![t] = q],
           UNCHANGED <<components, order, registry, running, told, dropped, left>>,
           q.ctx = proc[t].ctx \/ (q.ctx = NoContext /\ proc[t].ctx.made = <<>>),
           AllServed \/ Cascades(q),
           proc[t].pc \notin Silent \/ (q.cur = proc[t].cur /\ q.pc \in Silent)
    PROVE  HostInv'
<1>1. Announced'
  BY StillAnnounced DEF HostInv
<1>2. told' \in [Names -> {"none", "pending", "loaded", "unloaded"}] /\ left' \in LeftType
  BY DEF HostInv, HTypeOK, LeftType
<1>3. \A n \in Names : IsActive(n) => NoContext.id # components[n].context.id
  BY AtRest DEF HostInv, Complete
<1> QED
  BY <1>1, <1>2, <1>3, AtRest, Quietly

\* Nothing is left anew, and what ran runs.
LEMMA LeftAlone ==
    ASSUME HostInv, UNCHANGED <<left, registry>>,
           \A n \in Names : IsActive(n)' <=> IsActive(n)
    PROVE  /\ left' \in LeftType /\ left'.contexts = left.contexts /\ Stray'
           /\ AllServed => AllServed'
<1>1. left' \in LeftType /\ left'.contexts = left.contexts
  BY DEF HostInv, HTypeOK, LeftType
<1>2. Stray'
  BY DEF HostInv, Stray
<1>3. AllServed => AllServed'
  BY DEF AllServed, Served
<1> QED
  BY <1>1, <1>2, <1>3

\* A call goes on, or is dropped, holding nothing, and what was left is counted anew.
LEMMA Settles ==
    ASSUME HostInv, OneCaller, NEW t \in Tasks, NEW q \in CallType, Tidy(q), Fits(q),
           proc' = [proc EXCEPT ![t] = q], q.pc \notin {"starting", "activate"},
           UNCHANGED <<components, order, registry, running, told, dropped>>,
           left' \in LeftType, left'.contexts = left.contexts, Stray', Announced', AllServed',
           q.ctx = NoContext, proc[t].ctx.made = <<>>
    PROVE  HostInv'
<1>1. HTypeOK /\ Ordered
  BY DEF HostInv
<1>2. Fits(q)'
  <2>1. Locals(q) /\ Knows(q) /\ Builds(q) /\ Tries(q)
    BY DEF Fits
  <2>2. Locals(q)'
    BY <2>1 DEF Locals, Cascades
  <2>3. Knows(q)'
    BY <2>1 DEF Knows, Cascades, IsActive, IsPending, IsListed, Ready
  <2>4. Builds(q)'
    BY <2>1 DEF Builds, Stands
  <2>5. Tries(q)'
    BY <2>1 DEF Tries, Round, Attempt, IsPending, IsActive, Ready
  <2> QED
    BY <2>2, <2>3, <2>4, <2>5 DEF Fits
<1>3. \A n \in Names : /\ IsActive(n)' <=> IsActive(n)
                       /\ IsActive(n) => components'[n] = components[n]
                       /\ ~IsActive(n) => components'[n].context = NoContext
  BY <1>1 DEF IsActive, HTypeOK
<1>4. /\ components' \in [Names -> [state : {"none", "Pending", "Active"},
                                    context : ContextType]]
      /\ order' \in Seq(Names)
      /\ told' \in [Names -> {"none", "pending", "loaded", "unloaded"}]
  BY <1>1 DEF HTypeOK
<1>5. Ordered'
  BY <1>1 DEF Ordered, IsListed
<1>6. q.ctx.made = <<>> /\ \A n \in Names : IsActive(n) => q.ctx.id # components[n].context.id
  BY AtRest DEF HostInv, Complete
<1> QED
  BY <1>2, <1>3, <1>4, <1>5, <1>6, Dormantly

\* Only the place of a call changes.
LEMMA PlaceIs ==
    ASSUME NEW p \in CallType, NEW pc \in Labels
    PROVE  LET q == [p EXCEPT !.pc = pc] IN
           /\ q \in CallType /\ q.pc = pc /\ q.call = p.call /\ q.name = p.name
           /\ q.cur = p.cur /\ q.loop = p.loop /\ q.todo = p.todo
           /\ q.attempted = p.attempted /\ q.ctx = p.ctx
BY DEF CallType

-----------------------------------------------------------------------------
(* load, and try_start.                                                    *)

\* How a call goes on when `try_start` has returned.
LEMMA AfterStartIs ==
    ASSUME NEW p \in CallType, NEW result \in {"Active", "Pending", "Err"}
    PROVE  LET q == AfterStart(p, result) IN
           /\ q \in CallType
           /\ \/ q = Returned
              \/ /\ p.loop /\ q.pc = "candidate" /\ result # "Active"
                 /\ q.attempted = p.attempted /\ q.todo = p.todo
                 /\ q.loop /\ q.cur = p.cur /\ q.name = p.name /\ q.call = p.call
                 /\ q.ctx = NoContext
              \/ /\ p.loop => result = "Active"
                 /\ q.pc = "candidates" /\ q.attempted = IF p.loop THEN {} ELSE p.attempted
                 /\ q.loop /\ q.cur = p.cur /\ q.name = p.name /\ q.call = p.call
                 /\ q.ctx = NoContext
<1> DEFINE q == AfterStart(p, result)
<1>1. "candidate" \in Labels /\ "candidates" \in Labels /\ NoContext \in ContextType
  BY AtRest DEF Labels
<1>2. p.loop \in BOOLEAN
  BY DEF CallType
<1>3. CASE p.loop /\ result = "Active"
  <2>1. q = [p EXCEPT !.pc = "candidates", !.attempted = {}, !.ctx = NoContext]
    BY <1>3 DEF AfterStart
  <2> QED
    BY <1>1, <1>3, <2>1 DEF CallType
<1>4. CASE p.loop /\ result # "Active"
  <2>1. q = [p EXCEPT !.pc = "candidate", !.ctx = NoContext]
    BY <1>4 DEF AfterStart
  <2> QED
    BY <1>1, <1>4, <2>1 DEF CallType
<1>5. CASE ~p.loop /\ (result = "Active" \/ (result = "Pending" /\ p.call = "reload"))
  <2>1. q = [p EXCEPT !.pc = "candidates", !.loop = TRUE, !.ctx = NoContext]
    BY <1>5 DEF AfterStart
  <2> QED
    BY <1>1, <1>5, <2>1 DEF CallType
<1>6. CASE ~p.loop /\ ~(result = "Active" \/ (result = "Pending" /\ p.call = "reload"))
  <2>1. q = Returned
    BY <1>6 DEF AfterStart
  <2> QED
    BY <2>1, AtRest
<1> QED
  BY <1>2, <1>3, <1>4, <1>5, <1>6

\* What has been tried and is not active was not there, lacks a service or may fail.
LEMMA Resumes ==
    ASSUME NEW p \in CallType, Locals(p), Tries(p),
           p.pc \in {"lookup", "pending", "reverting", "loaded"},
           NEW result \in {"Active", "Pending", "Err"},
           p.pc = "loaded" => result = "Active",
           p.ctx.made = <<>>,
           IsPending(p.cur) /\ Ready(p.cur, <<>>) => p.cur \in MayFail \/ result = "Active"
    PROVE  LET q == AfterStart(p, result) IN
           /\ q \in CallType /\ Tidy(q) /\ Fits(q) /\ q.ctx = NoContext
           /\ ~Cascades(q) /\ q.pc \notin Silent
<1> DEFINE q == AfterStart(p, result)
<1>1. /\ q \in CallType
      /\ \/ q = Returned
         \/ /\ p.loop /\ q.pc = "candidate" /\ result # "Active"
            /\ q.attempted = p.attempted /\ q.todo = p.todo
            /\ q.loop /\ q.cur = p.cur /\ q.name = p.name /\ q.call = p.call
            /\ q.ctx = NoContext
         \/ /\ p.loop => result = "Active"
            /\ q.pc = "candidates" /\ q.attempted = IF p.loop THEN {} ELSE p.attempted
            /\ q.loop /\ q.cur = p.cur /\ q.name = p.name /\ q.call = p.call
            /\ q.ctx = NoContext
  BY AfterStartIs
<1> SUFFICES /\ q \in CallType /\ Tidy(q) /\ Fits(q) /\ q.ctx = NoContext
             /\ ~Cascades(q) /\ q.pc \notin Silent
  OBVIOUS
<1> HIDE DEF q
<1>2. CASE q = Returned
  BY <1>2, AtRest DEF Silent
<1>3. CASE /\ p.loop /\ q.pc = "candidate" /\ result # "Active"
           /\ q.attempted = p.attempted /\ q.todo = p.todo
           /\ q.loop /\ q.cur = p.cur /\ q.name = p.name /\ q.call = p.call
           /\ q.ctx = NoContext
  <2>1. Locals(q) /\ ~Cascades(q) /\ Tidy(q) /\ q.pc \notin Silent
    BY <1>3 DEF Locals, Cascades, Tidy, Silent
  <2>2. Knows(q)
    BY <1>3 DEF Knows, Cascades
  <2>3. Builds(q)
    BY <1>3, AtRest DEF Builds, Holding
  <2>4. q.ctx.made = p.ctx.made
    BY <1>3, AtRest
  <2>5. ASSUME NEW n \in q.attempted, IsPending(n), Ready(n, q.ctx.made)
        PROVE  n \in MayFail
    BY <1>3, <2>4, <2>5 DEF Tries
  <2>6. Tries(q)
    BY <1>3, <2>5 DEF Tries, Round, Attempt
  <2> QED
    BY <1>1, <1>3, <2>1, <2>2, <2>3, <2>6 DEF Fits
<1>4. CASE /\ p.loop => result = "Active"
           /\ q.pc = "candidates" /\ q.attempted = IF p.loop THEN {} ELSE p.attempted
           /\ q.loop /\ q.cur = p.cur /\ q.name = p.name /\ q.call = p.call
           /\ q.ctx = NoContext
  <2>1. Locals(q) /\ ~Cascades(q) /\ Tidy(q) /\ q.pc \notin Silent
    BY <1>4 DEF Locals, Cascades, Tidy, Silent
  <2>2. Knows(q)
    BY <1>4 DEF Knows, Cascades
  <2>3. Builds(q)
    BY <1>4, AtRest DEF Builds, Holding
  <2>4. q.attempted = {}
    BY <1>4 DEF Tries
  <2>5. Tries(q)
    BY <1>4, <2>4 DEF Tries, Round, Attempt
  <2> QED
    BY <1>1, <1>4, <2>1, <2>2, <2>3, <2>5 DEF Fits
<1> QED
  BY <1>1, <1>2, <1>3, <1>4

\* What the invariant says of a call.
LEMMA OfCall ==
    ASSUME HostInv, NEW t \in Tasks
    PROVE  /\ HTypeOK /\ proc[t] \in CallType /\ Tidy(proc[t]) /\ Fits(proc[t])
           /\ Locals(proc[t]) /\ Knows(proc[t]) /\ Builds(proc[t]) /\ Tries(proc[t])
           /\ proc[t].pc \notin Holding => proc[t].ctx = NoContext
<1>1. HTypeOK /\ Fits(proc[t])
  BY DEF HostInv
<1>2. proc[t] \in CallType /\ Tidy(proc[t])
  BY <1>1, Typings
<1> QED
  BY <1>1, <1>2 DEF Fits, Tidy

\* A slot is filled while who provides it runs.
LEMMA Filled ==
    ASSUME HostInv, NEW m \in Names, IsActive(m), NEW s \in ToSet(Registers[m])
    PROVE  s \in Slots /\ registry[s] # Nobody
<1>1. Complete(m) /\ s # Own /\ s \in Slots
  BY EffectsAre, ComponentsAssumption DEF HostInv
<1>2. PICK i \in DOMAIN Registers[m] : Registers[m][i] = s
  BY DEF ToSet
<1>3. i + 1 \in DOMAIN Effects(m) /\ Effects(m)[i + 1] = s
  <2>1. i \in 1..Len(Registers[m]) /\ Len(Registers[m]) \in Nat
    BY EffectsAre
  <2>2. Effects(m)[i + 1] = Registers[m][i]
    BY <2>1, EffectsAre
  <2>3. DOMAIN Effects(m) = 1..(Len(Registers[m]) + 1)
    BY EffectsAre
  <2> QED
    BY <1>2, <2>1, <2>2, <2>3
<1>4. registry[s] = components[m].context.id
  BY <1>1, <1>3 DEF Complete, Stands
<1> QED
  BY <1>1, <1>4 DEF Complete

\* A slot that is filled is provided by what runs or left to nobody, if no call has
\* filled it for a component that does not run yet.
LEMMA Provided ==
    ASSUME HostInv, \A t \in Tasks : proc[t].ctx.made = <<>>,
           NEW s \in Slots, registry[s] # Nobody
    PROVE  \/ registry[s] \in left.contexts
           \/ \E m \in Names : IsActive(m) /\ s \in ToSet(Registers[m])
<1> SUFFICES ASSUME registry[s] \notin left.contexts
             PROVE  \E m \in Names : IsActive(m) /\ s \in ToSet(Registers[m])
  OBVIOUS
<1>1. s # Own
  BY ComponentsAssumption
<1>2. OnList(registry[s], s)
  BY DEF HostInv, Recorded
<1>3. \A t \in Tasks : s \notin ToSet(proc[t].ctx.made)
  BY DEF ToSet
<1>4. PICK m \in Names : IsActive(m) /\ s \in ToSet(components[m].context.made)
  BY <1>2, <1>3 DEF OnList, Lists
<1>5. s \in ToSet(Effects(m))
  BY <1>4 DEF HostInv, Complete
<1>6. s \in ToSet(Registers[m])
  BY <1>1, <1>5, EffectsAre DEF ToSet
<1> QED
  BY <1>4, <1>6

\* Hence what lacks nothing is served, and what is ready lacks nothing.
LEMMA Supplied ==
    ASSUME HostInv, \A t \in Tasks : proc[t].ctx.made = <<>>, NEW n \in Names
    PROVE  /\ MissingFor(n) = {} => Served(n)
           /\ MissingFor(n) = {} <=> Ready(n, <<>>)
<1>1. Requires[n] \subseteq Slots /\ ToSet(<<>>) = {}
  BY ComponentsAssumption DEF ToSet
<1>2. MissingFor(n) = {} <=> Ready(n, <<>>)
  BY <1>1 DEF MissingFor, Ready
<1>3. Stray
  BY DEF HostInv
<1>4. MissingFor(n) = {} => Served(n)
  BY <1>1, <1>3, Provided DEF MissingFor, Served, Stray
<1> QED
  BY <1>2, <1>4

\* A call begins.
LEMMA CallKeeps ==
    ASSUME HostInv, OneCaller, NEW t \in Tasks, NEW call \in Calls, NEW n \in Names,
           Call(t, call, n)
    PROVE  HostInv'
<1> DEFINE q == [Returned EXCEPT !.pc = Entry[call], !.call = call, !.name = n, !.cur = n]
<1>1. /\ At(t, "idle") /\ proc' = [proc EXCEPT ![t] = q]
      /\ UNCHANGED <<components, order, registry, running, told, dropped, left>>
  BY DEF Call
<1>2. /\ Entry[call] \in {"check", "known", "stop"} /\ call \in Calls
      /\ Entry[call] = "check" => call = "load"
      /\ Entry[call] # "check" => call # "load"
  BY DEF Entry, Calls
<1>3. /\ q \in CallType /\ q.pc = Entry[call] /\ q.call = call /\ q.name = n /\ q.cur = n
      /\ q.loop = FALSE /\ q.attempted = {} /\ q.ctx = NoContext
  BY <1>2, AtRest DEF Returned, CallType, Labels
<1>4. proc[t] = Returned /\ proc[t].pc \notin Silent /\ AllServed
  BY <1>1, OfCall, AtRest, ServedOr DEF At, Tidy, Silent, HostInv
<1> HIDE DEF q
<1>5. Tidy(q)
  BY <1>2, <1>3 DEF Tidy
<1>6. Locals(q)
  BY <1>2, <1>3 DEF Locals, Cascades
<1>7. Knows(q)
  BY <1>2, <1>3 DEF Knows, Cascades
<1>8. Builds(q)
  BY <1>2, <1>3, AtRest DEF Builds, Holding
<1>9. Tries(q)
  BY <1>2, <1>3 DEF Tries, Round, Attempt
<1> QED
  BY <1>1, <1>3, <1>4, <1>5, <1>6, <1>7, <1>8, <1>9, AtRest, GoesOn DEF Fits

\* A call that returns holds nothing.
LEMMA Returns ==
    ASSUME HostInv, OneCaller, NEW t \in Tasks, Return(t), proc[t].pc \notin Holding,
           proc[t].pc \notin Silent, AllServed,
           UNCHANGED <<components, order, registry, running, told, dropped, left>>
    PROVE  HostInv'
<1>1. proc' = [proc EXCEPT ![t] = Returned] /\ proc[t].ctx = NoContext
  BY OfCall DEF Return
<1> QED
  BY <1>1, AtRest, GoesOn

\* A duplicate is refused, or nothing bears the name.
LEMMA CheckDuplicateKeeps ==
    ASSUME HostInv, OneCaller, NEW t \in Tasks, CheckDuplicate(t)
    PROVE  HostInv'
<1> DEFINE p == proc[t]
           q == [p EXCEPT !.pc = "insert"]
<1>1. /\ p \in CallType /\ p.pc = "check" /\ Locals(p) /\ Tries(p) /\ p.ctx = NoContext
      /\ UNCHANGED <<components, order, registry, running, told, dropped, left>>
  BY OfCall DEF CheckDuplicate, At, Holding
<1>2. AllServed
  BY <1>1, ServedOr DEF Cascades, HostInv
<1>3. CASE IsListed(p.name)
  BY <1>1, <1>2, <1>3, Returns DEF CheckDuplicate, Holding, Silent
<1>4. CASE ~IsListed(p.name)
  <2>1. proc' = [proc EXCEPT ![t] = q]
    BY <1>4 DEF CheckDuplicate, Goto
  <2>2. /\ q \in CallType /\ q.pc = "insert" /\ q.call = p.call /\ q.name = p.name
        /\ q.cur = p.cur /\ q.loop = p.loop /\ q.todo = p.todo
        /\ q.attempted = p.attempted /\ q.ctx = p.ctx
    BY <1>1, PlaceIs DEF Labels
  <2> HIDE DEF q
  <2>3. Locals(q) /\ Tidy(q)
    BY <1>1, <2>2 DEF Locals, Cascades, Tidy
  <2>4. Knows(q)
    BY <1>4, <2>2 DEF Knows, Cascades
  <2>5. Builds(q)
    BY <1>1, <2>2, AtRest DEF Builds, Holding
  <2>6. Tries(q)
    BY <1>1, <2>2 DEF Tries, Round, Attempt
  <2> QED
    BY <1>1, <1>2, <2>1, <2>2, <2>3, <2>4, <2>5, <2>6, GoesOn DEF Fits, Silent
<1> QED
  BY <1>3, <1>4

\* The component is looked up: it is not there, it runs, or it may be started.
LEMMA LookupKeeps ==
    ASSUME HostInv, OneCaller, NEW t \in Tasks, Lookup(t)
    PROVE  HostInv'
<1> DEFINE p == proc[t]
<1>1. /\ p \in CallType /\ p.pc = "lookup" /\ Locals(p) /\ Tries(p) /\ p.ctx = NoContext
      /\ p.cur \in Names /\ Knows(p)
      /\ UNCHANGED <<components, order, registry, running, told, dropped, left>>
  BY OfCall DEF Lookup, At, Holding, Locals
<1>2. AllServed /\ p.pc \notin Silent
  BY <1>1, ServedOr DEF Cascades, HostInv, Silent
<1>3. components[p.cur].state \in {"none", "Pending", "Active"}
  BY <1>1 DEF HostInv, HTypeOK
<1>4. ASSUME NEW result \in {"Active", "Err"}, ~IsPending(p.cur),
             proc' = [proc EXCEPT ![t] = AfterStart(p, result)]
      PROVE  HostInv'
  <2> DEFINE q == AfterStart(p, result)
  <2>1. /\ q \in CallType /\ Tidy(q) /\ Fits(q) /\ q.ctx = NoContext
        /\ ~Cascades(q) /\ q.pc \notin Silent
    BY <1>1, <1>4, AtRest, Resumes
  <2> HIDE DEF q
  <2>2. proc' = [proc EXCEPT ![t] = q]
    BY <1>4 DEF q
  <2> QED
    BY <1>1, <1>2, <2>1, <2>2, GoesOn
<1>5. CASE ~IsListed(p.cur)
  <2>1. ~IsPending(p.cur) /\ ~IsActive(p.cur)
    BY <1>5 DEF IsListed, IsPending, IsActive
  <2>2. proc' = [proc EXCEPT ![t] = AfterStart(p, "Err")]
    BY <1>5, <2>1 DEF Lookup
  <2> QED
    BY <1>4, <2>1, <2>2
<1>6. CASE IsActive(p.cur)
  <2>1. ~IsPending(p.cur) /\ IsListed(p.cur)
    BY <1>6 DEF IsActive, IsListed, IsPending
  <2>2. proc' = [proc EXCEPT ![t] = AfterStart(p, "Active")]
    BY <1>6, <2>1 DEF Lookup
  <2> QED
    BY <1>4, <2>1, <2>2
<1>7. CASE IsPending(p.cur)
  <2> DEFINE q == [p EXCEPT !.pc = "missing"]
  <2>1. proc' = [proc EXCEPT ![t] = q]
    BY <1>7 DEF Lookup, IsActive, IsListed, IsPending
  <2>2. /\ q \in CallType /\ q.pc = "missing" /\ q.call = p.call /\ q.name = p.name
        /\ q.cur = p.cur /\ q.loop = p.loop /\ q.todo = p.todo
        /\ q.attempted = p.attempted /\ q.ctx = p.ctx
    BY <1>1, PlaceIs DEF Labels
  <2> HIDE DEF q
  <2>3. Locals(q) /\ Tidy(q)
    BY <1>1, <2>2 DEF Locals, Cascades, Tidy
  <2>4. Knows(q)
    BY <1>7, <2>2 DEF Knows, Cascades
  <2>5. Builds(q)
    BY <1>1, <2>2, AtRest DEF Builds, Holding
  <2>6. Tries(q)
    BY <1>1, <2>2 DEF Tries, Round, Attempt
  <2> QED
    BY <1>1, <1>2, <2>1, <2>2, <2>3, <2>4, <2>5, <2>6, GoesOn DEF Fits
<1> QED
  BY <1>3, <1>5, <1>6, <1>7 DEF IsListed, IsActive, IsPending

\* A start that does not begin yet, or begins with nothing made.
LEMMA CheckMissingKeeps ==
    ASSUME HostInv, OneCaller, NEW t \in Tasks, CheckMissing(t)
    PROVE  HostInv'
<1> DEFINE p == proc[t]
<1>1. /\ p \in CallType /\ p.pc = "missing" /\ Locals(p) /\ Tries(p) /\ p.ctx = NoContext
      /\ p.cur \in Names /\ Knows(p)
      /\ UNCHANGED <<components, order, registry, running, told, dropped, left>>
  BY OfCall DEF CheckMissing, At, Holding, Locals
<1>2. AllServed /\ p.pc \notin Silent
  BY <1>1, ServedOr DEF Cascades, HostInv, Silent
<1>3. \A u \in Tasks : proc[u].ctx.made = <<>>
  BY <1>1, AtRest DEF OneCaller
<1>4. /\ MissingFor(p.cur) = {} => Served(p.cur)
      /\ MissingFor(p.cur) = {} <=> Ready(p.cur, p.ctx.made)
  BY <1>1, <1>3, AtRest, Supplied
<1>5. CASE MissingFor(p.cur) # {}
  <2> DEFINE q == [p EXCEPT !.pc = "pending"]
  <2>1. proc' = [proc EXCEPT ![t] = q]
    BY <1>5 DEF CheckMissing, Goto
  <2>2. /\ q \in CallType /\ q.pc = "pending" /\ q.call = p.call /\ q.name = p.name
        /\ q.cur = p.cur /\ q.loop = p.loop /\ q.todo = p.todo
        /\ q.attempted = p.attempted /\ q.ctx = p.ctx
    BY <1>1, PlaceIs DEF Labels, Awaits
  <2> HIDE DEF q
  <2>3. Locals(q) /\ Tidy(q)
    BY <1>1, <2>2 DEF Locals, Cascades, Tidy
  <2>4. Knows(q)
    BY <1>1, <1>4, <1>5, <2>2 DEF Knows, Cascades
  <2>5. Builds(q)
    BY <1>1, <2>2, AtRest DEF Builds, Holding
  <2>6. Tries(q)
    BY <1>1, <1>4, <1>5, <2>2 DEF Tries, Round, Attempt
  <2> QED
    BY <1>1, <1>2, <2>1, <2>2, <2>3, <2>4, <2>5, <2>6, GoesOn DEF Fits
<1>6. CASE MissingFor(p.cur) = {}
  <2>1. PICK id \in ContextIds \ UsedIds :
           proc' = [proc EXCEPT ![t].pc = "starting", ![t].ctx = [id |-> id, made |-> <<>>]]
    BY <1>6 DEF CheckMissing
  <2> DEFINE ctx == [id |-> id, made |-> <<>>]
             q == [p EXCEPT !.pc = "starting", !.ctx = ctx]
  <2>2. proc' = [proc EXCEPT ![t] = q]
    BY <1>1, <2>1 DEF HostInv, HTypeOK
  <2>3. ctx \in ContextType /\ ctx.id = id /\ ctx.made = <<>> /\ id # Nobody
    <3>1. id \in ContextIds /\ id # 0
      BY FS_CardinalityType, ComponentsAssumption DEF ContextIds
    <3> QED
      BY <3>1 DEF ContextType, Nobody
  <2>4. /\ q \in CallType /\ q.pc = "starting" /\ q.call = p.call /\ q.name = p.name
        /\ q.cur = p.cur /\ q.loop = p.loop /\ q.todo = p.todo
        /\ q.attempted = p.attempted /\ q.ctx = ctx
    BY <1>1, <2>3 DEF CallType, Labels, Awaits
  <2> HIDE DEF q, ctx
  <2>5. Locals(q) /\ Tidy(q)
    BY <1>1, <2>4 DEF Locals, Cascades, Tidy, Holding
  <2>6. Knows(q)
    BY <1>1, <1>4, <1>6, <2>4 DEF Knows, Cascades
  <2>7. Builds(q)
    BY <1>1, <2>3, <2>4 DEF Builds, Holding, UsedIds
  <2>8. Tries(q)
    BY <1>1, <2>3, <2>4, AtRest DEF Tries, Round, Attempt
  <2>9. \A n \in Names : IsActive(n) => q.ctx.id # components[n].context.id
    BY <2>3, <2>4 DEF UsedIds
  <2>10. Announced' /\ told' \in [Names -> {"none", "pending", "loaded", "unloaded"}]
    BY <1>1, <1>2, <2>2, StillAnnounced DEF HostInv, HTypeOK
  <2>11. left' \in LeftType
    BY <1>1 DEF HostInv, HTypeOK, LeftType
  <2> QED
    BY <1>1, <1>2, <2>2, <2>3, <2>4, <2>5, <2>6, <2>7, <2>8, <2>9, <2>10, <2>11, AtRest, Quietly
       DEF Fits
<1> QED
  BY <1>5, <1>6

\* The start has made all its effects.
LEMMA StartReturnsKeeps ==
    ASSUME HostInv, OneCaller, NEW t \in Tasks, StartReturns(t)
    PROVE  HostInv'
<1> DEFINE p == proc[t]
           q == [p EXCEPT !.pc = "activate"]
<1>1. /\ p \in CallType /\ p.pc = "starting" /\ Locals(p) /\ Tries(p) /\ Builds(p)
      /\ p.cur \in Names /\ Knows(p)
      /\ UNCHANGED <<components, order, registry, running, told, dropped, left>>
  BY OfCall DEF StartReturns, At, Locals
<1>2. AllServed /\ p.pc \notin Silent
  BY <1>1, ServedOr DEF Cascades, HostInv, Silent
<1>3. proc' = [proc EXCEPT ![t] = q] /\ Len(p.ctx.made) = Len(Effects(p.cur))
  BY DEF StartReturns, Goto
<1>4. /\ q \in CallType /\ q.pc = "activate" /\ q.call = p.call /\ q.name = p.name
      /\ q.cur = p.cur /\ q.loop = p.loop /\ q.todo = p.todo
      /\ q.attempted = p.attempted /\ q.ctx = p.ctx
  BY <1>1, PlaceIs DEF Labels
<1> HIDE DEF q
<1>5. Locals(q) /\ Tidy(q)
  BY <1>1, <1>4 DEF Locals, Cascades, Tidy, Holding
<1>6. Knows(q)
  BY <1>1, <1>4 DEF Knows, Cascades
<1>7. Builds(q)
  BY <1>1, <1>3, <1>4 DEF Builds, Holding
<1>8. Tries(q)
  BY <1>1, <1>4 DEF Tries, Round, Attempt
<1> QED
  BY <1>1, <1>2, <1>3, <1>4, <1>5, <1>6, <1>7, <1>8, GoesOn DEF Fits

\* The start has failed, after any of its effects.
LEMMA StartFailsKeeps ==
    ASSUME HostInv, OneCaller, NEW t \in Tasks, StartFails(t)
    PROVE  HostInv'
<1> DEFINE p == proc[t]
           q == [p EXCEPT !.pc = "reverting"]
<1>1. /\ p \in CallType /\ p.pc = "starting" /\ Locals(p) /\ Tries(p) /\ Builds(p)
      /\ p.cur \in MayFail /\ Knows(p)
      /\ UNCHANGED <<components, order, registry, running, told, dropped, left>>
  BY OfCall DEF StartFails, At
<1>2. AllServed /\ p.pc \notin Silent
  BY <1>1, ServedOr DEF Cascades, HostInv, Silent
<1>3. proc' = [proc EXCEPT ![t] = q]
  BY DEF StartFails, Goto
<1>4. /\ q \in CallType /\ q.pc = "reverting" /\ q.call = p.call /\ q.name = p.name
      /\ q.cur = p.cur /\ q.loop = p.loop /\ q.todo = p.todo
      /\ q.attempted = p.attempted /\ q.ctx = p.ctx
  BY <1>1, PlaceIs DEF Labels
<1> HIDE DEF q
<1>5. Locals(q) /\ Tidy(q)
  BY <1>1, <1>4 DEF Locals, Cascades, Tidy, Holding
<1>6. Knows(q)
  BY <1>1, <1>4 DEF Knows, Cascades
<1>7. Builds(q)
  BY <1>1, <1>4 DEF Builds, Holding
<1>8. Tries(q)
  BY <1>1, <1>4 DEF Tries, Round, Attempt
<1> QED
  BY <1>1, <1>2, <1>3, <1>4, <1>5, <1>6, <1>7, <1>8, GoesOn DEF Fits

\* Nothing is left of a start that failed.
LEMMA RevertedKeeps ==
    ASSUME HostInv, OneCaller, NEW t \in Tasks, Reverted(t)
    PROVE  HostInv'
<1> DEFINE p == proc[t]
           q == AfterStart(p, "Err")
<1>1. /\ p \in CallType /\ p.pc = "reverting" /\ Locals(p) /\ Tries(p)
      /\ p.ctx.made = <<>> /\ Knows(p)
      /\ UNCHANGED <<components, order, registry, running, told, dropped, left>>
  BY OfCall DEF Reverted, At
<1>2. AllServed /\ p.pc \notin Silent
  BY <1>1, ServedOr DEF Cascades, HostInv, Silent
<1>3. p.cur \in MayFail
  BY <1>1 DEF Knows
<1>4. /\ q \in CallType /\ Tidy(q) /\ Fits(q) /\ q.ctx = NoContext
      /\ ~Cascades(q) /\ q.pc \notin Silent
  BY <1>1, <1>3, Resumes
<1> HIDE DEF q
<1>5. proc' = [proc EXCEPT ![t] = q]
  BY DEF Reverted, q
<1> QED
  BY <1>1, <1>2, <1>4, <1>5, GoesOn

\* The bus hears what became of the component a call works on.
LEMMA Tells ==
    ASSUME HostInv, OneCaller, NEW t \in Tasks, NEW event \in {"pending", "loaded", "unloaded"},
           proc[t].cur \in Names, Tell(proc[t].cur, event), UNCHANGED <<components, dropped>>,
           IsActive(proc[t].cur) <=> event = "loaded"
    PROVE  /\ told' \in [Names -> {"none", "pending", "loaded", "unloaded"}] /\ Announced'
           /\ left' \in LeftType /\ left'.contexts = left.contexts
           /\ left'.services = left.services
<1> DEFINE n == proc[t].cur
<1>1. /\ told \in [Names -> {"none", "pending", "loaded", "unloaded"}] /\ left \in LeftType
      /\ told' = [told EXCEPT ![n] = event] /\ left' = [left EXCEPT !.untold = @ \ {n}]
  BY DEF HostInv, HTypeOK, LeftType, Tell
<1>2. /\ left' \in LeftType /\ left'.contexts = left.contexts
      /\ left'.services = left.services /\ left'.untold = left.untold \ {n}
  BY <1>1 DEF LeftType
<1>3. ASSUME NEW m \in Names \ left'.untold, ~dropped PROVE IsActive(m)' <=> told'[m] = "loaded"
  <2>1. CASE m = n
    BY <1>1, <2>1 DEF IsActive
  <2>2. CASE m # n
    <3>1. m \in Names \ left.untold
      BY <1>2, <2>2
    <3>2. IsActive(m) <=> told[m] = "loaded"
      BY <1>3, <2>2, <3>1 DEF HostInv, Announced, OneCaller
    <3> QED
      BY <1>1, <2>2, <3>2 DEF IsActive
  <2> QED
    BY <2>1, <2>2
<1> QED
  BY <1>1, <1>2, <1>3 DEF Announced

\* The bus hears that a component waits.
LEMMA TellPendingKeeps ==
    ASSUME HostInv, OneCaller, NEW t \in Tasks, TellPending(t)
    PROVE  HostInv'
<1> DEFINE p == proc[t]
           q == AfterStart(p, "Pending")
<1>1. /\ p \in CallType /\ p.pc = "pending" /\ Locals(p) /\ Tries(p)
      /\ p.ctx = NoContext /\ Knows(p) /\ p.cur \in Names
      /\ UNCHANGED <<components, order, registry, running, dropped>>
      /\ Tell(p.cur, "pending")
  BY OfCall DEF TellPending, At, Holding, Locals
<1>2. AllServed /\ p.pc \notin Silent
  BY <1>1, ServedOr DEF Cascades, HostInv, Silent
<1>3. ~Ready(p.cur, <<>>) /\ ~IsActive(p.cur) /\ p.ctx.made = <<>>
  BY <1>1, AtRest DEF Knows, IsActive, IsPending
<1>4. /\ q \in CallType /\ Tidy(q) /\ Fits(q) /\ q.ctx = NoContext
      /\ ~Cascades(q) /\ q.pc \notin Silent
  BY <1>1, <1>3, Resumes
<1> HIDE DEF q
<1>5. proc' = [proc EXCEPT ![t] = q]
  BY DEF TellPending, q
<1>6. /\ told' \in [Names -> {"none", "pending", "loaded", "unloaded"}] /\ Announced'
      /\ left' \in LeftType /\ left'.contexts = left.contexts
      /\ left'.services = left.services
  BY <1>1, <1>3, Tells
<1> QED
  BY <1>1, <1>2, <1>4, <1>5, <1>6, Quietly

\* The bus hears that a component runs.
LEMMA TellLoadedKeeps ==
    ASSUME HostInv, OneCaller, NEW t \in Tasks, TellLoaded(t)
    PROVE  HostInv'
<1> DEFINE p == proc[t]
           q == AfterStart(p, "Active")
<1>1. /\ p \in CallType /\ p.pc = "loaded" /\ Locals(p) /\ Tries(p)
      /\ p.ctx = NoContext /\ Knows(p) /\ p.cur \in Names
      /\ UNCHANGED <<components, order, registry, running, dropped>>
      /\ Tell(p.cur, "loaded")
  BY OfCall DEF TellLoaded, At, Holding, Locals
<1>2. AllServed /\ IsActive(p.cur)
  BY <1>1, ServedOr DEF Cascades, HostInv, Knows
<1>4. /\ q \in CallType /\ Tidy(q) /\ Fits(q) /\ q.ctx = NoContext
      /\ ~Cascades(q) /\ q.pc \notin Silent
  BY <1>1, <1>2, AtRest, Resumes DEF IsActive, IsPending
<1> HIDE DEF q
<1>5. proc' = [proc EXCEPT ![t] = q]
  BY DEF TellLoaded, q
<1>6. /\ told' \in [Names -> {"none", "pending", "loaded", "unloaded"}] /\ Announced'
      /\ left' \in LeftType /\ left'.contexts = left.contexts
      /\ left'.services = left.services
  BY <1>1, <1>2, Tells
<1> QED
  BY <1>1, <1>2, <1>4, <1>5, <1>6, Quietly

-----------------------------------------------------------------------------
(* stop, cascade and reconcile.                                            *)

\* Nothing is stopped that is not there.
LEMMA CheckKnownKeeps ==
    ASSUME HostInv, OneCaller, NEW t \in Tasks, CheckKnown(t)
    PROVE  HostInv'
<1> DEFINE p == proc[t]
           q == [p EXCEPT !.pc = "stop"]
<1>1. /\ p \in CallType /\ p.pc = "known" /\ Locals(p) /\ Tries(p) /\ p.ctx = NoContext
      /\ UNCHANGED <<components, order, registry, running, told, dropped, left>>
  BY OfCall DEF CheckKnown, At, Holding
<1>2. AllServed
  BY <1>1, ServedOr DEF Cascades, HostInv
<1>3. CASE ~IsListed(p.name)
  BY <1>1, <1>2, <1>3, Returns DEF CheckKnown, Holding, Silent
<1>4. CASE IsListed(p.name)
  <2>1. proc' = [proc EXCEPT ![t] = q]
    BY <1>4 DEF CheckKnown, Goto
  <2>2. /\ q \in CallType /\ q.pc = "stop" /\ q.call = p.call /\ q.name = p.name
        /\ q.cur = p.cur /\ q.loop = p.loop /\ q.todo = p.todo
        /\ q.attempted = p.attempted /\ q.ctx = p.ctx
    BY <1>1, PlaceIs DEF Labels
  <2> HIDE DEF q
  <2>3. Locals(q) /\ Tidy(q)
    BY <1>1, <2>2 DEF Locals, Cascades, Tidy
  <2>4. Knows(q)
    BY <1>1, <2>2 DEF Knows, Cascades, Locals
  <2>5. Builds(q)
    BY <1>1, <2>2, AtRest DEF Builds, Holding
  <2>6. Tries(q)
    BY <1>1, <2>2 DEF Tries, Round, Attempt
  <2> QED
    BY <1>1, <1>2, <2>1, <2>2, <2>3, <2>4, <2>5, <2>6, GoesOn DEF Fits, Silent
<1> QED
  BY <1>3, <1>4

\* How a call goes on when `stop` has returned.
LEMMA Stopped ==
    ASSUME NEW p \in CallType, Locals(p), Tries(p), p.pc \in {"stop", "unloaded"},
           ~IsActive(p.name)
    PROVE  LET q == AfterStop(p) IN
           /\ q \in CallType /\ q.ctx = p.ctx /\ Cascades(q) /\ q.pc \notin Silent
           /\ p.ctx = NoContext => Tidy(q) /\ Fits(q)
<1> DEFINE q == AfterStop(p)
<1>1. /\ q \in CallType /\ q.pc = (IF p.loop THEN "casualty" ELSE "cascade")
      /\ q.call = p.call /\ q.name = p.name
      /\ q.cur = p.cur /\ q.loop = p.loop /\ q.todo = p.todo
      /\ q.attempted = p.attempted /\ q.ctx = p.ctx
  BY DEF AfterStop, CallType, Labels
<1> SUFFICES /\ q \in CallType /\ q.ctx = p.ctx /\ Cascades(q) /\ q.pc \notin Silent
             /\ p.ctx = NoContext => Tidy(q) /\ Fits(q)
  OBVIOUS
<1> HIDE DEF q
<1>2. Locals(q) /\ Cascades(q) /\ q.pc \notin Silent
  BY <1>1 DEF Locals, Cascades, Silent
<1>3. Knows(q)
  BY <1>1 DEF Knows, Cascades
<1>4. Tries(q)
  BY <1>1 DEF Tries, Round, Attempt
<1>5. p.ctx = NoContext => Builds(q)
  BY <1>1, AtRest DEF Builds, Holding
<1>6. p.ctx = NoContext => Tidy(q)
  BY <1>1 DEF Tidy
<1> QED
  BY <1>1, <1>2, <1>3, <1>4, <1>5, <1>6 DEF Fits

\* A context is disposed of.
LEMMA DisposedKeeps ==
    ASSUME HostInv, OneCaller, NEW t \in Tasks, Disposed(t)
    PROVE  HostInv'
<1> DEFINE p == proc[t]
           q == [p EXCEPT !.pc = "unloaded", !.ctx = NoContext]
<1>1. /\ p \in CallType /\ p.pc = "disposing" /\ Locals(p) /\ Tries(p) /\ Knows(p)
      /\ p.ctx.made = <<>>
      /\ UNCHANGED <<components, order, registry, running, told, dropped, left>>
  BY OfCall DEF Disposed, At
<1>2. proc' = [proc EXCEPT ![t] = q]
  BY <1>1 DEF Disposed, HostInv, HTypeOK
<1>3. /\ q \in CallType /\ q.pc = "unloaded" /\ q.call = p.call /\ q.name = p.name
      /\ q.cur = p.cur /\ q.loop = p.loop /\ q.todo = p.todo
      /\ q.attempted = p.attempted /\ q.ctx = NoContext
  BY <1>1, AtRest DEF CallType, Labels, Awaits
<1> HIDE DEF q
<1>4. Locals(q) /\ Tidy(q) /\ Cascades(q)
  BY <1>1, <1>3 DEF Locals, Cascades, Tidy
<1>5. Knows(q)
  BY <1>1, <1>3 DEF Knows, Cascades
<1>6. Builds(q)
  BY <1>1, <1>3, AtRest DEF Builds, Holding
<1>7. Tries(q)
  BY <1>1, <1>3 DEF Tries, Round, Attempt
<1> QED
  BY <1>1, <1>2, <1>3, <1>4, <1>5, <1>6, <1>7, GoesOn DEF Fits, Silent

\* The bus hears that a component was stopped.
LEMMA TellUnloadedKeeps ==
    ASSUME HostInv, OneCaller, NEW t \in Tasks, TellUnloaded(t)
    PROVE  HostInv'
<1> DEFINE p == proc[t]
           q == AfterStop(p)
<1>1. /\ p \in CallType /\ p.pc = "unloaded" /\ Locals(p) /\ Tries(p) /\ Knows(p)
      /\ p.ctx = NoContext /\ p.cur \in Names
      /\ UNCHANGED <<components, order, registry, running, dropped>>
      /\ Tell(p.cur, "unloaded")
  BY OfCall DEF TellUnloaded, At, Holding, Locals
<1>2. ~IsActive(p.cur) /\ ~IsActive(p.name)
  BY <1>1 DEF Knows, Cascades, IsActive, IsPending
<1>3. /\ q \in CallType /\ Tidy(q) /\ q.ctx = p.ctx /\ Cascades(q)
      /\ q.pc \notin Silent /\ Fits(q)
  BY <1>1, <1>2, Stopped
<1> HIDE DEF q
<1>4. proc' = [proc EXCEPT ![t] = q]
  BY DEF TellUnloaded, q
<1>5. /\ told' \in [Names -> {"none", "pending", "loaded", "unloaded"}] /\ Announced'
      /\ left' \in LeftType /\ left'.contexts = left.contexts
      /\ left'.services = left.services
  BY <1>1, <1>2, Tells
<1> QED
  BY <1>1, <1>3, <1>4, <1>5, Quietly

\* The casualties, in any order, are a list of components.
LEMMA CasualtiesAre == \A names \in SetToSeqs(Casualties) : names \in Seq(Names)
<1>1. IsFiniteSet(Casualties) /\ Casualties \subseteq Names
  <2>1. Casualties \subseteq Names
    BY DEF Casualties
  <2> QED
    BY <2>1, FS_Subset, ComponentsAssumption
<1>2. Cardinality(Casualties) \in Nat
  BY <1>1, FS_CardinalityType
<1>3. \A names \in SetToSeqs(Casualties) : names \in [1..Cardinality(Casualties) -> Names]
  BY <1>1 DEF SetToSeqs
<1> QED
  BY <1>2, <1>3

\* Nothing more is to be stopped and what runs is served, or a round begins.
LEMMA CascadeKeeps ==
    ASSUME HostInv, OneCaller, NEW t \in Tasks, Cascade(t)
    PROVE  HostInv'
<1> DEFINE p == proc[t]
<1>1. /\ p \in CallType /\ p.pc = "cascade" /\ Locals(p) /\ Tries(p) /\ p.ctx = NoContext
      /\ p.cur \in Names /\ p.name \in Names /\ Knows(p) /\ p.call \in Calls \ {"load"}
      /\ UNCHANGED <<components, order, registry, running, told, dropped>>
  BY OfCall DEF Cascade, At, Holding, Locals, Cascades
<1>2. p.attempted = {} /\ ~IsActive(p.name)
  BY <1>1 DEF Tries, Round, Attempt, Knows, Cascades
<1>3. CASE Casualties = {}
  <2>1. /\ left' \in LeftType /\ left'.contexts = left.contexts
        /\ left'.untold = left.untold /\ Stray' /\ AllServed'
    <3>1. \A u \in Tasks : proc[u].ctx.made = <<>>
      BY <1>1, AtRest DEF OneCaller
    <3>2. left \in LeftType /\ \A n \in Names : Requires[n] \subseteq Slots
      BY ComponentsAssumption DEF HostInv, HTypeOK, LeftType
    <3>3. left' = [left EXCEPT !.services = {s \in @ : registry[s] \in left.contexts}]
      BY <1>3 DEF Cascade
    <3>4. /\ left' \in LeftType /\ left'.contexts = left.contexts /\ left'.untold = left.untold
          /\ left'.services = {s \in left.services : registry[s] \in left.contexts}
      BY <3>2, <3>3 DEF LeftType
    <3>5. Stray'
      BY <1>1, <3>4 DEF HostInv, Stray
    <3>6. ASSUME NEW n \in Names, IsActive(n), NEW s \in Requires[n]
          PROVE  \/ s \in left'.services
                 \/ \E m \in Names : IsActive(m) /\ s \in ToSet(Registers[m])
      <4>1. s \in Slots /\ registry[s] # Nobody
        BY <1>3, <3>2, <3>6 DEF Casualties, MissingFor
      <4> QED
        BY <3>1, <3>4, <4>1, Provided DEF HostInv, Stray
    <3> QED
      BY <1>1, <3>4, <3>5, <3>6 DEF AllServed, Served, IsActive
  <2> DEFINE q == AfterCascade(p)
  <2>2. CASE p.call = "unload"
    <3>1. q = Returned
      BY <2>2 DEF AfterCascade
    <3> HIDE DEF q
    <3>2. proc' = [proc EXCEPT ![t] = q]
      BY <1>3 DEF Cascade, q
    <3> QED
      BY <1>1, <2>1, <3>1, <3>2, AtRest, StillAnnounced, Settles DEF Silent, HostInv
  <2>3. CASE p.call = "remove"
    <3>1. q = [p EXCEPT !.pc = "delete", !.loop = FALSE]
      BY <2>3 DEF AfterCascade
    <3>2. /\ q \in CallType /\ q.pc = "delete" /\ q.call = p.call /\ q.name = p.name
          /\ q.cur = p.cur /\ q.loop = FALSE /\ q.attempted = {} /\ q.ctx = NoContext
      BY <1>1, <1>2, <3>1 DEF CallType, Labels
    <3> HIDE DEF q
    <3>3. proc' = [proc EXCEPT ![t] = q]
      BY <1>3 DEF Cascade, q
    <3>4. Locals(q) /\ Tidy(q)
      BY <1>1, <2>3, <3>2 DEF Locals, Cascades, Tidy
    <3>5. Knows(q)
      BY <1>2, <3>2 DEF Knows, Cascades
    <3>6. Builds(q)
      BY <3>2, AtRest DEF Builds, Holding
    <3>7. Tries(q)
      BY <3>2 DEF Tries, Round, Attempt
    <3> QED
      BY <1>1, <2>1, <3>2, <3>3, <3>4, <3>5, <3>6, <3>7, AtRest, StillAnnounced, Settles DEF Fits, Silent, HostInv
  <2>4. CASE p.call = "reload"
    <3>1. q = [p EXCEPT !.pc = "lookup", !.loop = FALSE, !.cur = p.name]
      BY <2>4 DEF AfterCascade
    <3>2. /\ q \in CallType /\ q.pc = "lookup" /\ q.call = p.call /\ q.name = p.name
          /\ q.cur = p.name /\ q.loop = FALSE /\ q.attempted = {} /\ q.ctx = NoContext
      BY <1>1, <1>2, <3>1 DEF CallType, Labels
    <3> HIDE DEF q
    <3>3. proc' = [proc EXCEPT ![t] = q]
      BY <1>3 DEF Cascade, q
    <3>4. Locals(q) /\ Tidy(q)
      BY <1>1, <2>4, <3>2 DEF Locals, Cascades, Tidy
    <3>5. Knows(q)
      BY <1>2, <3>2 DEF Knows, Cascades
    <3>6. Builds(q)
      BY <3>2, AtRest DEF Builds, Holding
    <3>7. Tries(q)
      BY <3>2 DEF Tries, Round, Attempt
    <3> QED
      BY <1>1, <2>1, <3>2, <3>3, <3>4, <3>5, <3>6, <3>7, AtRest, StillAnnounced, Settles DEF Fits, Silent, HostInv
  <2> QED
    BY <1>1, <2>2, <2>3, <2>4 DEF Calls
<1>4. CASE Casualties # {}
  <2>1. PICK names \in SetToSeqs(Casualties) :
           proc' = [proc EXCEPT ![t].pc = "casualty", ![t].loop = TRUE, ![t].todo = names]
    BY <1>4 DEF Cascade
  <2>8. UNCHANGED left
    BY <1>4 DEF Cascade
  <2> DEFINE q == [p EXCEPT !.pc = "casualty", !.loop = TRUE, !.todo = names]
  <2>2. proc' = [proc EXCEPT ![t] = q]
    BY <2>1 DEF HostInv, HTypeOK
  <2>3. /\ q \in CallType /\ q.pc = "casualty" /\ q.call = p.call /\ q.name = p.name
        /\ q.cur = p.cur /\ q.loop = TRUE /\ q.attempted = {} /\ q.ctx = NoContext
    BY <1>1, <1>2, CasualtiesAre DEF CallType, Labels
  <2> HIDE DEF q
  <2>4. Locals(q) /\ Tidy(q) /\ Cascades(q)
    BY <1>1, <2>3 DEF Locals, Cascades, Tidy
  <2>5. Knows(q)
    BY <1>2, <2>3 DEF Knows, Cascades
  <2>6. Builds(q)
    BY <2>3, AtRest DEF Builds, Holding
  <2>7. Tries(q)
    BY <2>3 DEF Tries, Round, Attempt
  <2> QED
    BY <1>1, <2>2, <2>3, <2>4, <2>5, <2>6, <2>7, <2>8, GoesOn DEF Fits, Silent
<1> QED
  BY <1>3, <1>4

\* The next casualty, or a look for more.
LEMMA StopNextKeeps ==
    ASSUME HostInv, OneCaller, NEW t \in Tasks, StopNext(t)
    PROVE  HostInv'
<1> DEFINE p == proc[t]
<1>1. /\ p \in CallType /\ p.pc = "casualty" /\ Locals(p) /\ Tries(p) /\ p.ctx = NoContext
      /\ Knows(p) /\ p.loop
      /\ UNCHANGED <<components, order, registry, running, told, dropped, left>>
  BY OfCall DEF StopNext, At, Holding, Locals
<1>2. ~IsActive(p.name)
  BY <1>1 DEF Knows, Cascades
<1>3. CASE p.todo = <<>>
  <2> DEFINE q == [p EXCEPT !.pc = "cascade"]
  <2>1. proc' = [proc EXCEPT ![t] = q]
    BY <1>3 DEF StopNext, Goto
  <2>2. /\ q \in CallType /\ q.pc = "cascade" /\ q.call = p.call /\ q.name = p.name
        /\ q.cur = p.cur /\ q.loop = p.loop /\ q.todo = p.todo
        /\ q.attempted = p.attempted /\ q.ctx = p.ctx
    BY <1>1, PlaceIs DEF Labels
  <2> HIDE DEF q
  <2>3. Locals(q) /\ Tidy(q) /\ Cascades(q)
    BY <1>1, <2>2 DEF Locals, Cascades, Tidy
  <2>4. Knows(q)
    BY <1>2, <2>2 DEF Knows, Cascades
  <2>5. Builds(q)
    BY <1>1, <2>2, AtRest DEF Builds, Holding
  <2>6. Tries(q)
    BY <1>1, <2>2 DEF Tries, Round, Attempt
  <2> QED
    BY <1>1, <2>1, <2>2, <2>3, <2>4, <2>5, <2>6, GoesOn DEF Fits, Silent
<1>4. CASE p.todo # <<>>
  <2> DEFINE q == [p EXCEPT !.pc = "stop", !.cur = Head(p.todo), !.todo = Tail(p.todo)]
  <2>1. proc' = [proc EXCEPT ![t] = q]
    <3>1. proc' = [proc EXCEPT ![t].pc = "stop", ![t].cur = Head(p.todo), ![t].todo = Tail(@)]
      BY <1>4 DEF StopNext
    <3> QED
      BY <1>1, <3>1 DEF HostInv, HTypeOK, CallType
  <2>2. p.todo \in Seq(Names) /\ Head(p.todo) \in Names /\ Tail(p.todo) \in Seq(Names)
    BY <1>1, <1>4, Fields
  <2>3. /\ q \in CallType /\ q.pc = "stop" /\ q.call = p.call /\ q.name = p.name
        /\ q.cur \in Names /\ q.loop = p.loop /\ q.attempted = p.attempted /\ q.ctx = p.ctx
    BY <1>1, <2>2 DEF CallType, Labels
  <2> HIDE DEF q
  <2>4. Locals(q) /\ Tidy(q) /\ Cascades(q)
    BY <1>1, <2>3 DEF Locals, Cascades, Tidy
  <2>5. Knows(q)
    BY <1>2, <2>3 DEF Knows, Cascades
  <2>6. Builds(q)
    BY <1>1, <2>3, AtRest DEF Builds, Holding
  <2>7. Tries(q)
    BY <1>1, <2>3 DEF Tries, Round, Attempt
  <2> QED
    BY <1>1, <2>1, <2>3, <2>4, <2>5, <2>6, <2>7, GoesOn DEF Fits, Silent
<1> QED
  BY <1>3, <1>4

\* A component that runs is pending from here, and the call holds its context.
LEMMA StopKeeps ==
    ASSUME HostInv, OneCaller, NEW t \in Tasks, Stop(t)
    PROVE  HostInv'
<1> DEFINE p == proc[t]
           n == proc[t].cur
<1>1. /\ p \in CallType /\ p.pc = "stop" /\ Locals(p) /\ Tries(p) /\ Knows(p)
      /\ p.ctx = NoContext /\ n \in Names /\ p.name \in Names /\ HTypeOK
      /\ UNCHANGED <<order, registry, running, told, dropped, left>>
  BY OfCall DEF Stop, At, Holding, Locals
<1>2. p.attempted = {} /\ p.pc \notin Silent
  BY <1>1 DEF Tries, Round, Attempt, Silent
<1>3. CASE ~IsActive(n)
  <2> DEFINE q == AfterStop(p)
  <2>1. ~IsActive(p.name)
    BY <1>1, <1>3 DEF Knows, Cascades, Locals
  <2>2. /\ q \in CallType /\ q.ctx = p.ctx /\ Cascades(q) /\ q.pc \notin Silent
        /\ Tidy(q) /\ Fits(q)
    BY <1>1, <2>1, Stopped
  <2> HIDE DEF q
  <2>3. proc' = [proc EXCEPT ![t] = q] /\ UNCHANGED components
    BY <1>3 DEF Stop, q
  <2> QED
    BY <1>1, <1>2, <2>2, <2>3, GoesOn
<1>4. CASE IsActive(n)
  <2> DEFINE ctx == components[n].context
             q == [p EXCEPT !.pc = "disposing", !.ctx = ctx]
  <2>1. /\ components' = [components EXCEPT ![n] = Pending]
        /\ proc' = [proc EXCEPT ![t].pc = "disposing", ![t].ctx = ctx]
    BY <1>4 DEF Stop
  <2>2. proc' = [proc EXCEPT ![t] = q]
    BY <1>1, <2>1 DEF HTypeOK
  <2>3. ctx \in ContextType /\ Complete(n)
    BY <1>1, <1>4 DEF HTypeOK, HostInv
  <2>4. ctx.id # Nobody /\ ctx.made = Effects(n)
    BY <2>3 DEF Complete
  <2>5. /\ q \in CallType /\ q.pc = "disposing" /\ q.call = p.call /\ q.name = p.name
        /\ q.cur = n /\ q.loop = p.loop /\ q.todo = p.todo
        /\ q.attempted = {} /\ q.ctx = ctx
    BY <1>1, <1>2, <2>3 DEF CallType, Labels
  <2> HIDE DEF q, ctx
  <2>6. proc'[t] = q /\ \A u \in Tasks : u = t /\ proc'[u] = q /\ proc[u] = p
    BY <1>1, <2>2, OneMoves
  <2>7. \A m \in Names :
           /\ m # n => components'[m] = components[m]
           /\ m = n => components'[m] = Pending
    BY <1>1, <2>1 DEF HTypeOK
  <2>8. \A m \in Names :
           /\ IsActive(m)' <=> (IsActive(m) /\ m # n)
           /\ IsPending(m)' <=> (IsPending(m) \/ m = n)
           /\ IsListed(m)' <=> IsListed(m)
    BY <1>4, <2>7 DEF IsActive, IsPending, IsListed, Pending
  <2>9. HTypeOK'
    <3>1. proc' \in [Tasks -> CallType]
      BY <1>1, <2>2, <2>5, Typings
    <3>2. \A u \in Tasks : /\ At(u, "idle")' => proc'[u] = Returned
                           /\ proc'[u].ctx # NoContext => proc'[u].pc \in Holding
      BY <2>5, <2>6 DEF Holding, At
    <3>3. Pending \in [state : {"none", "Pending", "Active"}, context : ContextType]
      BY AtRest DEF Pending
    <3>4. /\ components' \in [Names -> [state : {"none", "Pending", "Active"},
                                       context : ContextType]]
          /\ \A m \in Names : ~IsActive(m)' => components'[m].context = NoContext
      BY <1>1, <2>1, <2>7, <2>8, <3>3 DEF HTypeOK, Pending
    <3> QED
      BY <1>1, <3>1, <3>2, <3>4 DEF HTypeOK, CallType, Holding
  <2>10. \A u \in Tasks : Fits(proc[u])'
    <3>1. Locals(q)
      BY <1>1, <2>5 DEF Locals, Cascades
    <3>2. components'[n].state = "Pending" /\ components'[p.name].state # "Active"
      <4>1. p.name = n \/ ~IsActive(p.name)
        BY <1>1 DEF Knows, Cascades, Locals
      <4> QED
        BY <1>1, <2>7, <4>1 DEF IsActive, Pending
    <3>3. \A u \in Tasks : Locals(proc[u])'
      BY <2>6, <3>1 DEF Locals, Cascades
    <3>4. \A u \in Tasks : Knows(proc[u])'
      BY <2>5, <2>6, <3>2 DEF Knows, Cascades, IsPending, IsActive
    <3>5. \A u \in Tasks : Builds(proc[u])'
      BY <2>4, <2>5, <2>6, EffectsAre DEF Builds, Holding
    <3>6. \A u \in Tasks : Tries(proc[u])'
      BY <2>5, <2>6 DEF Tries, Round, Attempt
    <3> QED
      BY <3>3, <3>4, <3>5, <3>6 DEF Fits
  <2>11. \A m \in Names : IsActive(m)' => Complete(m)'
    BY <1>1, <2>7, <2>8 DEF HostInv, Complete, Stands
  <2>12. Apart'
    <3>1. \A m \in Names : m # n /\ IsActive(m) => ctx.id # components[m].context.id
      BY <1>1, <1>4 DEF HostInv, Apart, ctx
    <3>2. \A m \in Names : IsActive(m)' => m # n /\ IsActive(m) /\ components'[m] = components[m]
      BY <2>7, <2>8
    <3> QED
      BY <2>5, <2>6, <3>1, <3>2 DEF HostInv, Apart
  <2>13. Recorded'
    <3>1. ASSUME NEW id, NEW effect, OnList(id, effect) PROVE OnList(id, effect)'
      <4>1. PICK m \in Names : IsActive(m) /\ Lists(components[m].context, id, effect)
        BY <1>1, <2>6, <3>1, AtRest DEF OnList, Lists, ToSet
      <4>2. CASE m = n
        <5>1. Lists(q.ctx, id, effect)
          BY <2>5, <4>1, <4>2 DEF ctx
        <5> QED
          BY <2>6, <5>1 DEF OnList, Lists
      <4>3. CASE m # n
        BY <2>7, <2>8, <4>1, <4>3 DEF OnList, Lists
      <4> QED
        BY <4>2, <4>3
    <3> QED
      BY <1>1, <3>1 DEF HostInv, Recorded
  <2>14. Serving'
    BY <2>5, <2>6 DEF Serving, Cascades
  <2>15. Announced'
    BY <1>1, <1>2, <2>5, <2>6, <2>8 DEF HostInv, Announced, Silent
  <2>16. Ordered'
    BY <1>1, <2>8 DEF HostInv, Ordered
  <2> QED
    BY <1>1, <2>9, <2>10, <2>11, <2>12, <2>13, <2>14, <2>15, <2>16 DEF HostInv, Stray
<1> QED
  BY <1>3, <1>4

\* What a filter leaves of a list has all that was at the places it keeps.
LEMMA FilteredAre ==
    ASSUME NEW list \in Seq(Names), NEW places \in SUBSET DOMAIN list,
           NEW names \in Filtered(list, places)
    PROVE  /\ names \in Seq(Names)
           /\ \A i \in places : list[i] \in ToSet(names)
<1>1. IsFiniteSet(places) /\ Cardinality(places) \in Nat
  <2>1. IsFiniteSet(1..Len(list)) /\ DOMAIN list = 1..Len(list)
    BY FS_Interval
  <2> QED
    BY <2>1, FS_Subset, FS_CardinalityType
<1>2. PICK f \in Bijection(1..Cardinality(places), places) :
          names = [k \in DOMAIN f |-> list[f[k]]]
  BY DEF Filtered
<1>3. /\ f \in [1..Cardinality(places) -> places]
      /\ \A i \in places : \E k \in 1..Cardinality(places) : f[k] = i
  BY DEF Bijection, Injection, Surjection
<1>4. names \in [1..Cardinality(places) -> Names]
  BY <1>2, <1>3
<1>5. \A i \in places : \E k \in DOMAIN names : names[k] = list[i]
  BY <1>2, <1>3
<1> QED
  BY <1>1, <1>4, <1>5 DEF ToSet

\* A round is begun with all that waits, or there is nothing to begin.
LEMMA ReconcileKeeps ==
    ASSUME HostInv, OneCaller, NEW t \in Tasks, Reconcile(t)
    PROVE  HostInv'
<1> DEFINE p == proc[t]
<1>1. /\ p \in CallType /\ p.pc = "candidates" /\ Locals(p) /\ Tries(p) /\ p.ctx = NoContext
      /\ p.loop /\ HTypeOK /\ Ordered
      /\ UNCHANGED <<components, order, registry, running, told, dropped, left>>
  BY OfCall DEF Reconcile, At, Holding, Locals, HostInv
<1>2. AllServed /\ p.pc \notin Silent
  BY <1>1, ServedOr DEF Cascades, HostInv, Silent
<1>3. CASE Candidates(t) = {}
  BY <1>1, <1>2, <1>3, Returns DEF Reconcile, Holding
<1>4. CASE Candidates(t) # {}
  <2>1. PICK names \in Filtered(order, Candidates(t)) :
           proc' = [proc EXCEPT ![t].pc = "candidate", ![t].todo = names]
    BY <1>4 DEF Reconcile
  <2> DEFINE q == [p EXCEPT !.pc = "candidate", !.todo = names]
  <2>2. proc' = [proc EXCEPT ![t] = q]
    BY <1>1, <2>1 DEF HTypeOK
  <2>3. /\ names \in Seq(Names)
        /\ \A i \in Candidates(t) : order[i] \in ToSet(names)
    BY <1>1, FilteredAre DEF Candidates, HTypeOK
  <2>4. /\ q \in CallType /\ q.pc = "candidate" /\ q.call = p.call /\ q.name = p.name
        /\ q.cur = p.cur /\ q.loop = p.loop /\ q.todo = names
        /\ q.attempted = p.attempted /\ q.ctx = p.ctx
    BY <1>1, <2>3 DEF CallType, Labels
  <2>5. \A n \in Names : IsPending(n) => n \in p.attempted \cup ToSet(names)
    BY <1>1, <2>3 DEF Ordered, IsListed, IsPending, Candidates, ToSet
  <2> HIDE DEF q
  <2>6. Locals(q) /\ Tidy(q)
    BY <1>1, <2>4 DEF Locals, Cascades, Tidy
  <2>7. Knows(q)
    BY <2>4 DEF Knows, Cascades
  <2>8. Builds(q)
    BY <1>1, <2>4, AtRest DEF Builds, Holding
  <2>9. Tries(q)
    BY <1>1, <2>4, <2>5 DEF Tries, Round, Attempt
  <2> QED
    BY <1>1, <1>2, <2>2, <2>4, <2>6, <2>7, <2>8, <2>9, GoesOn DEF Fits
<1> QED
  BY <1>3, <1>4

\* The next of the round, or its end.
LEMMA StartNextKeeps ==
    ASSUME HostInv, OneCaller, NEW t \in Tasks, StartNext(t)
    PROVE  HostInv'
<1> DEFINE p == proc[t]
<1>1. /\ p \in CallType /\ p.pc = "candidate" /\ Locals(p) /\ Tries(p) /\ p.ctx = NoContext
      /\ p.loop /\ HTypeOK
      /\ UNCHANGED <<components, order, registry, running, told, dropped, left>>
  BY OfCall DEF StartNext, At, Holding, Locals
<1>2. AllServed /\ p.pc \notin Silent
  BY <1>1, ServedOr DEF Cascades, HostInv, Silent
<1>3. CASE p.todo = <<>>
  BY <1>1, <1>2, <1>3, Returns DEF StartNext, Holding
<1>4. CASE p.todo # <<>>
  <2> DEFINE n == Head(p.todo)
             q == [p EXCEPT !.pc = "lookup", !.cur = n, !.todo = Tail(p.todo),
                            !.attempted = p.attempted \cup {n}]
  <2>1. proc' = [proc EXCEPT ![t] = q]
    <3>1. proc' = [proc EXCEPT ![t].pc = "lookup", ![t].cur = n, ![t].todo = Tail(@),
                               ![t].attempted = @ \cup {n}]
      BY <1>4 DEF StartNext
    <3> QED
      BY <1>1, <3>1 DEF HTypeOK, CallType
  <2>2. /\ p.todo \in Seq(Names) /\ n \in Names /\ Tail(p.todo) \in Seq(Names)
        /\ p.attempted \cup {n} \in SUBSET Names
    BY <1>1, <1>4, Fields
  <2>3. \A m \in ToSet(p.todo) : m = n \/ m \in ToSet(Tail(p.todo))
    <3>1. ASSUME NEW i \in DOMAIN p.todo PROVE p.todo[i] = n \/ p.todo[i] \in ToSet(Tail(p.todo))
      <4>1. CASE i = 1
        BY <2>2, <4>1
      <4>2. CASE i # 1
        <5>1. i - 1 \in DOMAIN Tail(p.todo) /\ Tail(p.todo)[i - 1] = p.todo[i]
          <6>1. i \in 1..Len(p.todo) /\ Len(p.todo) \in Nat
            BY <2>2
          <6>2. DOMAIN Tail(p.todo) = 1..(Len(p.todo) - 1)
            BY <1>4, <2>2
          <6>3. i - 1 \in DOMAIN Tail(p.todo)
            BY <4>2, <6>1, <6>2
          <6> QED
            BY <1>4, <2>2, <6>3
        <5> QED
          BY <5>1 DEF ToSet
      <4> QED
        BY <4>1, <4>2
    <3> QED
      BY <3>1 DEF ToSet
  <2>4. /\ q \in CallType /\ q.pc = "lookup" /\ q.call = p.call /\ q.name = p.name
        /\ q.cur = n /\ q.loop = p.loop /\ q.todo = Tail(p.todo)
        /\ q.attempted = p.attempted \cup {n} /\ q.ctx = p.ctx
    BY <1>1, <2>2 DEF CallType, Labels
  <2> HIDE DEF q, n
  <2>5. Locals(q) /\ Tidy(q)
    BY <1>1, <2>2, <2>4 DEF Locals, Cascades, Tidy
  <2>6. Knows(q)
    BY <2>4 DEF Knows, Cascades
  <2>7. Builds(q)
    BY <1>1, <2>4, AtRest DEF Builds, Holding
  <2>8. Tries(q)
    BY <1>1, <2>3, <2>4 DEF Tries, Round, Attempt
  <2> QED
    BY <1>1, <1>2, <2>1, <2>4, <2>5, <2>6, <2>7, <2>8, GoesOn DEF Fits
<1> QED
  BY <1>3, <1>4

\* What is left after one more dropped call.
LEMMA OneMore ==
    ASSUME NEW l \in LeftType, l.drops < MaxDrops,
           NEW cs \in SUBSET ContextIds, NEW ss \in SUBSET Slots, NEW ns \in SUBSET Names
    PROVE  [drops |-> l.drops + 1, contexts |-> l.contexts \cup cs,
            services |-> l.services \cup ss, untold |-> l.untold \cup ns] \in LeftType
<1>1. /\ l.drops \in 0..MaxDrops /\ l.contexts \in SUBSET ContextIds
      /\ l.services \in SUBSET Slots /\ l.untold \in SUBSET Names
  BY DEF LeftType
<1>2. l.drops + 1 \in 0..MaxDrops
  BY <1>1, ComponentsAssumption
<1> QED
  BY <1>1, <1>2 DEF LeftType

\* A call that is dropped while a component starts leaves the context behind.
LEMMA StartDropped ==
    ASSUME HostInv, OneCaller, NEW t \in Tasks, Cancel(t), At(t, "starting")
    PROVE  HostInv'
<1> DEFINE p == proc[t]
<1>1. /\ p \in CallType /\ Builds(p) /\ HTypeOK /\ p.pc \notin Silent /\ ~Cascades(p)
      /\ proc' = [proc EXCEPT ![t] = Returned] /\ left \in LeftType /\ left.drops < MaxDrops
      /\ left' = [left EXCEPT !.drops = @ + 1, !.contexts = @ \cup {p.ctx.id},
                             !.services = @ \cup (ToSet(p.ctx.made) \cap Slots)]
      /\ UNCHANGED <<components, order, registry, running, told, dropped>>
  BY OfCall DEF Cancel, Return, At, Silent, Cascades, HostInv, HTypeOK, LeftType
<1>2. p.ctx.id \in ContextIds /\ p.ctx.id # Nobody
  BY <1>1, Fields DEF Builds, Holding, At
<1>3. /\ left' \in LeftType /\ left'.contexts = left.contexts \cup {p.ctx.id}
      /\ left'.services = left.services \cup (ToSet(p.ctx.made) \cap Slots)
      /\ left'.untold = left.untold
  <2> DEFINE made == ToSet(p.ctx.made) \cap Slots
  <2>1. left' = [drops |-> left.drops + 1, contexts |-> left.contexts \cup {p.ctx.id},
                 services |-> left.services \cup made, untold |-> left.untold \cup {}]
    BY <1>1 DEF LeftType
  <2>2. made \in SUBSET Slots
    OBVIOUS
  <2> HIDE DEF made
  <2>3. left' \in LeftType
    <3>1. PICK ids \in SUBSET ContextIds : ids = {p.ctx.id}
      BY <1>2
    <3>2. [drops |-> left.drops + 1, contexts |-> left.contexts \cup ids,
           services |-> left.services \cup made, untold |-> left.untold \cup {}] \in LeftType
      BY <1>1, <2>2, OneMore
    <3> QED
      BY <2>1, <3>1, <3>2
  <2> QED
    BY <2>1, <2>3 DEF made
<1>4. \A u \in Tasks : u = t /\ proc'[u] = Returned /\ proc[u] = p
  BY <1>1, OneMoves
<1>5. HTypeOK'
  BY <1>1, <1>3, <1>4, AtRest, Typings DEF HTypeOK, CallType, LeftType, IsActive, At
<1>6. \A u \in Tasks : Fits(proc[u])'
  BY <1>4, AtRest DEF Fits, Locals, Knows, Builds, Tries, Cascades, Round, Attempt, Holding,
        Returned
<1>7. /\ \A n \in Names : IsActive(n)' => Complete(n)'
      /\ Ordered' /\ Serving'
  <2>1. AllServed
    BY <1>1, ServedOr DEF HostInv
  <2>2. Serving'
    BY <1>1, <1>3, <2>1 DEF Serving, AllServed, Served, IsActive
  <2>3. Ordered' /\ \A n \in Names : IsActive(n)' => Complete(n)'
    BY <1>1 DEF HostInv, Ordered, IsListed, IsActive, Complete, Stands
  <2> QED
    BY <2>2, <2>3
<1>8. Apart'
  BY <1>1, <1>4, AtRest DEF HostInv, Apart, IsActive, Complete
<1>9. \A id, effect : OnList(id, effect) =>
         OnList(id, effect)' \/ (id = p.ctx.id /\ effect \in ToSet(p.ctx.made))
  BY <1>1, <1>4 DEF OnList, Lists, IsActive
<1>10. Recorded'
  BY <1>1, <1>3, <1>9 DEF HostInv, Recorded
<1>11. Stray'
  <2>1. ASSUME NEW s \in Slots, registry[s] = p.ctx.id PROVE s \in ToSet(p.ctx.made)
    <3>1. OnList(p.ctx.id, s)
      BY <1>1, <1>2, <2>1 DEF HostInv, Recorded, Builds, At
    <3>2. ~\E n \in Names : IsActive(n) /\ Lists(components[n].context, p.ctx.id, s)
      BY DEF HostInv, Apart, Lists
    <3> QED
      BY <1>4, <3>1, <3>2 DEF OnList, Lists
  <2> QED
    BY <1>1, <1>3, <2>1 DEF HostInv, Stray
<1>12. Announced'
  BY <1>1, <1>3, <1>4 DEF HostInv, Announced, IsActive
<1> QED
  BY <1>5, <1>6, <1>7, <1>8, <1>10, <1>11, <1>12 DEF HostInv

\* A call that is dropped after a stop leaves what it would have stopped next.
LEMMA StopDropped ==
    ASSUME HostInv, OneCaller, NEW t \in Tasks, Cancel(t), At(t, "unloaded")
    PROVE  HostInv'
<1> DEFINE p == proc[t]
           lacked == UNION {MissingFor(n) : n \in Casualties}
<1>1. /\ p \in CallType /\ HTypeOK /\ p.ctx = NoContext /\ p.cur \in Names
      /\ proc' = [proc EXCEPT ![t] = Returned] /\ left \in LeftType /\ left.drops < MaxDrops
      /\ left' = [left EXCEPT !.drops = @ + 1, !.services = @ \cup lacked,
                             !.untold = @ \cup {p.cur}]
      /\ UNCHANGED <<components, order, registry, running, told, dropped>>
  BY OfCall DEF Cancel, Return, At, Holding, Locals, HostInv, HTypeOK, LeftType
<1>2. \A n \in Names : Requires[n] \subseteq Slots
  BY ComponentsAssumption
<1>3. /\ left' \in LeftType /\ left'.contexts = left.contexts
      /\ left'.services = left.services \cup lacked
      /\ left'.untold = left.untold \cup {p.cur}
  <2>1. lacked \subseteq Slots
    BY <1>2 DEF MissingFor, Casualties
  <2> HIDE DEF lacked
  <2>2. left' = [drops |-> left.drops + 1, contexts |-> left.contexts \cup {},
                 services |-> left.services \cup lacked,
                 untold |-> left.untold \cup {p.cur}]
    BY <1>1 DEF LeftType
  <2>3. left' \in LeftType
    <3>1. PICK news \in SUBSET Names : news = {p.cur}
      BY <1>1
    <3>2. [drops |-> left.drops + 1, contexts |-> left.contexts \cup {},
           services |-> left.services \cup lacked,
           untold |-> left.untold \cup news] \in LeftType
      BY <1>1, <2>1, OneMore
    <3> QED
      BY <2>2, <3>1, <3>2
  <2> QED
    BY <2>2, <2>3
<1>4. \A u \in Tasks : u = t /\ proc'[u] = Returned /\ proc[u] = p
  BY <1>1, OneMoves
<1>5. Stray'
  BY <1>1, <1>3 DEF HostInv, Stray
<1>6. AllServed'
  <2>1. ASSUME NEW n \in Names, IsActive(n), NEW s \in Requires[n]
        PROVE  \/ s \in left'.services
               \/ \E m \in Names : IsActive(m) /\ s \in ToSet(Registers[m])
    <3>1. CASE registry[s] = Nobody
      BY <1>3, <2>1, <3>1 DEF MissingFor, Casualties
    <3>2. CASE registry[s] # Nobody
      <4>1. \A u \in Tasks : proc[u].ctx.made = <<>>
        BY <1>1, <1>4, AtRest
      <4> QED
        BY <1>2, <1>3, <2>1, <3>2, <4>1, Provided DEF HostInv, Stray
    <3> QED
      BY <3>1, <3>2
  <2> QED
    BY <1>1, <2>1 DEF AllServed, Served, IsActive
<1>7. Announced'
  BY <1>1, <1>3, <1>4 DEF HostInv, Announced, IsActive
<1> QED
  BY <1>1, <1>3, <1>5, <1>6, <1>7, AtRest, Settles

\* A call that is dropped before the bus has heard leaves it so.
LEMMA NewsDropped ==
    ASSUME HostInv, OneCaller, NEW t \in Tasks, Cancel(t), At(t, "loaded") \/ At(t, "pending")
    PROVE  HostInv'
<1> DEFINE p == proc[t]
<1>1. /\ p \in CallType /\ HTypeOK /\ p.ctx = NoContext /\ p.cur \in Names /\ ~Cascades(p)
      /\ proc' = [proc EXCEPT ![t] = Returned] /\ left \in LeftType /\ left.drops < MaxDrops
      /\ \/ p.pc = "loaded" /\ left' = [left EXCEPT !.drops = @ + 1, !.untold = @ \cup {p.cur}]
         \/ p.pc = "pending" /\ left' = [left EXCEPT !.drops = @ + 1]
      /\ UNCHANGED <<components, order, registry, running, told, dropped>>
  BY OfCall DEF Cancel, Return, At, Holding, Locals, HostInv, HTypeOK, LeftType, Cascades
<1>2. /\ left' \in LeftType /\ left'.contexts = left.contexts
      /\ left'.services = left.services /\ left.untold \subseteq left'.untold
      /\ p.cur \in left'.untold \/ p.pc = "pending"
  <2>1. PICK news \in SUBSET Names :
          /\ left' = [drops |-> left.drops + 1, contexts |-> left.contexts \cup {},
                      services |-> left.services \cup {},
                      untold |-> left.untold \cup news]
          /\ p.cur \in news \/ p.pc = "pending"
    <3>1. CASE p.pc = "loaded"
      BY <1>1, <3>1 DEF LeftType
    <3>2. CASE p.pc = "pending"
      BY <1>1, <3>2 DEF LeftType
    <3> QED
      BY <1>1, <3>1, <3>2
  <2>2. left' \in LeftType
    BY <1>1, <2>1, OneMore
  <2> QED
    BY <2>1, <2>2
<1>3. \A u \in Tasks : u = t /\ proc'[u] = Returned /\ proc[u] = p
  BY <1>1, OneMoves
<1>4. Stray' /\ AllServed'
  <2>1. Stray /\ AllServed
    BY <1>1, ServedOr DEF HostInv
  <2> QED
    BY <1>1, <1>2, <2>1 DEF Stray, AllServed, Served, IsActive
<1>5. Announced'
  BY <1>1, <1>2, <1>3 DEF HostInv, Announced, IsActive, Silent
<1> QED
  BY <1>1, <1>2, <1>4, <1>5, AtRest, Settles

\* A call is dropped.
LEMMA CancelKeeps ==
    ASSUME HostInv, OneCaller, NEW t \in Tasks, Cancel(t)
    PROVE  HostInv'
BY StartDropped, StopDropped, NewsDropped DEF Cancel, At

-----------------------------------------------------------------------------
(* What comes and goes.                                                    *)

\* A component comes.
LEMMA InsertKeeps ==
    ASSUME HostInv, OneCaller, NEW t \in Tasks, Insert(t)
    PROVE  HostInv'
<1>0. PICK p \in CallType : p = proc[t]
  BY OfCall
<1> DEFINE n == p.name
           q == [p EXCEPT !.pc = "lookup"]
<1>1. /\ p \in CallType /\ p.pc = "insert" /\ Locals(p) /\ Tries(p) /\ p.ctx = NoContext
      /\ n \in Names /\ ~IsListed(n) /\ HTypeOK /\ Ordered
      /\ components' = [components EXCEPT ![n] = Pending] /\ order' = Append(order, n)
      /\ UNCHANGED <<registry, running, told, dropped, left>>
  BY <1>0, OfCall DEF Insert, At, Holding, Locals, Knows, HostInv
<1>2. AllServed /\ p.pc \notin Silent /\ p.attempted = {} /\ ~p.loop
  BY <1>0, <1>1, ServedOr DEF Cascades, HostInv, Silent, Tries, Round, Attempt, Locals
<1>3. proc' = [proc EXCEPT ![t] = q]
  BY <1>0 DEF Insert, Goto
<1>4. /\ q \in CallType /\ q.pc = "lookup" /\ q.call = p.call /\ q.name = n
      /\ q.cur = p.cur /\ q.loop = p.loop /\ q.todo = p.todo
      /\ q.attempted = p.attempted /\ q.ctx = p.ctx
  BY <1>1, PlaceIs DEF Labels
<1> HIDE DEF q, n
<1>5. \A m \in Names : m # n => components'[m] = components[m]
  BY <1>1 DEF HTypeOK
<1>6. components'[n] = Pending /\ ~IsActive(n)
  BY <1>1 DEF HTypeOK, IsActive, IsListed
<1>7. \A m \in Names : /\ IsActive(m)' <=> IsActive(m)
                       /\ IsActive(m) => components'[m] = components[m]
                       /\ ~IsActive(m) => components'[m].context = NoContext
                       /\ IsListed(m)' => IsListed(m) \/ m = n
  BY <1>1, <1>5, <1>6 DEF HTypeOK, IsActive, IsListed, Pending
<1>8. components' \in [Names -> [state : {"none", "Pending", "Active"},
                                 context : ContextType]]
  <2>1. Pending \in [state : {"none", "Pending", "Active"}, context : ContextType]
    BY AtRest DEF Pending
  <2> QED
    BY <1>1, <2>1 DEF HTypeOK
<1>9. order \in Seq(Names) /\ order' \in Seq(Names)
  BY <1>1 DEF HTypeOK
<1>10. Ordered'
  <2>1. \A m \in ToSet(order) \cup {n} : m \in ToSet(order')
    <3>1. /\ \A i \in DOMAIN order : i \in DOMAIN order' /\ order'[i] = order[i]
          /\ Len(order) + 1 \in DOMAIN order' /\ order'[Len(order) + 1] = n
      BY <1>1, <1>9
    <3> QED
      BY <3>1 DEF ToSet
  <2> QED
    BY <1>1, <1>7, <2>1 DEF Ordered
<1>11. Announced'
  <2>1. \A u \in Tasks : proc[u].pc \notin Silent
    BY <1>0, <1>2 DEF OneCaller
  <2> QED
    BY <1>1, <1>7, <2>1 DEF HostInv, Announced
<1>12. Fits(q)'
  <2>1. Locals(q)'
    BY <1>1, <1>4 DEF Locals, Cascades
  <2>2. Knows(q)'
    BY <1>4 DEF Knows, Cascades
  <2>3. Builds(q)'
    BY <1>1, <1>4, AtRest DEF Builds, Holding
  <2>4. Tries(q)'
    BY <1>2, <1>4 DEF Tries, Round, Attempt
  <2> QED
    BY <2>1, <2>2, <2>3, <2>4 DEF Fits
<1>13. Tidy(q) /\ q.ctx = proc[t].ctx
  BY <1>0, <1>1, <1>4 DEF Tidy
<1>14. told' \in [Names -> {"none", "pending", "loaded", "unloaded"}]
  BY <1>1 DEF HTypeOK
<1>15. left' \in LeftType /\ left'.contexts = left.contexts /\ Stray' /\ AllServed'
  BY <1>1, <1>2, <1>7, LeftAlone
<1> QED
  BY <1>1, <1>2, <1>3, <1>4, <1>7, <1>8, <1>9, <1>10, <1>11, <1>12, <1>13, <1>14, <1>15, Dormantly

\* A component that does not run goes.
LEMMA DeleteKeeps ==
    ASSUME HostInv, OneCaller, NEW t \in Tasks, Delete(t)
    PROVE  HostInv'
<1>0. PICK p \in CallType : p = proc[t]
  BY OfCall
<1> DEFINE n == p.name
           q == [p EXCEPT !.pc = "forget"]
<1>1. /\ p \in CallType /\ p.pc = "delete" /\ Locals(p) /\ Tries(p) /\ p.ctx = NoContext
      /\ n \in Names /\ ~IsActive(n) /\ HTypeOK /\ Ordered
      /\ components' = [components EXCEPT ![n] = Unlisted]
      /\ UNCHANGED <<order, registry, running, told, dropped, left>>
  BY <1>0, OfCall DEF Delete, At, Holding, Locals, Knows, HostInv
<1>2. AllServed /\ p.pc \notin Silent /\ p.attempted = {}
  BY <1>0, <1>1, ServedOr DEF Cascades, HostInv, Silent, Tries, Round, Attempt
<1>3. proc' = [proc EXCEPT ![t] = q]
  BY <1>0 DEF Delete, Goto
<1>4. /\ q \in CallType /\ q.pc = "forget" /\ q.call = p.call /\ q.name = n
      /\ q.cur = p.cur /\ q.loop = p.loop /\ q.todo = p.todo
      /\ q.attempted = p.attempted /\ q.ctx = p.ctx
  BY <1>1, PlaceIs DEF Labels
<1> HIDE DEF q, n
<1>5. \A m \in Names : m # n => components'[m] = components[m]
  BY <1>1 DEF HTypeOK
<1>6. components'[n] = Unlisted
  BY <1>1 DEF HTypeOK
<1>7. \A m \in Names : /\ IsActive(m)' <=> IsActive(m)
                       /\ IsActive(m) => components'[m] = components[m]
                       /\ ~IsActive(m) => components'[m].context = NoContext
                       /\ IsListed(m)' => IsListed(m)
  BY <1>1, <1>5, <1>6 DEF HTypeOK, IsActive, IsListed, Unlisted
<1>8. components' \in [Names -> [state : {"none", "Pending", "Active"},
                                 context : ContextType]]
  <2>1. Unlisted \in [state : {"none", "Pending", "Active"}, context : ContextType]
    BY AtRest DEF Unlisted
  <2> QED
    BY <1>1, <2>1 DEF HTypeOK
<1>9. order' \in Seq(Names) /\ Ordered'
  BY <1>1, <1>7 DEF HTypeOK, Ordered
<1>10. Announced'
  <2>1. \A u \in Tasks : proc[u].pc \notin Silent
    BY <1>0, <1>2 DEF OneCaller
  <2> QED
    BY <1>1, <1>7, <2>1 DEF HostInv, Announced
<1>11. Fits(q)'
  <2>1. Locals(q)'
    BY <1>1, <1>4 DEF Locals, Cascades
  <2>2. Knows(q)'
    BY <1>4, <1>6 DEF Knows, Cascades, IsListed, Unlisted
  <2>3. Builds(q)'
    BY <1>1, <1>4, AtRest DEF Builds, Holding
  <2>4. Tries(q)'
    BY <1>2, <1>4 DEF Tries, Round, Attempt
  <2> QED
    BY <2>1, <2>2, <2>3, <2>4 DEF Fits
<1>12. Tidy(q) /\ q.ctx = proc[t].ctx
  BY <1>0, <1>1, <1>4 DEF Tidy
<1>13. told' \in [Names -> {"none", "pending", "loaded", "unloaded"}]
  BY <1>1 DEF HTypeOK
<1>14. left' \in LeftType /\ left'.contexts = left.contexts /\ Stray' /\ AllServed'
  BY <1>1, <1>2, <1>7, LeftAlone
<1> QED
  BY <1>1, <1>2, <1>3, <1>4, <1>7, <1>8, <1>9, <1>10, <1>11, <1>12, <1>13, <1>14, Dormantly

\* Its place in the order goes, and no other's.
LEMMA ForgetKeeps ==
    ASSUME HostInv, OneCaller, NEW t \in Tasks, Forget(t)
    PROVE  HostInv'
<1> DEFINE p == proc[t]
           n == proc[t].name
<1>1. /\ p \in CallType /\ p.pc = "forget" /\ p.ctx = NoContext
      /\ n \in Names /\ ~IsListed(n) /\ HTypeOK /\ Ordered
      /\ UNCHANGED <<components, registry, running, told, dropped, left>>
  BY OfCall DEF Forget, At, Holding, Locals, Knows, HostInv
<1>2. AllServed /\ p.pc \notin Silent
  BY <1>1, ServedOr DEF Cascades, HostInv, Silent
<1>3. proc' = [proc EXCEPT ![t] = Returned]
  BY DEF Forget, Return
<1> DEFINE places == {i \in DOMAIN order : order[i] # n}
<1>4. /\ order' \in Seq(Names)
      /\ \A i \in places : order[i] \in ToSet(order')
  BY <1>1, FilteredAre DEF Forget, HTypeOK
<1>5. Ordered'
  <2>1. \A m \in Names : IsListed(m) => m \in ToSet(order')
    BY <1>1, <1>4 DEF Ordered, ToSet
  <2> QED
    BY <1>1, <2>1 DEF Ordered, IsListed
<1>6. Announced'
  BY <1>1, <1>2, <1>3, StillAnnounced DEF HostInv
<1>7. Fits(Returned)'
  BY <1>1, AtRest DEF Fits, Locals, Knows, Builds, Tries, Cascades, Round, Attempt, Holding,
        Returned
<1>8. \A m \in Names : /\ IsActive(m)' <=> IsActive(m)
                       /\ IsActive(m) => components'[m] = components[m]
                       /\ ~IsActive(m) => components'[m].context = NoContext
  BY <1>1 DEF IsActive, HTypeOK
<1>9. /\ components' \in [Names -> [state : {"none", "Pending", "Active"},
                                    context : ContextType]]
      /\ told' \in [Names -> {"none", "pending", "loaded", "unloaded"}]
  BY <1>1 DEF HTypeOK
<1>10. left' \in LeftType /\ left'.contexts = left.contexts /\ Stray' /\ AllServed'
  BY <1>1, <1>2, <1>8, LeftAlone
<1> HIDE DEF n, places
<1> QED
  BY <1>1, <1>2, <1>3, <1>4, <1>5, <1>6, <1>7, <1>8, <1>9, <1>10, AtRest, Dormantly

\* A component runs from here, with the context the call held.
LEMMA ActivateKeeps ==
    ASSUME HostInv, OneCaller, NEW t \in Tasks, Activate(t)
    PROVE  HostInv'
<1>0. PICK p \in CallType : p = proc[t]
  BY OfCall
<1> DEFINE n == p.cur
           ctx == p.ctx
           q == [p EXCEPT !.pc = "loaded", !.ctx = NoContext]
<1>1. /\ p \in CallType /\ p.pc = "activate" /\ Locals(p) /\ Tries(p) /\ Knows(p) /\ Builds(p)
      /\ n \in Names /\ HTypeOK
      /\ UNCHANGED <<order, registry, running, told, dropped, left>>
  BY <1>0, OfCall DEF Activate, At, Locals
<1>2. AllServed /\ p.pc \notin Silent /\ IsPending(n) /\ Served(n)
  BY <1>0, <1>1, ServedOr DEF Cascades, HostInv, Silent, Knows
<1>3. components' = [components EXCEPT ![n] = Active(ctx)]
  BY <1>0, <1>2 DEF Activate, IsListed, IsPending
<1>4. proc' = [proc EXCEPT ![t] = q]
  BY <1>0, <1>1 DEF Activate, HTypeOK
<1>5. /\ q \in CallType /\ q.pc = "loaded" /\ q.call = p.call /\ q.name = p.name
      /\ q.cur = n /\ q.loop = p.loop /\ q.todo = p.todo
      /\ q.attempted = p.attempted /\ q.ctx = NoContext
  BY <1>1, AtRest DEF CallType, Labels, Awaits
<1>6. ctx.id # Nobody /\ ctx \in ContextType /\ ctx.made \in Seq(Slots \cup {Own})
  BY <1>1, Fields DEF Builds, Holding
<1>7. /\ ctx.made = Effects(n)
      /\ \A i \in DOMAIN Effects(n) : Stands(Effects(n)[i], ctx.id)
  <2>1. /\ Len(ctx.made) = Len(Effects(n))
        /\ \A i \in DOMAIN ctx.made :
              ctx.made[i] = Effects(n)[i] /\ Stands(ctx.made[i], ctx.id)
    BY <1>1 DEF Builds
  <2>2. ctx.made = Effects(n)
    BY <1>1, <1>6, <2>1, EffectsAre
  <2> QED
    BY <2>1, <2>2
<1>8. proc'[t] = q /\ \A u \in Tasks : u = t /\ proc'[u] = q /\ proc[u] = p
  BY <1>0, <1>1, <1>4, OneMoves
<1>9. \A m \in Names : /\ m # n => components'[m] = components[m]
                       /\ m = n => components'[m] = Active(ctx)
  BY <1>1, <1>3 DEF HTypeOK
<1> HIDE DEF q, ctx, n
<1>10. \A m \in Names : /\ IsActive(m)' <=> (IsActive(m) \/ m = n)
                        /\ IsListed(m)' <=> IsListed(m)
                        /\ Served(m) => Served(m)'
  <2>1. \A m \in Names : /\ IsActive(m)' <=> (IsActive(m) \/ m = n)
                         /\ IsListed(m)' <=> IsListed(m)
    BY <1>2, <1>9 DEF IsActive, IsListed, IsPending, Active
  <2> QED
    BY <1>1, <2>1 DEF Served
<1>11. HTypeOK'
  <2>1. proc' \in [Tasks -> CallType]
    BY <1>1, <1>4, <1>5, Typings
  <2>2. \A u \in Tasks : /\ At(u, "idle")' => proc'[u] = Returned
                         /\ proc'[u].ctx # NoContext => proc'[u].pc \in Holding
    BY <1>5, <1>8 DEF At
  <2>3. Active(ctx) \in [state : {"none", "Pending", "Active"}, context : ContextType]
    BY <1>6 DEF Active
  <2>4. /\ components' \in [Names -> [state : {"none", "Pending", "Active"},
                                      context : ContextType]]
        /\ \A m \in Names : ~IsActive(m)' => components'[m].context = NoContext
    BY <1>1, <1>3, <1>9, <1>10, <2>3 DEF HTypeOK
  <2> QED
    BY <1>1, <2>1, <2>2, <2>4 DEF HTypeOK, CallType, Holding
<1>12. \A u \in Tasks : Fits(proc[u])'
  <2>1. Locals(q)
    BY <1>1, <1>5 DEF Locals, Cascades
  <2>2. \A u \in Tasks : Locals(proc[u])'
    BY <1>8, <2>1 DEF Locals, Cascades
  <2>3. \A u \in Tasks : Knows(proc[u])'
    BY <1>1, <1>5, <1>8, <1>10 DEF Knows, Cascades
  <2>4. \A u \in Tasks : Builds(proc[u])'
    BY <1>5, <1>8, AtRest DEF Builds, Holding
  <2>5. \A u \in Tasks : Tries(proc[u])'
    BY <1>1, <1>5, <1>8 DEF Tries, Round, Attempt
  <2> QED
    BY <2>2, <2>3, <2>4, <2>5 DEF Fits
<1>13. \A m \in Names : IsActive(m)' => Complete(m)'
  <2>1. ASSUME NEW m \in Names, m # n, IsActive(m)' PROVE Complete(m)'
    BY <1>1, <1>9, <1>10, <2>1 DEF HostInv, Complete, Stands
  <2>2. components'[n].context = ctx
    BY <1>1, <1>9 DEF Active
  <2>3. \A i \in DOMAIN Effects(n) : Stands(Effects(n)[i], ctx.id)'
    BY <1>1, <1>7 DEF Stands
  <2>4. ASSUME NEW m \in Names, m = n PROVE Complete(m)'
    BY <1>1, <1>6, <1>7, <2>2, <2>4 DEF Complete, Stands
  <2> QED
    BY <2>1, <2>4
<1>14. Apart'
  <2>1. \A m \in Names : IsActive(m) => ctx.id # components[m].context.id
    BY <1>0, <1>1 DEF HostInv, Apart, ctx
  <2>2. \A m \in Names : m = n => components'[m].context = ctx
    BY <1>1, <1>9 DEF Active
  <2>3. ASSUME NEW m \in Names, NEW k \in Names, IsActive(m)', IsActive(k)', m # k
        PROVE  components'[m].context.id # components'[k].context.id
    BY <1>9, <1>10, <2>1, <2>2, <2>3 DEF HostInv, Apart
  <2>4. \A u \in Tasks, m \in Names : IsActive(m)' => proc'[u].ctx.id # components'[m].context.id
    BY <1>5, <1>8, <1>13, AtRest DEF Complete
  <2> QED
    BY <2>3, <2>4 DEF Apart
<1>15. Recorded'
  <2>1. ASSUME NEW id, NEW effect, OnList(id, effect) PROVE OnList(id, effect)'
    <3>1. CASE \E m \in Names : IsActive(m) /\ Lists(components[m].context, id, effect)
      <4>1. PICK m \in Names : IsActive(m) /\ Lists(components[m].context, id, effect)
        BY <3>1
      <4>2. m # n
        BY <1>2, <4>1 DEF IsActive, IsPending
      <4> QED
        BY <1>9, <1>10, <4>1, <4>2 DEF OnList, Lists
    <3>2. CASE \E u \in Tasks : Lists(proc[u].ctx, id, effect)
      <4>1. Lists(ctx, id, effect)
        BY <1>8, <3>2 DEF ctx
      <4>2. components'[n].context = ctx /\ IsActive(n)'
        <5>1. components'[n].context = ctx
          BY <1>1, <1>9 DEF Active
        <5>2. \A m \in Names : m = n => IsActive(m)'
          BY <1>10
        <5> QED
          BY <1>1, <1>9, <5>1 DEF IsActive, Active
      <4> QED
        BY <1>1, <4>1, <4>2 DEF OnList, Lists
    <3> QED
      BY <2>1, <3>1, <3>2 DEF OnList
  <2> QED
    BY <1>1, <2>1 DEF HostInv, Recorded
<1>16. Serving'
  BY <1>2, <1>10 DEF Serving, AllServed
<1>17. Announced'
  <2>1. \A u \in Tasks : proc[u].pc \notin Silent /\ proc'[u].cur = n /\ proc'[u].pc = "loaded"
    BY <1>2, <1>5, <1>8
  <2> QED
    BY <1>1, <1>10, <2>1 DEF HostInv, Announced, Silent
<1>18. Ordered' /\ Stray'
  BY <1>1, <1>10 DEF HostInv, Ordered, Stray
<1> QED
  BY <1>11, <1>12, <1>13, <1>14, <1>15, <1>16, <1>17, <1>18 DEF HostInv

\* Only effects change, and their list with them.
LEMMA EffectsChange ==
    ASSUME HostInv, OneCaller, NEW t \in Tasks, NEW made \in Seq(Slots \cup {Own}), NEW q,
           q = [proc[t] EXCEPT !.ctx = [id |-> proc[t].ctx.id, made |-> made]],
           proc' = [proc EXCEPT ![t] = q], UNCHANGED <<components, order, told, dropped, left>>,
           proc[t].pc \in Holding,
           registry' \in [Slots -> ContextIds \cup {Nobody}], running' \subseteq ContextIds,
           Builds(q)', Recorded', Stray',
           \A n \in Names : Ready(n, made)' => Ready(n, proc[t].ctx.made),
           \A n \in Names : IsActive(n) => Complete(n)'
    PROVE  HostInv'
<1>1. HTypeOK /\ Apart /\ Serving /\ Announced /\ Ordered
  BY DEF HostInv
<1>2. PICK p \in CallType : p = proc[t] /\ Tidy(p) /\ Fits(p)
  BY OfCall
<1>3. /\ q \in CallType /\ q.pc = p.pc /\ q.call = p.call /\ q.name = p.name
      /\ q.cur = p.cur /\ q.loop = p.loop /\ q.todo = p.todo
      /\ q.attempted = p.attempted /\ q.ctx.id = p.ctx.id /\ q.ctx.made = made
  BY <1>2, Fields DEF CallType, ContextType
<1>4. proc'[t] = q /\ \A u \in Tasks : u = t /\ proc'[u] = q /\ proc[u] = p
  BY <1>1, <1>2, OneMoves
<1>5. HTypeOK'
  <2>1. proc' \in [Tasks -> CallType]
    BY <1>1, <1>3, Typings
  <2>2. \A u \in Tasks : /\ At(u, "idle")' => proc'[u] = Returned
                         /\ proc'[u].ctx # NoContext => proc'[u].pc \in Holding
    BY <1>2, <1>3, <1>4 DEF At, Holding
  <2> QED
    BY <1>1, <2>1, <2>2 DEF HTypeOK, CallType, Holding, IsActive
<1>6. \A u \in Tasks : Fits(proc[u])'
  <2>1. Locals(p) /\ Knows(p) /\ Tries(p)
    BY <1>2 DEF Fits
  <2>2. \A u \in Tasks : Locals(proc[u])'
    BY <1>3, <1>4, <2>1 DEF Locals, Cascades
  <2>3. \A u \in Tasks : Knows(proc[u])'
    <3>1. Knows(q)'
      BY <1>2, <1>3, <2>1 DEF Knows, Cascades, IsActive, IsPending, IsListed, Served, Holding
    <3> QED
      BY <1>4, <3>1
  <2>4. \A u \in Tasks : Builds(proc[u])'
    BY <1>4
  <2>5. \A u \in Tasks : Tries(proc[u])'
    <3>1. \A n \in Names : Ready(n, q.ctx.made)' => Ready(n, p.ctx.made)
      BY <1>2, <1>3
    <3>2. p.attempted \subseteq Names
      BY <1>2, Fields
    <3> QED
      BY <1>3, <1>4, <2>1, <3>1, <3>2 DEF Tries, Round, Attempt, IsPending
  <2> QED
    BY <2>2, <2>3, <2>4, <2>5 DEF Fits
<1>7. \A n \in Names : IsActive(n)' => Complete(n)'
  BY DEF IsActive
<1>8. Apart'
  BY <1>1, <1>3, <1>4 DEF Apart, IsActive
<1>9. Serving'
  BY <1>1, <1>3, <1>4 DEF Serving, AllServed, Served, IsActive, Cascades
<1>10. Announced'
  BY <1>1, <1>3, <1>4 DEF Announced, IsActive
<1>11. Ordered'
  BY <1>1 DEF Ordered, IsListed
<1> QED
  BY <1>5, <1>6, <1>7, <1>8, <1>9, <1>10, <1>11 DEF HostInv

\* No component that runs has a slot another fills or empties.
LEMMA OthersKeep ==
    ASSUME OneProvider, NEW n \in Names, NEW m \in Names, m # n,
           NEW s \in ToSet(Registers[n]), NEW i \in DOMAIN Effects(m)
    PROVE  Effects(m)[i] # s
<1>1. s # Own
  BY EffectsAre, ComponentsAssumption
<1>2. Effects(m)[i] = Own \/ Effects(m)[i] \in ToSet(Registers[m])
  BY EffectsAre
<1> QED
  BY <1>1, <1>2 DEF OneProvider

\* A start makes its next effect.
LEMMA RegisterKeeps ==
    ASSUME HostInv, OneCaller, OneProvider, NEW t \in Tasks, Register(t)
    PROVE  HostInv'
<1>0. PICK p \in CallType : p = proc[t]
  BY OfCall
<1> DEFINE n == p.cur
           id == p.ctx.id
           last == Len(p.ctx.made) + 1
           effect == Effects(n)[last]
           made == Append(p.ctx.made, effect)
           q == [p EXCEPT !.ctx = [id |-> id, made |-> made]]
<1>1. /\ p.pc = "starting" /\ Builds(p) /\ Knows(p) /\ n \in Names /\ HTypeOK
      /\ UNCHANGED <<components, order, told, dropped, left>>
  BY <1>0, OfCall DEF Register, At, Locals
<1>2. /\ last <= Len(Effects(n))
      /\ \/ effect = Own /\ running' = running \cup {id} /\ UNCHANGED registry
         \/ /\ effect # Own /\ registry' = [registry EXCEPT ![effect] = id]
            /\ UNCHANGED running
  <2>1. Len(p.ctx.made) < Len(Effects(n)) /\ Len(p.ctx.made) \in Nat /\ Len(Effects(n)) \in Nat
    BY <1>0, <1>1, Fields, EffectsAre DEF Register
  <2>2. IF effect = Own
        THEN running' = running \cup {id} /\ UNCHANGED registry
        ELSE registry' = [registry EXCEPT ![effect] = id] /\ UNCHANGED running
    BY <1>0 DEF Register
  <2> QED
    BY <2>1, <2>2
<1>3. proc' = [proc EXCEPT ![t] = q]
  <2>1. proc' = [proc EXCEPT ![t].ctx.made = Append(@, effect)]
    <3>1. proc' = [proc EXCEPT ![t].ctx.made =
                      Append(@, Effects(proc[t].cur)[Len(proc[t].ctx.made) + 1])]
      BY DEF Register
    <3> QED
      BY <1>0, <3>1
  <2>2. p.ctx \in [id : ContextIds \cup {Nobody}, made : Seq(Slots \cup {Own})]
    BY DEF CallType, ContextType
  <2>3. [p.ctx EXCEPT !.made = made] = [id |-> id, made |-> made]
    <3> HIDE DEF made
    <3> QED
      BY <2>2
  <2>4. proc' = [proc EXCEPT ![t] = [p EXCEPT !.ctx = [p.ctx EXCEPT !.made = made]]]
    <3> HIDE DEF effect
    <3> QED
      BY <1>0, <1>1, <2>1 DEF HTypeOK, CallType
  <2> QED
    BY <2>3, <2>4
<1>4. id \in ContextIds /\ id # Nobody /\ p.ctx.made \in Seq(Slots \cup {Own})
  BY <1>1, Fields DEF Builds, Holding
<1>5. /\ effect \in Slots \cup {Own} /\ last \in DOMAIN Effects(n)
      /\ effect # Own => effect \in ToSet(Registers[n]) /\ effect \in Slots
  BY <1>1, <1>2, <1>4, EffectsAre
<1>6. /\ made \in Seq(Slots \cup {Own}) /\ Len(made) = last
      /\ DOMAIN made = 1..last /\ made[last] = effect
      /\ \A i \in DOMAIN p.ctx.made : i \in DOMAIN made /\ made[i] = p.ctx.made[i]
      /\ \A i \in DOMAIN made : i = last \/ i \in DOMAIN p.ctx.made
  BY <1>4, <1>5
<1>7. /\ q.pc = "starting" /\ q.cur = n /\ q.ctx = [id |-> id, made |-> made]
      /\ q.ctx.id = id /\ q.ctx.made = made
  BY <1>1 DEF CallType
<1>8. q = [proc[t] EXCEPT !.ctx = [id |-> proc[t].ctx.id, made |-> made]]
  BY <1>0
<1> HIDE DEF q, n, id, last, effect, made
<1>9. registry' \in [Slots -> ContextIds \cup {Nobody}] /\ running' \subseteq ContextIds
  BY <1>1, <1>2, <1>4 DEF HTypeOK
<1>10. \A x : x # effect => (x \in Slots => registry'[x] = registry[x])
  BY <1>1, <1>2 DEF HTypeOK
<1>11. IF effect = Own THEN id \in running' ELSE registry'[effect] = id
  BY <1>1, <1>2, <1>5 DEF HTypeOK
<1>12. running \subseteq running' /\ \A x \in running' : x \in running \/ (x = id /\ effect = Own)
  BY <1>2
<1>13. Builds(q)'
  <2>1. \A i \in DOMAIN made : i <= Len(Effects(n)) /\ made[i] = Effects(n)[i]
    BY <1>1, <1>2, <1>5, <1>6 DEF Builds, n, effect
  <2>2. \A i \in DOMAIN made : Stands(made[i], id)'
    <3>1. ASSUME NEW i \in DOMAIN made, made[i] = effect PROVE Stands(made[i], id)'
      BY <1>11, <3>1 DEF Stands
    <3>2. ASSUME NEW i \in DOMAIN p.ctx.made, made[i] # effect PROVE Stands(made[i], id)'
      <4>1. Stands(p.ctx.made[i], id) /\ made[i] = p.ctx.made[i] /\ made[i] \in Slots \cup {Own}
        BY <1>1, <1>4, <1>6 DEF Builds, id
      <4> QED
        BY <1>10, <1>12, <3>2, <4>1 DEF Stands
    <3> QED
      BY <1>6, <3>1, <3>2
  <2> QED
    BY <1>1, <1>4, <1>7, <2>1, <2>2 DEF Builds, id
<1>14. ASSUME NEW m \in Names, IsActive(m) PROVE Complete(m)'
  <2>1. Complete(m) /\ m # n
    BY <1>1, <1>14 DEF HostInv, Knows, IsActive, IsPending, n
  <2>2. ASSUME NEW i \in DOMAIN Effects(m) PROVE Stands(Effects(m)[i], components[m].context.id)'
    <3>1. Effects(m)[i] = Own \/ (Effects(m)[i] # effect /\ Effects(m)[i] \in Slots)
      <4>1. Effects(m)[i] = Own \/ Effects(m)[i] \in Slots
        BY EffectsAre
      <4>2. CASE effect = Own
        BY <4>1, <4>2
      <4>3. CASE effect # Own
        <5>1. effect \in ToSet(Registers[n])
          BY <1>5, <4>3
        <5>2. Effects(m)[i] # effect
          BY <1>1, <2>1, <5>1, OthersKeep
        <5> QED
          BY <4>1, <5>2
      <4> QED
        BY <4>2, <4>3
    <3> QED
      BY <1>1, <1>10, <1>12, <2>1, <3>1 DEF Complete, Stands
  <2> QED
    BY <1>1, <2>1, <2>2 DEF Complete
<1>15. Recorded'
  <2>1. proc'[t] = q /\ \A u \in Tasks : u = t /\ proc'[u] = q /\ proc[u] = p
    BY <1>0, <1>1, <1>3, OneMoves
  <2>2. ASSUME NEW x, NEW e, OnList(x, e) PROVE OnList(x, e)'
    <3>1. CASE \E m \in Names : IsActive(m) /\ Lists(components[m].context, x, e)
      BY <1>1, <3>1 DEF OnList, Lists, IsActive
    <3>2. CASE \E u \in Tasks : Lists(proc[u].ctx, x, e)
      <4>1. x = id /\ e \in ToSet(p.ctx.made)
        BY <2>1, <3>2 DEF Lists, id
      <4>2. e \in ToSet(made)
        BY <1>6, <4>1 DEF ToSet
      <4> QED
        BY <1>7, <2>1, <4>1, <4>2 DEF OnList, Lists
    <3> QED
      BY <2>2, <3>1, <3>2 DEF OnList
  <2>3. OnList(id, effect)'
    <3>1. effect \in ToSet(made)
      BY <1>6, <1>4 DEF ToSet, last
    <3> QED
      BY <1>7, <2>1, <3>1 DEF OnList, Lists
  <2>4. ASSUME NEW x \in running' PROVE x \in left'.contexts \/ OnList(x, Own)'
    BY <1>1, <1>12, <2>2, <2>3, <2>4 DEF HostInv, Recorded
  <2>5. ASSUME NEW s \in Slots, registry'[s] # Nobody
        PROVE  registry'[s] \in left'.contexts \/ OnList(registry[s], s)'
    <3>1. CASE s = effect
      BY <1>11, <2>3, <3>1, ComponentsAssumption
    <3>2. CASE s # effect
      BY <1>1, <1>10, <2>2, <2>5, <3>2 DEF HostInv, Recorded
    <3> QED
      BY <3>1, <3>2
  <2> QED
    BY <2>4, <2>5 DEF Recorded
<1>16. proc[t].pc \in Holding
  BY <1>0, <1>1 DEF Holding
<1>17. Stray'
  <2>1. id \notin left.contexts
    BY <1>1 DEF Builds, id
  <2>2. ASSUME NEW s \in Slots, registry'[s] \in left.contexts PROVE s \in left.services
    <3>1. s # effect
      BY <1>11, <2>1, <2>2, ComponentsAssumption
    <3> QED
      BY <1>10, <2>2, <3>1 DEF HostInv, Stray
  <2> QED
    BY <1>1, <2>2 DEF Stray
<1>18. ASSUME NEW m \in Names, Ready(m, made)' PROVE Ready(m, proc[t].ctx.made)
  <2>1. ToSet(p.ctx.made) \subseteq ToSet(made) /\ effect \in ToSet(made)
    BY <1>4, <1>6 DEF ToSet, last
  <2>2. Requires[m] \subseteq Slots
    BY ComponentsAssumption
  <2> QED
    BY <1>0, <1>10, <1>18, <2>1, <2>2 DEF Ready
<1> QED
  BY <1>1, <1>3, <1>6, <1>8, <1>9, <1>13, <1>14, <1>15, <1>16, <1>17, <1>18, EffectsChange

\* What is not the last of a list is before it.
LEMMA FrontIs ==
    ASSUME NEW S, NEW list \in Seq(S), list # <<>>
    PROVE  /\ Front(list) \in Seq(S) /\ Last(list) = list[Len(list)] /\ Len(list) \in DOMAIN list
           /\ \A i \in DOMAIN Front(list) : i \in DOMAIN list /\ Front(list)[i] = list[i]
           /\ \A x \in ToSet(list) : x = Last(list) \/ x \in ToSet(Front(list))
<1>1. /\ Front(list) \in Seq(S) /\ Last(list) = list[Len(list)] /\ Len(list) \in DOMAIN list
      /\ DOMAIN Front(list) = 1..(Len(list) - 1) /\ DOMAIN list = 1..Len(list)
      /\ \A i \in DOMAIN Front(list) : i \in DOMAIN list /\ Front(list)[i] = list[i]
  BY DEF Front, Last
<1>2. \A i \in DOMAIN list : i = Len(list) \/ i \in DOMAIN Front(list)
  BY <1>1
<1>3. \A i \in DOMAIN list : list[i] = Last(list) \/ list[i] \in ToSet(Front(list))
  BY <1>1, <1>2 DEF ToSet
<1> QED
  BY <1>1, <1>3 DEF ToSet

\* A call undoes the last effect of what it stops, or of a start that failed.
LEMMA DisposeKeeps ==
    ASSUME HostInv, OneCaller, OneProvider, NEW t \in Tasks, Dispose(t)
    PROVE  HostInv'
<1>0. PICK p \in CallType : p = proc[t]
  BY OfCall
<1> DEFINE n == p.cur
           id == p.ctx.id
           effect == Last(p.ctx.made)
           made == Front(p.ctx.made)
           q == [p EXCEPT !.ctx = [id |-> id, made |-> made]]
<1>1. /\ p.pc \in {"disposing", "reverting"} /\ Builds(p) /\ Knows(p) /\ n \in Names /\ HTypeOK
      /\ p.ctx.made # <<>> /\ UNCHANGED <<components, order, told, dropped, left>>
  BY <1>0, OfCall DEF Dispose, Locals
<1>2. \/ effect = Own /\ running' = running \ {id} /\ UNCHANGED registry
      \/ /\ effect # Own /\ registry' = [registry EXCEPT ![effect] = Nobody]
         /\ UNCHANGED running
  <2>1. IF effect = Own
        THEN running' = running \ {id} /\ UNCHANGED registry
        ELSE registry' = [registry EXCEPT ![effect] = Nobody] /\ UNCHANGED running
    BY <1>0 DEF Dispose, Undo
  <2> QED
    BY <2>1
<1>3. proc' = [proc EXCEPT ![t] = q]
  <2>1. proc' = [proc EXCEPT ![t].ctx.made = Front(@)]
    BY DEF Dispose
  <2>2. p.ctx \in [id : ContextIds \cup {Nobody}, made : Seq(Slots \cup {Own})]
    BY DEF CallType, ContextType
  <2>3. [p.ctx EXCEPT !.made = made] = [id |-> id, made |-> made]
    <3> HIDE DEF made
    <3> QED
      BY <2>2
  <2>4. proc' = [proc EXCEPT ![t] = [p EXCEPT !.ctx = [p.ctx EXCEPT !.made = made]]]
    BY <1>0, <1>1, <2>1 DEF HTypeOK, CallType
  <2> QED
    BY <2>3, <2>4
<1>4. id \in ContextIds /\ id # Nobody /\ p.ctx.made \in Seq(Slots \cup {Own})
  BY <1>1, Fields DEF Builds, Holding
<1>5. /\ made \in Seq(Slots \cup {Own})
      /\ \A i \in DOMAIN made : i \in DOMAIN p.ctx.made /\ made[i] = p.ctx.made[i]
      /\ \A x \in ToSet(p.ctx.made) : x = effect \/ x \in ToSet(made)
      /\ \E i \in DOMAIN p.ctx.made : effect = p.ctx.made[i]
  BY <1>1, <1>4, FrontIs
<1>6. effect # Own => effect \in ToSet(Registers[n]) /\ effect \in Slots
  <2>1. PICK i \in DOMAIN p.ctx.made : effect = p.ctx.made[i]
    BY <1>5
  <2>2. effect = Effects(n)[i] /\ i \in DOMAIN Effects(n)
    BY <1>1, <1>4, <2>1, EffectsAre DEF Builds
  <2> QED
    BY <1>1, <2>2, EffectsAre
<1>7. /\ q.pc = p.pc /\ q.cur = n /\ q.ctx = [id |-> id, made |-> made]
      /\ q.ctx.id = id /\ q.ctx.made = made
  BY <1>1 DEF CallType
<1>8. q = [proc[t] EXCEPT !.ctx = [id |-> proc[t].ctx.id, made |-> made]]
  BY <1>0
<1> HIDE DEF q, n, id, effect, made
<1>9. registry' \in [Slots -> ContextIds \cup {Nobody}] /\ running' \subseteq ContextIds
  BY <1>1, <1>2 DEF HTypeOK
<1>10. \A x \in Slots : x # effect => registry'[x] = registry[x]
  BY <1>1, <1>2 DEF HTypeOK
<1>11. IF effect = Own THEN id \notin running' ELSE registry'[effect] = Nobody
  BY <1>1, <1>2, <1>6 DEF HTypeOK
<1>12. running' \subseteq running /\ \A x \in running : x \in running' \/ (x = id /\ effect = Own)
  BY <1>2
<1>13. Builds(q)'
  <2>1. \A i \in DOMAIN made : i <= Len(Effects(n)) /\ made[i] = Effects(n)[i]
    BY <1>1, <1>5 DEF Builds, n
  <2> QED
    BY <1>1, <1>4, <1>7, <2>1 DEF Builds
<1>14. ASSUME NEW m \in Names, IsActive(m) PROVE Complete(m)'
  <2>1. Complete(m) /\ m # n
    BY <1>1, <1>14 DEF HostInv, Knows, IsActive, IsPending, n
  <2>2. components[m].context.id # id
    BY <1>0, <1>14 DEF HostInv, Apart, id
  <2>3. ASSUME NEW i \in DOMAIN Effects(m) PROVE Stands(Effects(m)[i], components[m].context.id)'
    <3>1. Effects(m)[i] = Own \/ (Effects(m)[i] # effect /\ Effects(m)[i] \in Slots)
      <4>1. Effects(m)[i] = Own \/ Effects(m)[i] \in Slots
        BY EffectsAre
      <4>2. CASE effect = Own
        BY <4>1, <4>2
      <4>3. CASE effect # Own
        <5>1. effect \in ToSet(Registers[n])
          BY <1>6, <4>3
        <5>2. Effects(m)[i] # effect
          BY <1>1, <2>1, <5>1, OthersKeep
        <5> QED
          BY <4>1, <5>2
      <4> QED
        BY <4>2, <4>3
    <3>2. Stands(Effects(m)[i], components[m].context.id)
      BY <2>1 DEF Complete
    <3> QED
      BY <1>1, <1>10, <1>12, <2>2, <3>1, <3>2 DEF Stands
  <2> QED
    BY <1>1, <2>1, <2>3 DEF Complete
<1>15. Recorded'
  <2>1. proc'[t] = q /\ \A u \in Tasks : u = t /\ proc'[u] = q /\ proc[u] = p
    BY <1>0, <1>1, <1>3, OneMoves
  <2>2. ASSUME NEW x, NEW e, OnList(x, e), x # id \/ e # effect PROVE OnList(x, e)'
    <3>1. CASE \E m \in Names : IsActive(m) /\ Lists(components[m].context, x, e)
      BY <1>1, <3>1 DEF OnList, Lists, IsActive
    <3>2. CASE \E u \in Tasks : Lists(proc[u].ctx, x, e)
      <4>1. x = id /\ e \in ToSet(p.ctx.made)
        BY <2>1, <3>2 DEF Lists, id
      <4>2. e \in ToSet(made)
        BY <1>5, <2>2, <4>1
      <4> QED
        BY <1>7, <2>1, <4>1, <4>2 DEF OnList, Lists
    <3> QED
      BY <2>2, <3>1, <3>2 DEF OnList
  <2>3. ASSUME NEW x \in running', x \notin left.contexts PROVE OnList(x, Own)'
    <3>1. OnList(x, Own)
      BY <1>12, <2>3 DEF HostInv, Recorded
    <3>2. x # id \/ Own # effect
      BY <1>11, <2>3
    <3> QED
      BY <2>2, <3>1, <3>2
  <2>4. ASSUME NEW s \in Slots, registry'[s] # Nobody, registry'[s] \notin left.contexts
        PROVE  OnList(registry[s], s)'
    <3>1. s # effect
      BY <1>11, <2>4, ComponentsAssumption
    <3>2. OnList(registry[s], s) /\ registry'[s] = registry[s]
      BY <1>10, <2>4, <3>1 DEF HostInv, Recorded
    <3> QED
      BY <2>2, <3>1, <3>2
  <2> QED
    BY <1>1, <2>3, <2>4 DEF Recorded
<1>16. proc[t].pc \in Holding
  BY <1>0, <1>1 DEF Holding
<1>17. Stray'
  <2>1. ASSUME NEW s \in Slots, registry'[s] \in left.contexts PROVE s \in left.services
    <3>1. s # effect
      <4>1. Nobody \notin left.contexts
        BY <1>1, FS_CardinalityType, ComponentsAssumption DEF HTypeOK, ContextIds, Nobody
      <4> QED
        BY <1>11, <2>1, <4>1, ComponentsAssumption
    <3> QED
      BY <1>10, <2>1, <3>1 DEF HostInv, Stray
  <2> QED
    BY <1>1, <2>1 DEF Stray
<1>18. ASSUME NEW m \in Names, Ready(m, made)' PROVE Ready(m, proc[t].ctx.made)
  <2>1. \A x \in ToSet(p.ctx.made) : x = effect \/ x \in ToSet(made)
    BY <1>5
  <2>2. Requires[m] \subseteq Slots /\ Own \notin Slots
    BY ComponentsAssumption
  <2> QED
    BY <1>0, <1>10, <1>11, <1>18, <2>1, <2>2 DEF Ready
<1> QED
  BY <1>1, <1>3, <1>5, <1>8, <1>9, <1>13, <1>14, <1>15, <1>16, <1>17, <1>18, EffectsChange

\* The host goes, and the components that run with it.
LEMMA DropHostKeeps ==
    ASSUME HostInv, DropHost
    PROVE  HostInv'
<1> DEFINE contexts == {components[n].context : n \in {m \in Names : IsActive(m)}}
           undone == UNION {ToSet(ctx.made) : ctx \in contexts}
           ended == {ctx.id : ctx \in {c \in contexts : Own \in ToSet(c.made)}}
<1>1. /\ HTypeOK /\ Ordered /\ Recorded
      /\ \A t \in Tasks : At(t, "idle")
      /\ running' = running \ ended
      /\ registry' = [s \in Slots |-> IF s \in undone THEN Nobody ELSE registry[s]]
      /\ components' = [n \in Names |-> IF IsActive(n) THEN Pending ELSE components[n]]
      /\ dropped' = TRUE
      /\ UNCHANGED <<order, told, proc, left>>
  BY DEF DropHost, HostInv
<1>2. \A n \in Names : /\ ~IsActive(n)'
                       /\ IsListed(n)' <=> IsListed(n)
                       /\ components'[n].context = NoContext
  BY <1>1 DEF HTypeOK, IsActive, IsListed, Pending
<1>3. HTypeOK'
  <2>1. Pending \in [state : {"none", "Pending", "Active"}, context : ContextType]
    BY AtRest DEF Pending
  <2>2. components' \in [Names -> [state : {"none", "Pending", "Active"},
                                   context : ContextType]]
    BY <1>1, <2>1 DEF HTypeOK
  <2>3. registry' \in [Slots -> ContextIds \cup {Nobody}] /\ running' \subseteq ContextIds
    BY <1>1 DEF HTypeOK
  <2>4. \A t \in Tasks : /\ At(t, "idle")' => proc'[t] = Returned
                         /\ proc'[t].ctx # NoContext => proc'[t].pc \in Holding
    BY <1>1 DEF HTypeOK, At, Holding
  <2> QED
    BY <1>1, <1>2, <2>2, <2>3, <2>4 DEF HTypeOK, Holding
<1>4. ASSUME NEW t \in Tasks PROVE Fits(proc[t])'
  <2>1. /\ proc'[t] = proc[t] /\ proc[t].pc = "idle"
        /\ Locals(proc[t]) /\ Builds(proc[t]) /\ Tries(proc[t])
    BY <1>1, OfCall DEF At
  <2>2. Locals(proc[t])'
    BY <2>1 DEF Locals, Cascades
  <2>3. Knows(proc[t])'
    BY <2>1 DEF Knows, Cascades
  <2>4. Builds(proc[t])'
    BY <2>1 DEF Builds, Holding
  <2>5. Tries(proc[t])'
    BY <2>1 DEF Tries, Round, Attempt
  <2> QED
    BY <2>2, <2>3, <2>4, <2>5 DEF Fits
<1>5. Recorded'
  <2>1. ASSUME NEW t \in Tasks, NEW id, NEW effect, Lists(proc[t].ctx, id, effect)
        PROVE  OnList(id, effect)'
    BY <1>1, <2>1 DEF OnList, Lists
  <2>2. ASSUME NEW id \in running', id \notin left.contexts PROVE OnList(id, Own)'
    <3>1. OnList(id, Own) /\ id \notin ended
      BY <1>1, <2>2 DEF Recorded
    <3>2. ASSUME NEW n \in Names, IsActive(n), Lists(components[n].context, id, Own)
          PROVE  FALSE
      <4>1. components[n].context \in contexts
        BY <3>2
      <4>2. id = components[n].context.id /\ Own \in ToSet(components[n].context.made)
        BY <3>2 DEF Lists
      <4> QED
        BY <3>1, <4>1, <4>2
    <3> QED
      BY <2>1, <3>1, <3>2 DEF OnList
  <2>3. ASSUME NEW s \in Slots, registry'[s] # Nobody, registry'[s] \notin left.contexts
        PROVE  OnList(registry[s], s)'
    <3>1. s \notin undone /\ registry'[s] = registry[s] /\ OnList(registry[s], s)
      BY <1>1, <2>3 DEF Recorded
    <3>2. ASSUME NEW n \in Names, IsActive(n), Lists(components[n].context, registry[s], s)
          PROVE  FALSE
      <4>1. components[n].context \in contexts
        BY <3>2
      <4>2. s \in ToSet(components[n].context.made)
        BY <3>2 DEF Lists
      <4> QED
        BY <3>1, <4>1, <4>2
    <3>3. PICK t \in Tasks : Lists(proc[t].ctx, registry[s], s)
      BY <3>1, <3>2 DEF OnList
    <3> QED
      BY <2>1, <3>1, <3>3
  <2> QED
    BY <1>1, <2>2, <2>3 DEF Recorded
<1>6. Apart' /\ Serving' /\ \A n \in Names : IsActive(n)' => Complete(n)'
  BY <1>2 DEF Apart, Serving, AllServed
<1>7. Announced' /\ Ordered'
  BY <1>1, <1>2 DEF Announced, Ordered
<1>8. Stray'
  <2>1. Nobody \notin left.contexts
    BY <1>1, FS_CardinalityType, ComponentsAssumption DEF HTypeOK, ContextIds, Nobody
  <2> QED
    BY <1>1, <2>1 DEF HostInv, Stray
<1> QED
  BY <1>3, <1>4, <1>5, <1>6, <1>7, <1>8 DEF HostInv

-----------------------------------------------------------------------------
(* The theorems.                                                           *)

\* With no component there is nothing that could be wrong.
LEMMA InitHolds == HInit => HostInv
<1> SUFFICES ASSUME HInit PROVE HostInv
  OBVIOUS
<1>1. \A n \in Names : ~IsActive(n) /\ ~IsListed(n) /\ components[n].context = NoContext
  BY DEF HInit, IsActive, IsListed, Unlisted
<1>2. \A t \in Tasks : proc[t] = Returned
  BY DEF HInit
<1>3. HTypeOK
  <2>1. Unlisted \in [state : {"none", "Pending", "Active"}, context : ContextType]
    BY AtRest DEF Unlisted
  <2>2. components \in [Names -> [state : {"none", "Pending", "Active"},
                                  context : ContextType]]
    BY <2>1 DEF HInit
  <2>3. proc \in [Tasks -> CallType]
    BY AtRest DEF HInit
  <2>4. order \in Seq(Names)
    BY DEF HInit
  <2>5. left \in LeftType
    BY ComponentsAssumption DEF HInit, NothingLeft, LeftType
  <2>6. registry \in [Slots -> ContextIds \cup {Nobody}] /\ running \subseteq ContextIds
    BY DEF HInit
  <2>7. told \in [Names -> {"none", "pending", "loaded", "unloaded"}] /\ dropped \in BOOLEAN
    BY DEF HInit
  <2>8. \A t \in Tasks : proc[t].ctx = NoContext
    BY <1>2, AtRest
  <2> QED
    BY <1>1, <1>2, <2>2, <2>3, <2>4, <2>5, <2>6, <2>7, <2>8 DEF HTypeOK, CallType, LeftType
<1>4. \A t \in Tasks : Fits(proc[t])
  BY <1>2, AtRest
<1>5. Recorded /\ Stray
  BY DEF HInit, Recorded, Stray, NothingLeft
<1>6. Announced
  BY <1>1 DEF HInit, Announced
<1> QED
  BY <1>1, <1>3, <1>4, <1>5, <1>6 DEF HostInv, Apart, Serving, AllServed, Ordered

\* Every step keeps the invariant.
LEMMA StepKeeps ==
    ASSUME HostInv, OneCaller, OneProvider, [HNext]_hvars
    PROVE  HostInv'
<1>1. CASE UNCHANGED hvars
  <2>1. /\ HTypeOK' /\ Apart' /\ Recorded' /\ Stray' /\ Serving' /\ Announced' /\ Ordered'
        /\ \A n \in Names : IsActive(n)' => Complete(n)'
    <3>1. HTypeOK'
      BY <1>1 DEF hvars, HostInv, HTypeOK, At, IsActive
    <3>2. Apart' /\ Announced' /\ Ordered'
      BY <1>1 DEF hvars, HostInv, Apart, Announced, Ordered, IsActive, IsListed
    <3>3. Recorded' /\ Stray'
      BY <1>1 DEF hvars, HostInv, Recorded, Stray, OnList, Lists, IsActive
    <3>4. Serving'
      BY <1>1 DEF hvars, HostInv, Serving, AllServed, Served, IsActive, Cascades
    <3>5. \A n \in Names : IsActive(n)' => Complete(n)'
      BY <1>1 DEF hvars, HostInv, Complete, Stands, IsActive
    <3> QED
      BY <3>1, <3>2, <3>3, <3>4, <3>5
  <2>2. ASSUME NEW t \in Tasks PROVE Fits(proc[t])'
    <3>1. proc'[t] = proc[t] /\ Fits(proc[t])
      BY <1>1 DEF hvars, HostInv
    <3>2. Locals(proc[t])'
      BY <3>1 DEF Fits, Locals, Cascades
    <3>3. Knows(proc[t])'
      BY <1>1, <3>1 DEF hvars, Fits, Knows, Cascades, IsActive, IsPending, IsListed, Served,
                           Ready
    <3>4. Builds(proc[t])'
      BY <1>1, <3>1 DEF hvars, Fits, Builds, Stands
    <3>5. Tries(proc[t])'
      BY <1>1, <3>1 DEF hvars, Fits, Tries, Round, Attempt, IsPending, IsActive, Ready
    <3> QED
      BY <3>2, <3>3, <3>4, <3>5 DEF Fits
  <2> QED
    BY <2>1, <2>2 DEF HostInv
<1>2. ASSUME NEW t \in Tasks, \E call \in Calls, n \in Names : Call(t, call, n)
      PROVE  HostInv'
  BY <1>2, CallKeeps
<1>3. ASSUME NEW t \in Tasks, Starting(t)
      PROVE  HostInv'
  BY <1>3, CheckDuplicateKeeps, InsertKeeps, LookupKeeps, CheckMissingKeeps, TellPendingKeeps,
     RegisterKeeps, StartReturnsKeeps, StartFailsKeeps, RevertedKeeps, ActivateKeeps,
     TellLoadedKeeps, ReconcileKeeps, StartNextKeeps DEF Starting
<1>4. ASSUME NEW t \in Tasks, Stopping(t)
      PROVE  HostInv'
  BY <1>4, CheckKnownKeeps, StopKeeps, DisposeKeeps, DisposedKeeps, TellUnloadedKeeps,
     CascadeKeeps, StopNextKeeps, DeleteKeeps, ForgetKeeps DEF Stopping
<1>5. ASSUME NEW t \in Tasks, Cancel(t)
      PROVE  HostInv'
  BY <1>5, CancelKeeps
<1>6. CASE DropHost
  BY <1>6, DropHostKeeps
<1> QED
  BY <1>1, <1>2, <1>3, <1>4, <1>5, <1>6 DEF HNext

\* With one caller at a time, and no two components that fill one slot, what runs
\* has a context of its own that lists its effects, all its effects stand, what a
\* call has under way is held by it, reconcile passes over nothing, and what calls
\* that were dropped left behind is known.
THEOREM HostInvariant ==
    ASSUME OneCaller, OneProvider
    PROVE  HSpec => []HostInv
<1>1. HInit => HostInv
  BY InitHolds
<1>2. HostInv /\ [HNext]_hvars => HostInv'
  BY StepKeeps
<1> QED
  BY <1>1, <1>2, PTL DEF HSpec

\* No tool, service, hook or task outlives what can dispose of it, unless a start that
\* was dropped half way made it: any other is on the list of a running component or
\* of the call that starts or stops one.
THEOREM OwnersOutlast ==
    ASSUME OneCaller, OneProvider
    PROVE  HSpec => [](HTypeOK /\ OnlyDroppedStartsLeak)
<1>1. HostInv => HTypeOK /\ OnlyDroppedStartsLeak
  <2> SUFFICES ASSUME HostInv PROVE OnlyDroppedStartsLeak
    BY DEF HostInv
  <2>1. ASSUME NEW id, NEW effect, OnList(id, effect)
        PROVE  \E ctx \in Held : ctx.id = id /\ effect \in ToSet(ctx.made)
    <3>1. CASE \E n \in Names : IsActive(n) /\ Lists(components[n].context, id, effect)
      BY <3>1 DEF Held, Lists
    <3>2. CASE \E t \in Tasks : Lists(proc[t].ctx, id, effect)
      BY <3>2 DEF Held, Lists
    <3> QED
      BY <2>1, <3>1, <3>2 DEF OnList
  <2> QED
    BY <2>1 DEF HostInv, Recorded, OnlyDroppedStartsLeak, StrayRuns, StraySlots
<1> QED
  BY <1>1, HostInvariant, PTL

\* What runs without a service it requires is about to be stopped by the cascade
\* under way, or a dropped call is to blame: it had withdrawn the service, or its
\* start had provided it.
THEOREM DependentsStop ==
    ASSUME OneCaller, OneProvider
    PROVE  HSpec => []OnlyDroppedStopsStrand
<1>1. HostInv => OnlyDroppedStopsStrand
  <2> SUFFICES ASSUME HostInv, NEW n \in Names, IsActive(n), \A t \in Tasks : ~Withdrawing(t),
                      NEW s \in MissingFor(n)
               PROVE  s \in left.services
    BY DEF OnlyDroppedStopsStrand
  <2>1. \A t \in Tasks : ~Cascades(proc[t])
    BY DEF Withdrawing, Cascades, At
  <2>2. Served(n) /\ s \in Requires[n] /\ registry[s] = Nobody
    BY <2>1 DEF HostInv, Serving, AllServed, MissingFor
  <2> QED
    BY <2>2, Filled DEF Served
<1> QED
  BY <1>1, HostInvariant, PTL

\* A component that runs has all that its start made.
THEOREM RunningIsWhole ==
    ASSUME OneCaller, OneProvider
    PROVE  HSpec => []ActiveIsWhole
<1>1. HostInv => ActiveIsWhole
  <2> SUFFICES ASSUME HostInv, NEW n \in Names, IsActive(n)
               PROVE  /\ components[n].context.id \in running
                      /\ \A i \in DOMAIN Registers[n] :
                            registry[Registers[n][i]] = components[n].context.id
    BY DEF ActiveIsWhole
  <2>1. Complete(n)
    BY DEF HostInv
  <2>2. components[n].context.id \in running
    <3>1. 1 \in DOMAIN Effects(n) /\ Effects(n)[1] = Own
      BY EffectsAre
    <3> QED
      BY <2>1, <3>1 DEF Complete, Stands
  <2>3. ASSUME NEW i \in DOMAIN Registers[n]
        PROVE  registry[Registers[n][i]] = components[n].context.id
    <3>1. i + 1 \in DOMAIN Effects(n) /\ Effects(n)[i + 1] = Registers[n][i]
      BY EffectsAre
    <3>2. Registers[n][i] \in Slots
      BY ComponentsAssumption
    <3>3. Registers[n][i] # Own
      BY <3>2, ComponentsAssumption
    <3> QED
      BY <2>1, <3>1, <3>3 DEF Complete, Stands
  <2> QED
    BY <2>2, <2>3
<1> QED
  BY <1>1, HostInvariant, PTL

\* The bus knows of a component no call is at work on whether it runs.
THEOREM BusIsToldState ==
    ASSUME OneCaller, OneProvider
    PROVE  HSpec => []BusKnowsState
<1>1. HostInv => BusKnowsState
  BY DEF HostInv, Announced, BusKnowsState
<1> QED
  BY <1>1, HostInvariant, PTL

\* A call that returns from reconcile does so at the end of it.
LEMMA EndOfReconcile ==
    ASSUME HTypeOK, OneCaller, [HNext]_hvars, NEW t \in Tasks,
           proc[t].pc \in {"candidates", "candidate"}, proc'[t].pc = "idle"
    PROVE  Reconcile(t) \/ StartNext(t)
<1>1. ~UNCHANGED hvars /\ ~DropHost
  BY DEF hvars, DropHost
<1>2. ASSUME NEW call, NEW n, Call(t, call, n) PROVE FALSE
  BY <1>2 DEF Call, At
<1>3. ~Cancel(t)
  BY DEF Cancel
<1>4. ~Stopping(t)
  <2>1. ~CheckKnown(t) /\ ~Stop(t) /\ ~Dispose(t) /\ ~Disposed(t)
    BY DEF CheckKnown, Stop, Dispose, Disposed, At
  <2>2. ~TellUnloaded(t) /\ ~Cascade(t) /\ ~StopNext(t) /\ ~Delete(t) /\ ~Forget(t)
    BY DEF TellUnloaded, Cascade, StopNext, Delete, Forget, At
  <2> QED
    BY <2>1, <2>2 DEF Stopping
<1>5. Starting(t) => Reconcile(t) \/ StartNext(t)
  <2>1. ~CheckDuplicate(t) /\ ~Insert(t) /\ ~Lookup(t) /\ ~CheckMissing(t) /\ ~TellPending(t)
    BY DEF CheckDuplicate, Insert, Lookup, CheckMissing, TellPending, At
  <2>2. /\ ~Register(t) /\ ~StartReturns(t) /\ ~StartFails(t) /\ ~Reverted(t)
        /\ ~Activate(t) /\ ~TellLoaded(t)
    BY DEF Register, StartReturns, StartFails, Reverted, Activate, TellLoaded, At
  <2> QED
    BY <2>1, <2>2 DEF Starting
<1> QED
  BY <1>1, <1>2, <1>3, <1>4, <1>5 DEF HNext, OneCaller

\* A call that returns from reconcile leaves waiting only what lacks a service or
\* may fail to start.
THEOREM ReconcileIsThorough ==
    ASSUME OneCaller, OneProvider
    PROVE  HSpec => ReconcileLeavesNoneOut
<1>1. ASSUME HostInv, [HNext]_hvars, NEW t \in Tasks, NEW n \in Names,
             proc[t].pc \in {"candidates", "candidate"}, proc'[t].pc = "idle",
             IsPending(n), MissingFor(n) = {}
      PROVE  n \in MayFail
  <2>1. HTypeOK /\ Ordered /\ Tries(proc[t]) /\ proc[t].ctx = NoContext
    BY <1>1, OfCall DEF HostInv, Holding
  <2>2. Ready(n, proc[t].ctx.made)
    BY <1>1, <2>1, Supplied, AtRest DEF OneCaller
  <2>3. n \in proc[t].attempted => n \in MayFail
    BY <1>1, <2>1, <2>2 DEF Tries, Attempt
  <2>4. CASE Reconcile(t)
    <3>1. proc[t].pc = "candidates" /\ Candidates(t) = {}
      <4>1. CASE Candidates(t) # {}
        <5>1. PICK names : proc' = [proc EXCEPT ![t].pc = "candidate", ![t].todo = names]
          BY <2>4, <4>1 DEF Reconcile
        <5>2. proc'[t].pc = "candidate"
          BY <2>1, <5>1 DEF HTypeOK
        <5> QED
          BY <1>1, <5>2
      <4> QED
        BY <2>4, <4>1 DEF Reconcile, At
    <3>2. PICK i \in DOMAIN order : order[i] = n
      BY <1>1, <2>1 DEF Ordered, IsListed, IsPending, ToSet
    <3> QED
      BY <1>1, <2>3, <3>1, <3>2 DEF Candidates
  <2>5. CASE StartNext(t)
    <3>1. proc[t].pc = "candidate" /\ proc[t].todo = <<>>
      <4>1. CASE proc[t].todo # <<>>
        <5>1. PICK m : proc' = [proc EXCEPT ![t].pc = "lookup", ![t].cur = m,
                                   ![t].todo = Tail(@), ![t].attempted = @ \cup {m}]
          BY <2>5, <4>1 DEF StartNext
        <5>2. proc'[t].pc = "lookup"
          BY <2>1, <5>1 DEF HTypeOK
        <5> QED
          BY <1>1, <5>2
      <4> QED
        BY <2>5, <4>1 DEF StartNext, At
    <3>2. proc[t].loop /\ n \in proc[t].attempted \cup ToSet(<<>>)
      BY <1>1, <2>1, <3>1, OfCall DEF Locals, Tries, Round
    <3> QED
      BY <2>3, <3>2 DEF ToSet
  <2> QED
    BY <1>1, <2>1, <2>4, <2>5, EndOfReconcile
<1>2. HostInv /\ [HNext]_hvars =>
        [\A t \in Tasks :
            proc[t].pc \in {"candidates", "candidate"} /\ proc'[t].pc = "idle" =>
                \A n \in Names : IsPending(n) /\ MissingFor(n) = {} => n \in MayFail]_hvars
  BY <1>1
<1> QED
  BY <1>2, HostInvariant, PTL DEF HSpec, ReconcileLeavesNoneOut

=============================================================================
