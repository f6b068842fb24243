---------------------------- MODULE SubagentsProofs ----------------------------
(***************************************************************************)
(* That the subagents of coding sessions hold one conversation at a time,  *)
(* hear the answers to their own requests and have their checkouts as long *)
(* as they live and no session that opens sweeps them away: for any        *)
(* sessions, calls, bounds, dropped calls, closes, kills and failures of   *)
(* git.                                                                    *)
(*                                                                         *)
(* A subagent is in the registry of its session, or with one call of it,   *)
(* or gone; a call that works with one is between a message and a report   *)
(* exactly while its cycle runs.  What a relay waits on are the requests   *)
(* it has read off the subagent's bus and found no decision on.            *)
(***************************************************************************)
EXTENDS Subagents, SequenceTheorems, TLAPS

Places == {"idle", "creating", "briefing", "cycling", "reporting"}
Line == {"user", "report"} \X Threads
Decision == Nat \X Nat
Subagent == [session : Sessions, name : Nat, isolated : BOOLEAN, seen : Nat, turns : Nat,
             talk : Seq(Line), asked : Nat, fetched : Nat, sent : Nat,
             pending : SUBSET Nat, heard : Seq(Decision)]

Typed ==
    /\ open \subseteq Sessions
    /\ minted \in [Sessions -> Nat]
    /\ registry \in [Sessions -> SUBSET (1..Len(sub))]
    /\ sub \in Seq(Subagent)
    /\ call \in [Threads -> [at : Places, with : 0..Len(sub)]]
    /\ parent \in [Sessions -> Seq(Decision)]
    /\ relays \subseteq 1..Len(sub)

\* A subagent is in one place: the registry of its session or one call of it.
OnePlace ==
    /\ \A s \in Sessions : \A n \in registry[s] : sub[n].session = s
    /\ \A t \in Threads :
        /\ call[t].with = 0 <=> call[t].at \in {"idle", "creating"}
        /\ call[t].with # 0 =>
               /\ sub[call[t].with].session = t[1]
               /\ call[t].with \notin registry[t[1]]
    /\ \A t, u \in Threads : call[t].with = call[u].with /\ call[t].with # 0 => t = u

\* A session that is not open has no subagents.
Shut == \A s \in Sessions \ open :
            /\ registry[s] = {}
            /\ \A t \in Threads : t[1] = s => call[t] = Idle

\* A conversation ends on a report, or on the message of the call that runs the cycle.
Stands(talk, at, t) ==
    IF at = "cycling"
      THEN Len(talk) % 2 = 1 /\ talk[Len(talk)] = <<"user", t>>
      ELSE Len(talk) % 2 = 0
Turns ==
    /\ \A s \in Sessions : \A n \in registry[s] : Len(sub[n].talk) % 2 = 0
    /\ \A t \in Threads : call[t].with # 0 => Stands(sub[call[t].with].talk, call[t].at, t)

\* Nobody decides on a request that was not passed on.
Asked ==
    /\ \A s \in Sessions : \A i \in DOMAIN parent[s] : parent[s][i][1] \in 0..Len(sub)
    /\ \A n \in relays :
           \A i \in DOMAIN parent[sub[n].session] :
               parent[sub[n].session][i][1] = n =>
                   parent[sub[n].session][i][2] \in 1..sub[n].sent

\* The decisions on the session's bus the relay has read.
Before(bus, i) == {bus[j] : j \in 1..i}
Read(n) == Before(parent[sub[n].session], sub[n].seen)

Relayed ==
    \A n \in relays :
        /\ sub[n].sent <= sub[n].fetched
        /\ sub[n].seen <= Len(parent[sub[n].session])
        /\ sub[n].pending = {k \in 1..sub[n].fetched : <<n, k>> \notin Read(n)}


\* What a subagent has heard is what its relay has read for it, each decision once.
Hears(n) ==
    LET bus == parent[sub[n].session]
        heard == sub[n].heard
    IN
    /\ \A j \in DOMAIN heard :
           heard[j][1] = n /\ \E i \in 1..sub[n].seen : bus[i] = heard[j]
    /\ \A i \in 1..sub[n].seen : bus[i][1] = n => \E j \in DOMAIN heard : heard[j] = bus[i]
    /\ IsInjective(heard)
Heard == \A n \in relays : Hears(n)

\* A message, a report, a message, ...: each report by the call that sent the message.
Proper(talk) ==
    \A i \in DOMAIN talk :
        IF i % 2 = 1 THEN talk[i][1] = "user"
        ELSE talk[i] = <<"report", talk[i - 1][2]>>

Owners == OnePlace /\ Shut /\ Turns /\ OneConversation
Relays == Asked /\ Relayed /\ Heard
SubInv == Typed /\ Owners /\ Relays

-----------------------------------------------------------------------------
(* Conversations.                                                          *)

\* A conversation that ends on a report goes on with a message.
LEMMA Said ==
    ASSUME NEW talk \in Seq(Line), Proper(talk), Len(talk) % 2 = 0, NEW t \in Threads
    PROVE  LET longer == Append(talk, <<"user", t>>) IN
           /\ longer \in Seq(Line) /\ Proper(longer)
           /\ Len(longer) % 2 = 1 /\ longer[Len(longer)] = <<"user", t>>
<1> DEFINE longer == Append(talk, <<"user", t>>)
<1>1. <<"user", t>> \in Line
  BY DEF Line
<1>2. /\ longer \in Seq(Line) /\ Len(longer) = Len(talk) + 1 /\ Len(talk) \in Nat
      /\ \A i \in 1..Len(talk) : longer[i] = talk[i]
      /\ longer[Len(talk) + 1] = <<"user", t>>
      /\ DOMAIN talk = 1..Len(talk) /\ DOMAIN longer = 1..(Len(talk) + 1)
  BY <1>1
<1>3. Proper(longer)
  <2> SUFFICES ASSUME NEW i \in DOMAIN longer
               PROVE  IF i % 2 = 1 THEN longer[i][1] = "user"
                      ELSE longer[i] = <<"report", longer[i - 1][2]>>
    BY DEF Proper
  <2>1. CASE i = Len(talk) + 1
    <3>1. i % 2 = 1
      BY <1>2, <2>1
    <3> QED
      BY <1>2, <2>1, <3>1
  <2>2. CASE i \in DOMAIN talk
    <3>1. i % 2 # 1 => i - 1 \in DOMAIN talk
      BY <1>2, <2>2
    <3> QED
      BY <1>2, <2>2, <3>1 DEF Proper
  <2> QED
    BY <1>2, <2>1, <2>2
<1> QED
  BY <1>2, <1>3

\* A conversation that ends on a message goes on with the report of its call.
LEMMA Reported ==
    ASSUME NEW talk \in Seq(Line), Proper(talk), Len(talk) % 2 = 1, NEW t \in Threads,
           talk[Len(talk)] = <<"user", t>>
    PROVE  LET longer == Append(talk, <<"report", t>>) IN
           longer \in Seq(Line) /\ Proper(longer) /\ Len(longer) % 2 = 0
<1> DEFINE longer == Append(talk, <<"report", t>>)
<1>1. <<"report", t>> \in Line
  BY DEF Line
<1>2. /\ longer \in Seq(Line) /\ Len(longer) = Len(talk) + 1 /\ Len(talk) \in Nat
      /\ \A i \in 1..Len(talk) : longer[i] = talk[i]
      /\ longer[Len(talk) + 1] = <<"report", t>>
      /\ DOMAIN talk = 1..Len(talk) /\ DOMAIN longer = 1..(Len(talk) + 1)
  BY <1>1
<1>3. Proper(longer)
  <2> SUFFICES ASSUME NEW i \in DOMAIN longer
               PROVE  IF i % 2 = 1 THEN longer[i][1] = "user"
                      ELSE longer[i] = <<"report", longer[i - 1][2]>>
    BY DEF Proper
  <2>1. CASE i = Len(talk) + 1
    <3>1. Len(talk) \in 1..Len(talk) /\ i % 2 = 0
      BY <1>2, <2>1
    <3>2. longer[i - 1] = <<"user", t>>
      BY <1>2, <2>1, <3>1
    <3> QED
      BY <1>2, <2>1, <3>1, <3>2
  <2>2. CASE i \in DOMAIN talk
    <3>1. i % 2 # 1 => i - 1 \in DOMAIN talk
      BY <1>2, <2>2
    <3> QED
      BY <1>2, <2>2, <3>1 DEF Proper
  <2> QED
    BY <1>2, <2>1, <2>2
<1> QED
  BY <1>2, <1>3

-----------------------------------------------------------------------------
(* What a step leaves alone.                                               *)

\* A step that moves no subagent and adds nothing to a conversation.
LEMMA OwnersKept ==
    ASSUME Typed, Owners, UNCHANGED <<open, registry, call>>, DOMAIN sub' = DOMAIN sub,
           \A n \in DOMAIN sub : sub'[n].session = sub[n].session /\ sub'[n].talk = sub[n].talk
    PROVE  Owners'
<1>1. /\ \A s \in Sessions : registry[s] \subseteq DOMAIN sub
      /\ \A t \in Threads : call[t].with # 0 => call[t].with \in DOMAIN sub
  BY DEF Typed
<1>2. OnePlace'
  BY <1>1 DEF Owners, OnePlace
<1>3. Shut'
  BY DEF Owners, Shut
<1>4. Turns'
  BY <1>1 DEF Owners, Turns
<1>5. OneConversation'
  BY DEF Owners, OneConversation
<1> QED
  BY <1>2, <1>3, <1>4, <1>5 DEF Owners

\* A step that touches no relay that still runs, and decides nothing.
LEMMA RelaysKept ==
    ASSUME Typed, Relays, parent' = parent, relays' \subseteq relays,
           Len(sub') \in Nat, Len(sub') >= Len(sub),
           \A n \in relays' :
               /\ sub'[n].session = sub[n].session /\ sub'[n].seen = sub[n].seen
               /\ sub'[n].fetched = sub[n].fetched /\ sub'[n].sent = sub[n].sent
               /\ sub'[n].pending = sub[n].pending /\ sub'[n].heard = sub[n].heard
    PROVE  Relays'
<1>1. Asked'
  <2>1. \A s \in Sessions : \A i \in DOMAIN parent[s] : parent[s][i][1] \in 0..Len(sub')
    BY DEF Typed, Relays, Asked
  <2> QED
    BY <2>1 DEF Relays, Asked
<1>2. Relayed'
  <2> SUFFICES ASSUME NEW n \in relays'
               PROVE  /\ sub'[n].sent <= sub'[n].fetched
                      /\ sub'[n].seen <= Len(parent'[sub'[n].session])
                      /\ sub'[n].pending = {k \in 1..sub'[n].fetched : <<n, k>> \notin Read(n)'}
    BY DEF Relayed
  <2>1. Read(n)' = Read(n)
    BY DEF Read
  <2> QED
    BY <2>1 DEF Relays, Relayed
<1>3. Heard'
  <2> SUFFICES ASSUME NEW n \in relays'
               PROVE  Hears(n)'
    BY DEF Heard
  <2>1. Hears(n)
    BY DEF Relays, Heard
  <2> QED
    BY <2>1 DEF Hears
<1> QED
  BY <1>1, <1>2, <1>3 DEF Relays

\* One subagent is written to.
LEMMA Written ==
    ASSUME Typed, NEW n \in 1..Len(sub), NEW r \in Subagent, sub' = [sub EXCEPT ![n] = r]
    PROVE  /\ sub' \in Seq(Subagent) /\ Len(sub') = Len(sub) /\ DOMAIN sub' = DOMAIN sub
           /\ sub'[n] = r /\ \A m \in 1..Len(sub) : m # n => sub'[m] = sub[m]
           /\ DOMAIN sub = 1..Len(sub) /\ Len(sub) \in Nat /\ sub[n] \in Subagent
BY DEF Typed

\* What a call says of its thread.
LEMMA Place ==
    ASSUME Typed, NEW t \in Threads
    PROVE  /\ t[1] \in Sessions /\ call[t] \in [at : Places, with : 0..Len(sub)]
           /\ call[t] = [at |-> call[t].at, with |-> call[t].with]
           /\ Len(sub) \in Nat /\ DOMAIN sub = 1..Len(sub)
           /\ \A m \in DOMAIN sub : sub[m] \in Subagent
BY DEF Typed, Threads

\* What is counted of a subagent is a number.
LEMMA Fields ==
    ASSUME NEW r \in Subagent
    PROVE  /\ r.session \in Sessions /\ r.pending \subseteq Nat /\ r.heard \in Seq(Decision)
           /\ r.turns \in Nat /\ r.asked \in Nat /\ r.fetched \in Nat /\ r.sent \in Nat
           /\ r.seen \in Nat /\ r.turns + 1 \in Nat /\ r.asked + 1 \in Nat
           /\ r.fetched + 1 \in Nat /\ r.sent + 1 \in Nat /\ r.seen + 1 \in Nat
<1>1. /\ r.session \in Sessions /\ r.pending \subseteq Nat /\ r.heard \in Seq(Decision)
      /\ r.turns \in Nat /\ r.asked \in Nat /\ r.fetched \in Nat /\ r.sent \in Nat
      /\ r.seen \in Nat
  BY DEF Subagent
<1> QED
  BY <1>1

\* A call that speaks, listens or reports is with a subagent.
LEMMA AtWork ==
    ASSUME Typed, OnePlace, NEW t \in Threads, call[t].at \notin {"idle", "creating"}
    PROVE  /\ call[t].with # 0 /\ call[t].with \in 1..Len(sub)
           /\ sub[call[t].with] \in Subagent
<1>1. call[t].with # 0 /\ call[t].with \in 0..Len(sub)
  BY DEF Typed, OnePlace
<1>2. call[t].with \in 1..Len(sub) /\ Len(sub) \in Nat
  BY <1>1 DEF Typed
<1> QED
  BY <1>1, <1>2, Place

-----------------------------------------------------------------------------
(* The steps of a call.                                                    *)

\* A subagent that is started has a place of its own and a relay that is up to date.
LEMMA MintKeeps ==
    ASSUME SubInv, NEW t \in Threads, NEW isolated \in BOOLEAN, Mint(t, isolated),
           call[t].with = 0, t[1] \in open, UNCHANGED <<open, registry, parent>>
    PROVE  SubInv'
<1> DEFINE s == t[1]
           n == Len(sub) + 1
           f == Fresh(s, minted[s] + 1, isolated, Len(parent[s]))
<1>1. /\ Typed /\ Owners /\ Relays /\ s \in Sessions /\ Len(sub) \in Nat
      /\ DOMAIN sub = 1..Len(sub)
  BY Place DEF SubInv
<1>2. /\ f \in Subagent /\ f.session = s /\ f.talk = <<>> /\ f.seen = Len(parent[s])
      /\ f.sent = 0 /\ f.fetched = 0 /\ f.pending = {} /\ f.heard = <<>>
  BY <1>1 DEF Fresh, Subagent, Typed
<1>3. sub' = Append(sub, f) /\ relays' = relays \cup {n}
  BY DEF Mint
<1>4. /\ sub' \in Seq(Subagent) /\ Len(sub') = n /\ sub'[n] = f /\ DOMAIN sub' = 1..n
      /\ \A m \in 1..Len(sub) : sub'[m] = sub[m] /\ m # n /\ m \in 1..n
  <2> HIDE DEF f
  <2> QED
    BY <1>1, <1>2, <1>3 DEF Typed
<1>5. /\ call' = [call EXCEPT ![t] = [at |-> "briefing", with |-> n]]
      /\ call'[t] = [at |-> "briefing", with |-> n]
      /\ \A u \in Threads : u # t => call'[u] = call[u]
  BY <1>1 DEF Mint, Go, Typed
<1> HIDE DEF f
<1>6. Typed'
  <2>1. minted' \in [Sessions -> Nat]
    BY <1>1 DEF Mint, Typed
  <2>2. registry' \in [Sessions -> SUBSET (1..Len(sub'))]
    BY <1>1, <1>4 DEF Typed
  <2>3. call' \in [Threads -> [at : Places, with : 0..Len(sub')]]
    BY <1>1, <1>4, <1>5 DEF Typed, Places
  <2>4. relays' \subseteq 1..Len(sub')
    <3>1. n \in 1..Len(sub') /\ relays \subseteq 1..Len(sub) /\ 1..Len(sub) \subseteq 1..Len(sub')
      BY <1>1, <1>4 DEF Typed
    <3> QED
      BY <1>3, <3>1
  <2> QED
    BY <1>1, <1>4, <2>1, <2>2, <2>3, <2>4 DEF Typed
<1>7. /\ \A r \in Sessions : \A m \in registry[r] : m \in 1..Len(sub)
      /\ \A u \in Threads : call[u].with # 0 => call[u].with \in 1..Len(sub)
  BY <1>1 DEF Typed
<1>8. OnePlace'
  BY <1>1, <1>2, <1>4, <1>5, <1>7 DEF Owners, OnePlace
<1>9. Shut'
  BY <1>1, <1>5 DEF Owners, Shut
<1>10. Turns'
  <2>1. \A r \in Sessions : \A m \in registry'[r] : Len(sub'[m].talk) % 2 = 0
    BY <1>1, <1>4, <1>7 DEF Owners, Turns
  <2>2. ASSUME NEW u \in Threads, call'[u].with # 0
        PROVE  Stands(sub'[call'[u].with].talk, call'[u].at, u)
    <3>1. CASE u = t
      <4>1. sub'[call'[u].with].talk = <<>> /\ call'[u].at # "cycling"
        BY <1>2, <1>4, <1>5, <3>1
      <4> QED
        BY <4>1 DEF Stands
    <3>2. CASE u # t
      BY <1>1, <1>4, <1>5, <1>7, <2>2, <3>2 DEF Owners, Turns
    <3> QED
      BY <3>1, <3>2
  <2> QED
    BY <2>1, <2>2 DEF Turns
<1>11. OneConversation'
  <2> SUFFICES ASSUME NEW m \in DOMAIN sub' PROVE Proper(sub'[m].talk)
    BY DEF OneConversation, Proper
  <2>1. CASE m = n
    BY <1>2, <1>4, <2>1 DEF Proper
  <2>2. CASE m \in DOMAIN sub
    BY <1>1, <1>4, <2>2 DEF Owners, OneConversation, Proper
  <2> QED
    BY <1>1, <1>4, <2>1, <2>2
<1>12. /\ \A m \in relays : m \in 1..Len(sub) /\ sub'[m] = sub[m]
       /\ \A r \in Sessions : \A i \in DOMAIN parent[r] : parent[r][i][1] # n
  BY <1>1, <1>4 DEF Typed, Relays, Asked
<1>13. Asked'
  <2>1. \A r \in Sessions : \A i \in DOMAIN parent'[r] : parent'[r][i][1] \in 0..Len(sub')
    <3>1. 0..Len(sub) \subseteq 0..Len(sub')
      BY <1>1, <1>4
    <3> QED
      BY <1>1, <3>1 DEF Relays, Asked
  <2>2. ASSUME NEW m \in relays', NEW i \in DOMAIN parent'[sub'[m].session],
               parent'[sub'[m].session][i][1] = m
        PROVE  parent'[sub'[m].session][i][2] \in 1..sub'[m].sent
    <3>1. CASE m = n
      BY <1>1, <1>2, <1>4, <1>12, <2>2, <3>1
    <3>2. CASE m \in relays
      BY <1>1, <1>12, <2>2, <3>2 DEF Relays, Asked
    <3> QED
      BY <1>3, <3>1, <3>2
  <2> QED
    BY <2>1, <2>2 DEF Asked
<1>14. Relayed'
  <2> SUFFICES ASSUME NEW m \in relays'
               PROVE  /\ sub'[m].sent <= sub'[m].fetched
                      /\ sub'[m].seen <= Len(parent'[sub'[m].session])
                      /\ sub'[m].pending = {k \in 1..sub'[m].fetched : <<m, k>> \notin Read(m)'}
    BY DEF Relayed
  <2>1. CASE m = n
    BY <1>1, <1>2, <1>4, <2>1 DEF Typed
  <2>2. CASE m \in relays
    <3>1. Read(m)' = Read(m)
      BY <1>12, <2>2 DEF Read
    <3> QED
      BY <1>1, <1>12, <2>2, <3>1 DEF Relays, Relayed
  <2> QED
    BY <1>3, <2>1, <2>2
<1>15. Heard'
  <2> SUFFICES ASSUME NEW m \in relays' PROVE Hears(m)'
    BY DEF Heard
  <2>1. CASE m = n
    <3>1. DOMAIN parent[s] = 1..Len(parent[s]) /\ parent[s] \in Seq(Decision)
      BY <1>1 DEF Typed
    <3> QED
      BY <1>1, <1>2, <1>4, <1>12, <2>1, <3>1 DEF Hears, IsInjective
  <2>2. CASE m \in relays
    BY <1>1, <1>12, <2>2 DEF Relays, Heard, Hears
  <2> QED
    BY <1>3, <2>1, <2>2
<1> QED
  BY <1>6, <1>8, <1>9, <1>10, <1>11, <1>13, <1>14, <1>15 DEF SubInv, Owners, Relays

\* A call that goes idle, or creates a checkout: it is with nobody.
LEMMA LetGo ==
    ASSUME SubInv, NEW t \in Threads, NEW where \in {"idle", "creating"},
           call' = [call EXCEPT ![t] = [at |-> where, with |-> 0]],
           where = "creating" => t[1] \in open,
           UNCHANGED <<open, minted, registry, sub, parent, relays>>
    PROVE  SubInv'
<1>1. Typed /\ Owners /\ Relays
  BY DEF SubInv
<1>2. /\ call'[t].at = where /\ call'[t].with = 0
      /\ where = "idle" => call'[t] = Idle
      /\ \A u \in Threads : u # t => call'[u] = call[u]
  BY <1>1 DEF Typed, Idle
<1>3. Typed'
  BY <1>1, Place DEF Typed, Places
<1>4. OnePlace'
  BY <1>1, <1>2 DEF Owners, OnePlace
<1>5. Shut'
  BY <1>1, <1>2 DEF Owners, Shut
<1>6. Turns'
  BY <1>1, <1>2 DEF Owners, Turns
<1>7. OneConversation'
  BY <1>1 DEF Owners, OneConversation
<1>8. Relays'
  BY <1>1, Place, RelaysKept
<1> QED
  BY <1>3, <1>4, <1>5, <1>6, <1>7, <1>8 DEF SubInv, Owners

\* A follow-up takes the subagent out of the registry.
LEMMA ContinueKeeps ==
    ASSUME SubInv, NEW t \in Threads, NEW name, Continue(t, name)
    PROVE  SubInv'
<1> DEFINE s == t[1]
<1>1. /\ Typed /\ Owners /\ Relays /\ s \in Sessions /\ s \in open
      /\ UNCHANGED <<open, minted, sub, parent, relays>>
  BY Place DEF SubInv, Continue, held
<1>2. PICK n \in registry[s] : /\ registry' = [registry EXCEPT ![s] = Rest(s, n)]
                               /\ Go(t, "briefing", n)
  BY DEF Continue
<1>3. /\ n \in 1..Len(sub) /\ n # 0
      /\ call' = [call EXCEPT ![t] = [at |-> "briefing", with |-> n]]
      /\ call'[t].at = "briefing" /\ call'[t].with = n
      /\ \A u \in Threads : u # t => call'[u] = call[u]
  BY <1>1, <1>2 DEF Typed, Go
<1>4. /\ registry'[s] = registry[s] \ {n}
      /\ \A r \in Sessions : r # s => registry'[r] = registry[r]
      /\ \A r \in Sessions : registry'[r] \subseteq registry[r]
  BY <1>1, <1>2 DEF Typed, Rest
<1>5. Typed'
  <2>1. registry' \in [Sessions -> SUBSET (1..Len(sub))]
    BY <1>1, <1>2, <1>4 DEF Typed
  <2>2. call' \in [Threads -> [at : Places, with : 0..Len(sub)]]
    BY <1>1, <1>3, Place DEF Typed, Places
  <2> QED
    BY <1>1, <2>1, <2>2 DEF Typed
<1>6. OnePlace'
  BY <1>1, <1>3, <1>4 DEF Owners, OnePlace, Threads
<1>7. Shut'
  BY <1>1, <1>3, <1>4 DEF Owners, Shut
<1>8. Turns'
  <2>1. \A u \in Threads : call'[u].with # 0 => Stands(sub[call'[u].with].talk, call'[u].at, u)
    <3>1. Stands(sub[n].talk, "briefing", t)
      BY <1>1 DEF Owners, Turns, Stands
    <3> QED
      BY <1>1, <1>3, <3>1 DEF Owners, Turns
  <2> QED
    BY <1>1, <1>4, <2>1 DEF Owners, Turns
<1>9. OneConversation'
  BY <1>1 DEF Owners, OneConversation
<1>10. Relays'
  BY <1>1, Place, RelaysKept
<1> QED
  BY <1>5, <1>6, <1>7, <1>8, <1>9, <1>10 DEF SubInv, Owners

\* A call writes a line in the conversation of the subagent it works with.
LEMMA Speaks ==
    ASSUME SubInv, NEW t \in Threads, NEW where \in {"cycling", "reporting"},
           call[t].at \in {"briefing", "cycling"},
           UNCHANGED <<open, minted, registry, parent, relays>>,
           Go(t, where, call[t].with),
           NEW r \in Subagent, sub' = [sub EXCEPT ![call[t].with] = r],
           LET n == call[t].with IN
           /\ r.session = sub[n].session /\ r.seen = sub[n].seen
           /\ r.fetched = sub[n].fetched /\ r.sent = sub[n].sent
           /\ r.pending = sub[n].pending /\ r.heard = sub[n].heard,
           Proper(r.talk), Stands(r.talk, where, t)
    PROVE  SubInv'
<1> DEFINE n == call[t].with
<1>1. /\ Typed /\ Owners /\ Relays /\ n # 0 /\ n \in 1..Len(sub)
  BY AtWork DEF SubInv, Owners
<1>2. /\ sub' \in Seq(Subagent) /\ Len(sub') = Len(sub) /\ DOMAIN sub' = DOMAIN sub
      /\ sub'[n] = r /\ \A m \in 1..Len(sub) : m # n => sub'[m] = sub[m]
      /\ DOMAIN sub = 1..Len(sub) /\ Len(sub) \in Nat
  BY <1>1, Written
<1>3. /\ call' = [call EXCEPT ![t] = [at |-> where, with |-> n]]
      /\ call'[t].at = where /\ call'[t].with = n
      /\ \A u \in Threads : u # t => call'[u] = call[u]
      /\ \A u \in Threads : call'[u].with = call[u].with
  BY <1>1 DEF Typed, Go
<1>4. \A m \in 1..Len(sub) : sub'[m].session = sub[m].session
  BY <1>2
<1>5. /\ \A q \in Sessions : registry[q] \subseteq 1..Len(sub) /\ (\A m \in registry[q] : m # n)
      /\ \A u \in Threads : call[u].with # 0 => call[u].with \in 1..Len(sub)
      /\ \A u \in Threads : u # t /\ call[u].with # 0 => call[u].with # n
  <2>1. \A u \in Threads : call[u].with # 0 => call[u].with \in 1..Len(sub)
    BY <1>1, AtWork DEF Owners, OnePlace
  <2>2. \A q \in Sessions : registry[q] \subseteq 1..Len(sub)
    BY <1>1 DEF Typed
  <2>3. \A q \in Sessions : \A m \in registry[q] : m # n
    BY <1>1 DEF Owners, OnePlace
  <2>4. \A u \in Threads : u # t /\ call[u].with # 0 => call[u].with # n
    BY <1>1 DEF Owners, OnePlace
  <2> QED
    BY <2>1, <2>2, <2>3, <2>4
<1>6. Typed'
  <2>1. call' \in [Threads -> [at : Places, with : 0..Len(sub)]]
    BY <1>1, <1>3, Place DEF Typed, Places
  <2> QED
    BY <1>1, <1>2, <2>1 DEF Typed
<1>7. OnePlace'
  BY <1>1, <1>3, <1>4, <1>5 DEF Owners, OnePlace
<1>8. Shut'
  <2>1. \A q \in Sessions \ open : call[t] # Idle => t[1] # q
    BY <1>1 DEF Owners, Shut
  <2>2. call[t] # Idle
    BY DEF Idle
  <2> QED
    BY <1>1, <1>3, <2>1, <2>2 DEF Owners, Shut
<1>9. Turns'
  <2>1. \A q \in Sessions : \A m \in registry'[q] : Len(sub'[m].talk) % 2 = 0
    BY <1>1, <1>2, <1>5 DEF Owners, Turns
  <2>2. ASSUME NEW u \in Threads, call'[u].with # 0
        PROVE  Stands(sub'[call'[u].with].talk, call'[u].at, u)
    <3>1. CASE u = t
      BY <1>2, <1>3, <3>1
    <3>2. CASE u # t
      BY <1>1, <1>2, <1>3, <1>5, <2>2, <3>2 DEF Owners, Turns
    <3> QED
      BY <3>1, <3>2
  <2> QED
    BY <2>1, <2>2 DEF Turns
<1>10. OneConversation'
  <2> SUFFICES ASSUME NEW m \in DOMAIN sub' PROVE Proper(sub'[m].talk)
    BY DEF OneConversation, Proper
  <2>1. CASE m = n
    BY <1>2, <2>1
  <2>2. CASE m # n
    BY <1>1, <1>2, <2>2 DEF Owners, OneConversation, Proper
  <2> QED
    BY <2>1, <2>2
<1>11. Relays'
  <2>1. \A m \in relays' :
               /\ sub'[m].session = sub[m].session /\ sub'[m].seen = sub[m].seen
               /\ sub'[m].fetched = sub[m].fetched /\ sub'[m].sent = sub[m].sent
               /\ sub'[m].pending = sub[m].pending /\ sub'[m].heard = sub[m].heard
    BY <1>1, <1>2 DEF Typed
  <2> QED
    BY <1>1, <1>2, <2>1, RelaysKept
<1> QED
  BY <1>6, <1>7, <1>8, <1>9, <1>10, <1>11 DEF SubInv, Owners

\* A message follows a report.
LEMMA BriefKeeps ==
    ASSUME SubInv, NEW t \in Threads, Brief(t)
    PROVE  SubInv'
<1> DEFINE n == call[t].with
           r == [sub[n] EXCEPT !.talk = Append(@, <<"user", t>>)]
<1>1. /\ Typed /\ Owners /\ n # 0 /\ n \in 1..Len(sub) /\ sub[n] \in Subagent
      /\ Stands(sub[n].talk, "briefing", t)
  BY AtWork DEF SubInv, Brief, Owners, Turns
<1>2. Proper(sub[n].talk) /\ sub[n].talk \in Seq(Line) /\ Len(sub[n].talk) % 2 = 0
  BY <1>1, Place DEF Owners, OneConversation, Proper, Subagent, Stands
<1>3. /\ Append(sub[n].talk, <<"user", t>>) \in Seq(Line)
      /\ Proper(Append(sub[n].talk, <<"user", t>>))
      /\ Stands(Append(sub[n].talk, <<"user", t>>), "cycling", t)
  BY <1>2, Said DEF Stands
<1>4. /\ r \in Subagent /\ r.talk = Append(sub[n].talk, <<"user", t>>)
      /\ r.session = sub[n].session /\ r.seen = sub[n].seen
      /\ r.fetched = sub[n].fetched /\ r.sent = sub[n].sent
      /\ r.pending = sub[n].pending /\ r.heard = sub[n].heard
  BY <1>1, <1>3 DEF Subagent
<1>5. sub' = [sub EXCEPT ![n] = r]
  BY DEF Brief
<1>6. /\ Go(t, "cycling", n) /\ UNCHANGED <<open, minted, registry, parent, relays>>
      /\ call[t].at = "briefing"
  BY DEF Brief, held, shelf
<1> HIDE DEF r
<1> QED
  BY <1>3, <1>4, <1>5, <1>6, Speaks

\* The report is by the call that sent the message.
LEMMA EndTurnKeeps ==
    ASSUME SubInv, NEW t \in Threads, EndTurn(t)
    PROVE  SubInv'
<1> DEFINE n == call[t].with
           r == [sub[n] EXCEPT !.turns = @ + 1, !.talk = Append(@, <<"report", t>>)]
<1>1. /\ Typed /\ Owners /\ n # 0 /\ n \in 1..Len(sub) /\ sub[n] \in Subagent
      /\ Stands(sub[n].talk, "cycling", t)
  BY AtWork DEF SubInv, EndTurn, Owners, Turns
<1>2. /\ Proper(sub[n].talk) /\ sub[n].talk \in Seq(Line) /\ Len(sub[n].talk) % 2 = 1
      /\ sub[n].talk[Len(sub[n].talk)] = <<"user", t>>
  BY <1>1, Place DEF Owners, OneConversation, Proper, Subagent, Stands
<1>3. /\ Append(sub[n].talk, <<"report", t>>) \in Seq(Line)
      /\ Proper(Append(sub[n].talk, <<"report", t>>))
      /\ Stands(Append(sub[n].talk, <<"report", t>>), "reporting", t)
  BY <1>2, Reported DEF Stands
<1>4. /\ r \in Subagent /\ r.talk = Append(sub[n].talk, <<"report", t>>)
      /\ r.session = sub[n].session /\ r.seen = sub[n].seen
      /\ r.fetched = sub[n].fetched /\ r.sent = sub[n].sent
      /\ r.pending = sub[n].pending /\ r.heard = sub[n].heard
  <2>1. sub[n].turns + 1 \in Nat
    BY <1>1, Fields
  <2> QED
    BY <1>1, <1>3, <2>1 DEF Subagent
<1>5. sub' = [sub EXCEPT ![n] = r]
  BY DEF EndTurn
<1>6. /\ Go(t, "reporting", n) /\ UNCHANGED <<open, minted, registry, parent, relays>>
      /\ call[t].at = "cycling"
  BY DEF EndTurn, held, shelf
<1> HIDE DEF r
<1> QED
  BY <1>3, <1>4, <1>5, <1>6, Speaks

\* A subagent is put back in its one place; whom it displaces is nowhere.
LEMMA InsertKeeps ==
    ASSUME SubInv, NEW t \in Threads, Insert(t)
    PROVE  SubInv'
<1> DEFINE s == t[1]
           n == call[t].with
<1>1. /\ Typed /\ Owners /\ Relays /\ s \in Sessions /\ n # 0 /\ n \in 1..Len(sub)
      /\ call[t].at = "reporting" /\ UNCHANGED <<open, minted, sub, parent, relays>>
  BY Place, AtWork DEF SubInv, Insert, Owners
<1>2. PICK out \in Retired(s) : registry' = [registry EXCEPT ![s] = (@ \ out) \cup {n}]
  BY DEF Insert
<1>3. /\ call' = [call EXCEPT ![t] = Idle] /\ call'[t] = Idle
      /\ \A u \in Threads : u # t => call'[u] = call[u]
  BY <1>1 DEF Typed, Insert
<1>4. /\ registry'[s] = (registry[s] \ out) \cup {n}
      /\ \A q \in Sessions : q # s => registry'[q] = registry[q]
  BY <1>1, <1>2 DEF Typed
<1>5. Typed'
  <2>1. registry' \in [Sessions -> SUBSET (1..Len(sub))]
    BY <1>1, <1>2, <1>4 DEF Typed
  <2>2. call' \in [Threads -> [at : Places, with : 0..Len(sub)]]
    BY <1>1, <1>3, Place DEF Typed, Places, Idle
  <2> QED
    BY <1>1, <2>1, <2>2 DEF Typed
<1>6. Idle.with = 0 /\ Idle.at = "idle"
  BY DEF Idle
<1>7. OnePlace'
  <2>1. \A q \in Sessions : \A m \in registry'[q] : sub[m].session = q
    BY <1>1, <1>4 DEF Owners, OnePlace
  <2>2. \A u \in Threads : u # t /\ call[u].with # 0 => call[u].with \notin registry'[u[1]]
    <3>1. \A u \in Threads : u # t /\ call[u].with # 0 => call[u].with # n
      BY <1>1 DEF Owners, OnePlace
    <3> QED
      BY <1>1, <1>4, <3>1 DEF Owners, OnePlace, Threads
  <2> QED
    BY <1>1, <1>3, <1>6, <2>1, <2>2 DEF Owners, OnePlace
<1>8. Shut'
  <2>1. call[t] # Idle
    BY <1>1 DEF Idle
  <2>2. s \in open
    BY <1>1, <2>1 DEF Owners, Shut
  <2> QED
    BY <1>1, <1>3, <1>4, <2>2 DEF Owners, Shut
<1>9. Turns'
  <2>1. Len(sub[n].talk) % 2 = 0
    BY <1>1 DEF Owners, Turns, Stands
  <2> QED
    BY <1>1, <1>3, <1>4, <1>6, <2>1 DEF Owners, Turns
<1>10. OneConversation'
  BY <1>1 DEF Owners, OneConversation
<1>11. Relays'
  BY <1>1, Place, RelaysKept
<1> QED
  BY <1>5, <1>7, <1>8, <1>9, <1>10, <1>11 DEF SubInv, Owners

\* A call starts, makes a checkout or not, asks, or is dropped.
LEMMA CallKeeps ==
    ASSUME SubInv, NEW t \in Threads, CallStep(t)
    PROVE  SubInv'
<1>1. Typed /\ Owners /\ Relays
  BY DEF SubInv
<1>2. ASSUME NEW isolated \in Isolation, Start(t, isolated)
      PROVE  SubInv'
  <2>1. call[t].with = 0 /\ t[1] \in open /\ UNCHANGED <<open, registry, parent>>
    BY <1>2 DEF Start, Idle, held
  <2>2. CASE isolated
    BY <1>2, <2>1, <2>2, LetGo DEF Start, Go
  <2>3. CASE ~isolated
    BY <1>2, <2>1, <2>3, MintKeeps DEF Start
  <2> QED
    BY <2>2, <2>3
<1>3. ASSUME Created(t) PROVE SubInv'
  <2>1. call[t].with = 0 /\ UNCHANGED <<open, registry, parent>> /\ call[t] # Idle
    BY <1>1, <1>3 DEF Created, Owners, OnePlace, held, Idle
  <2>2. t[1] \in open
    BY <1>1, <2>1, Place DEF Owners, Shut
  <2> QED
    BY <1>3, <2>1, <2>2, MintKeeps DEF Created
<1>4. CASE CreateFails(t)
  BY <1>4, LetGo DEF CreateFails, Idle, held, shelf
<1>5. ASSUME NEW p \in told[t[1]], Continue(t, p[1]) PROVE SubInv'
  BY <1>5, ContinueKeeps
<1>6. CASE Brief(t)
  BY <1>6, BriefKeeps
<1>7. ASSUME Ask(t) PROVE SubInv'
  <2> DEFINE n == call[t].with
             r == [sub[n] EXCEPT !.asked = @ + 1]
  <2>1. n # 0 /\ n \in 1..Len(sub) /\ sub[n] \in Subagent
    BY <1>1, <1>7, AtWork DEF Ask, Owners
  <2>2. /\ r \in Subagent /\ r.talk = sub[n].talk
        /\ r.session = sub[n].session /\ r.seen = sub[n].seen
        /\ r.fetched = sub[n].fetched /\ r.sent = sub[n].sent
        /\ r.pending = sub[n].pending /\ r.heard = sub[n].heard
    <3>1. sub[n].asked + 1 \in Nat
      BY <2>1, Fields
    <3> QED
      BY <2>1, <3>1 DEF Subagent
  <2>3. sub' = [sub EXCEPT ![n] = r]
    BY <1>7 DEF Ask
  <2> HIDE DEF r
  <2>4. /\ sub' \in Seq(Subagent) /\ Len(sub') = Len(sub) /\ DOMAIN sub' = DOMAIN sub
        /\ sub'[n] = r /\ \A m \in 1..Len(sub) : m # n => sub'[m] = sub[m]
        /\ DOMAIN sub = 1..Len(sub) /\ Len(sub) \in Nat
    BY <1>1, <2>1, <2>2, <2>3, Written
  <2>5. UNCHANGED <<open, minted, registry, call, parent, relays>>
    BY <1>7 DEF Ask, held, shelf
  <2>6. Typed'
    BY <1>1, <2>4, <2>5 DEF Typed
  <2>7. Owners'
    BY <1>1, <2>2, <2>4, <2>5, OwnersKept
  <2>8. \A m \in relays' :
               /\ sub'[m].session = sub[m].session /\ sub'[m].seen = sub[m].seen
               /\ sub'[m].fetched = sub[m].fetched /\ sub'[m].sent = sub[m].sent
               /\ sub'[m].pending = sub[m].pending /\ sub'[m].heard = sub[m].heard
    BY <1>1, <2>2, <2>4, <2>5 DEF Typed
  <2>9. Relays'
    BY <1>1, <2>4, <2>5, <2>8, RelaysKept
  <2> QED
    BY <2>6, <2>7, <2>9 DEF SubInv
<1>8. CASE EndTurn(t)
  BY <1>8, EndTurnKeeps
<1>9. CASE Insert(t)
  BY <1>9, InsertKeeps
<1>10. CASE Drop(t)
  BY <1>10, LetGo DEF Drop, Idle
<1> QED
  BY <1>2, <1>3, <1>4, <1>5, <1>6, <1>7, <1>8, <1>9, <1>10 DEF CallStep

-----------------------------------------------------------------------------
(* The steps of a relay, and the user's.                                   *)

\* What the invariant says of one relay.
LEMMA OneRelay ==
    ASSUME SubInv, NEW n \in relays
    PROVE  LET bus == parent[sub[n].session] IN
           /\ n \in 1..Len(sub) /\ n # 0 /\ sub[n] \in Subagent
           /\ bus \in Seq(Decision) /\ DOMAIN bus = 1..Len(bus) /\ Len(bus) \in Nat
           /\ sub[n].sent <= sub[n].fetched /\ sub[n].seen <= Len(bus)
           /\ sub[n].pending = {k \in 1..sub[n].fetched : <<n, k>> \notin Before(bus, sub[n].seen)}
           /\ \A i \in 1..Len(bus) : bus[i][1] = n => bus[i][2] \in 1..sub[n].sent
           /\ Hears(n)
<1>1. n \in 1..Len(sub) /\ n # 0 /\ sub[n] \in Subagent
  BY DEF SubInv, Typed
<1>2. parent[sub[n].session] \in Seq(Decision)
  BY <1>1, Fields DEF SubInv, Typed
<1>3. \A i \in DOMAIN parent[sub[n].session] :
         parent[sub[n].session][i][1] = n => parent[sub[n].session][i][2] \in 1..sub[n].sent
  BY DEF SubInv, Relays, Asked
<1>4. /\ sub[n].sent <= sub[n].fetched /\ sub[n].seen <= Len(parent[sub[n].session])
      /\ sub[n].pending = {k \in 1..sub[n].fetched : <<n, k>> \notin Read(n)}
      /\ Hears(n)
  BY DEF SubInv, Relays, Relayed, Heard
<1> QED
  BY <1>1, <1>2, <1>3, <1>4 DEF Read

\* A relay moves on, and nothing else.
LEMMA RelayMoves ==
    ASSUME SubInv, NEW n \in relays, NEW r \in Subagent, sub' = [sub EXCEPT ![n] = r],
           UNCHANGED <<open, minted, registry, call, parent, relays>>,
           r.session = sub[n].session, r.talk = sub[n].talk, r.sent >= sub[n].sent,
           r.sent <= r.fetched, r.seen <= Len(parent[r.session]),
           r.pending = {k \in 1..r.fetched : <<n, k>> \notin Before(parent[r.session], r.seen)},
           Hears(n)'
    PROVE  SubInv'
<1>1. /\ Typed /\ Owners /\ Relays /\ n \in 1..Len(sub) /\ sub[n] \in Subagent
  BY OneRelay DEF SubInv
<1>2. /\ sub' \in Seq(Subagent) /\ Len(sub') = Len(sub) /\ DOMAIN sub' = DOMAIN sub
      /\ sub'[n] = r /\ \A m \in 1..Len(sub) : m # n => sub'[m] = sub[m]
      /\ DOMAIN sub = 1..Len(sub) /\ Len(sub) \in Nat
  BY <1>1, Written
<1>3. Typed'
  BY <1>1, <1>2 DEF Typed
<1>4. Owners'
  BY <1>1, <1>2, OwnersKept
<1>5. \A m \in relays : m \in 1..Len(sub) /\ (m # n => sub'[m] = sub[m])
  BY <1>1, <1>2 DEF Typed
<1>6. Asked'
  <2>1. \A s \in Sessions : \A i \in DOMAIN parent'[s] : parent'[s][i][1] \in 0..Len(sub')
    BY <1>1, <1>2 DEF Relays, Asked
  <2>2. ASSUME NEW m \in relays', NEW i \in DOMAIN parent'[sub'[m].session],
               parent'[sub'[m].session][i][1] = m
        PROVE  parent'[sub'[m].session][i][2] \in 1..sub'[m].sent
    <3>1. parent[sub[m].session][i][2] \in 1..sub[m].sent
      BY <1>1, <1>2, <1>5, <2>2 DEF Relays, Asked
    <3>2. CASE m = n
      <4>1. sub[n].sent \in Nat /\ r.sent \in Nat
        BY <1>1, Fields
      <4> QED
        BY <1>2, <3>1, <3>2, <4>1
    <3> QED
      BY <1>5, <3>1, <3>2
  <2> QED
    BY <2>1, <2>2 DEF Asked
<1>7. Relayed'
  <2> SUFFICES ASSUME NEW m \in relays'
               PROVE  /\ sub'[m].sent <= sub'[m].fetched
                      /\ sub'[m].seen <= Len(parent'[sub'[m].session])
                      /\ sub'[m].pending = {k \in 1..sub'[m].fetched : <<m, k>> \notin Read(m)'}
    BY DEF Relayed
  <2>1. CASE m = n
    <3>1. Read(n)' = Before(parent[r.session], r.seen)
      BY <1>2 DEF Read, Before
    <3> QED
      BY <1>2, <2>1, <3>1
  <2>2. CASE m # n
    <3>1. Read(m)' = Read(m)
      BY <1>5, <2>2 DEF Read
    <3> QED
      BY <1>1, <1>5, <2>2, <3>1 DEF Relays, Relayed
  <2> QED
    BY <2>1, <2>2
<1>8. Heard'
  <2> SUFFICES ASSUME NEW m \in relays', m # n PROVE Hears(m)'
    BY DEF Heard
  <2> QED
    BY <1>1, <1>5 DEF Relays, Heard, Hears
<1> QED
  BY <1>3, <1>4, <1>6, <1>7, <1>8 DEF SubInv, Relays

\* A request is noted before anybody can have decided on it.
LEMMA FetchKeeps ==
    ASSUME SubInv, NEW n \in relays, Fetch(n)
    PROVE  SubInv'
<1> DEFINE bus == parent[sub[n].session]
           k == sub[n].fetched + 1
           r == [sub[n] EXCEPT !.fetched = k, !.pending = Noted(n)]
<1>1. /\ n \in 1..Len(sub) /\ n # 0 /\ sub[n] \in Subagent
      /\ bus \in Seq(Decision) /\ DOMAIN bus = 1..Len(bus) /\ Len(bus) \in Nat
      /\ sub[n].sent = sub[n].fetched /\ sub[n].seen <= Len(bus)
      /\ sub[n].pending = {j \in 1..sub[n].fetched : <<n, j>> \notin Before(bus, sub[n].seen)}
      /\ \A i \in 1..Len(bus) : bus[i][1] = n => bus[i][2] \in 1..sub[n].sent
      /\ Hears(n)
  BY OneRelay DEF Fetch
<1>2. /\ sub[n].fetched \in Nat /\ sub[n].seen \in Nat /\ sub[n].pending \subseteq Nat
      /\ sub[n].sent \in Nat /\ k \in Nat
  BY <1>1, Fields
<1>3. <<n, k>> \notin Before(bus, sub[n].seen)
  <2> SUFFICES ASSUME NEW i \in 1..sub[n].seen, bus[i] = <<n, k>> PROVE FALSE
    BY DEF Before
  <2>1. i \in 1..Len(bus) /\ bus[i][1] = n /\ bus[i][2] = k
    BY <1>1, <1>2
  <2> QED
    BY <1>1, <1>2, <2>1
<1>4. Noted(n) = {j \in 1..k : <<n, j>> \notin Before(bus, sub[n].seen)}
  <2>1. 1..k = (1..sub[n].fetched) \cup {k}
    BY <1>2
  <2> QED
    BY <1>1, <1>3, <2>1 DEF Noted
<1>5. /\ r \in Subagent /\ r.talk = sub[n].talk /\ r.session = sub[n].session
      /\ r.seen = sub[n].seen /\ r.fetched = k /\ r.sent = sub[n].sent
      /\ r.pending = Noted(n) /\ r.heard = sub[n].heard
  <2>1. Noted(n) \subseteq Nat
    BY <1>2 DEF Noted
  <2> QED
    BY <1>1, <1>2, <2>1 DEF Subagent
<1>6. sub' = [sub EXCEPT ![n] = r]
  BY DEF Fetch
<1>7. UNCHANGED <<open, minted, registry, call, parent, relays>>
  BY DEF Fetch, held, shelf
<1> HIDE DEF r
<1>8. sub'[n] = r
  BY <1>1, <1>5, <1>6, Written DEF SubInv
<1>9. Hears(n)'
  BY <1>1, <1>5, <1>7, <1>8 DEF Hears
<1>10. r.sent >= sub[n].sent /\ r.sent <= r.fetched
  BY <1>1, <1>2, <1>5
<1> HIDE DEF k
<1> QED
  BY <1>1, <1>4, <1>5, <1>6, <1>7, <1>9, <1>10, RelayMoves

\* A request is passed on after it was read.
LEMMA ForwardKeeps ==
    ASSUME SubInv, NEW n \in relays, Forward(n)
    PROVE  SubInv'
<1> DEFINE bus == parent[sub[n].session]
           r == [sub[n] EXCEPT !.sent = @ + 1]
<1>1. /\ n \in 1..Len(sub) /\ sub[n] \in Subagent /\ sub[n].seen <= Len(bus)
      /\ sub[n].pending = {j \in 1..sub[n].fetched : <<n, j>> \notin Before(bus, sub[n].seen)}
      /\ Hears(n) /\ sub[n].sent < sub[n].fetched
  BY OneRelay DEF Forward
<1>2. sub[n].fetched \in Nat /\ sub[n].sent \in Nat /\ sub[n].sent + 1 \in Nat
  BY <1>1, Fields
<1>3. /\ r \in Subagent /\ r.talk = sub[n].talk /\ r.session = sub[n].session
      /\ r.seen = sub[n].seen /\ r.fetched = sub[n].fetched /\ r.sent = sub[n].sent + 1
      /\ r.pending = sub[n].pending /\ r.heard = sub[n].heard
  BY <1>1, <1>2 DEF Subagent
<1>4. sub' = [sub EXCEPT ![n] = r]
  BY DEF Forward
<1>5. UNCHANGED <<open, minted, registry, call, parent, relays>>
  BY DEF Forward, held, shelf
<1> HIDE DEF r
<1>6. sub'[n] = r
  BY <1>1, <1>3, <1>4, Written DEF SubInv
<1>7. Hears(n)'
  BY <1>1, <1>3, <1>5, <1>6 DEF Hears
<1>8. r.sent >= sub[n].sent /\ r.sent <= r.fetched
  BY <1>1, <1>2, <1>3
<1> QED
  BY <1>1, <1>3, <1>4, <1>5, <1>7, <1>8, RelayMoves

\* A decision is passed on if it is the first on a request of the subagent's.
LEMMA InboundKeeps ==
    ASSUME SubInv, NEW n \in relays, Inbound(n)
    PROVE  SubInv'
<1> DEFINE bus == parent[sub[n].session]
           j == sub[n].seen + 1
           d == bus[j]
           heard == sub[n].heard
           pending == IF Mine(n, d) THEN sub[n].pending \ {d[2]} ELSE sub[n].pending
           longer == IF Mine(n, d) THEN Append(heard, d) ELSE heard
           r == [sub[n] EXCEPT !.seen = j, !.pending = pending, !.heard = longer]
<1>1. /\ n \in 1..Len(sub) /\ n # 0 /\ sub[n] \in Subagent
      /\ bus \in Seq(Decision) /\ DOMAIN bus = 1..Len(bus) /\ Len(bus) \in Nat
      /\ sub[n].sent <= sub[n].fetched /\ sub[n].seen <= Len(bus)
      /\ sub[n].pending = {k \in 1..sub[n].fetched : <<n, k>> \notin Before(bus, sub[n].seen)}
      /\ \A i \in 1..Len(bus) : bus[i][1] = n => bus[i][2] \in 1..sub[n].sent
      /\ Hears(n) /\ sub[n].seen < Len(bus)
  BY OneRelay DEF Inbound
<1>2. /\ sub[n].fetched \in Nat /\ sub[n].seen \in Nat /\ sub[n].pending \subseteq Nat
      /\ sub[n].sent \in Nat /\ j \in Nat /\ heard \in Seq(Decision)
  BY <1>1, Fields
<1>3. /\ j \in 1..Len(bus) /\ d \in Decision /\ 1..j = (1..sub[n].seen) \cup {j}
      /\ j \notin 1..sub[n].seen
  BY <1>1, <1>2
<1>4. d = <<d[1], d[2]>> /\ d[1] \in Nat /\ d[2] \in Nat
  BY <1>3 DEF Decision
<1>5. Before(bus, j) = Before(bus, sub[n].seen) \cup {d}
  BY <1>3 DEF Before
<1>6. d[1] = n => d[2] \in 1..sub[n].fetched
  <2>1. d[1] = n => d[2] \in 1..sub[n].sent
    BY <1>1, <1>3
  <2> HIDE DEF d
  <2> QED
    BY <1>1, <1>2, <2>1
<1>7. pending = {k \in 1..sub[n].fetched : <<n, k>> \notin Before(bus, j)}
  <2>1. \A k \in 1..sub[n].fetched : <<n, k>> = d <=> d[1] = n /\ d[2] = k
    <3> HIDE DEF d
    <3> QED
      BY <1>4
  <2>2. \A k \in 1..sub[n].fetched : k \in sub[n].pending <=> <<n, k>> \notin Before(bus, sub[n].seen)
    BY <1>1
  <2>3. sub[n].pending \subseteq 1..sub[n].fetched
    BY <1>1
  <2> HIDE DEF d, j
  <2>4. \A k \in 1..sub[n].fetched : k \in pending <=> <<n, k>> \notin Before(bus, j)
    BY <1>5, <2>1, <2>2 DEF Mine
  <2> QED
    BY <2>3, <2>4
<1>8. /\ r \in Subagent /\ r.talk = sub[n].talk /\ r.session = sub[n].session
      /\ r.seen = j /\ r.fetched = sub[n].fetched /\ r.sent = sub[n].sent
      /\ r.pending = pending /\ r.heard = longer
  <2>1. pending \subseteq Nat /\ longer \in Seq(Decision)
    BY <1>2, <1>3
  <2> HIDE DEF pending, longer, j
  <2> QED
    BY <1>1, <1>2, <2>1 DEF Subagent
<1>9. sub' = [sub EXCEPT ![n] = r]
  BY DEF Inbound
<1>10. UNCHANGED <<open, minted, registry, call, parent, relays>>
  BY DEF Inbound, held, shelf
<1> HIDE DEF r
<1>11. sub'[n] = r
  BY <1>1, <1>8, <1>9, Written DEF SubInv
<1>12. /\ \A i \in DOMAIN longer :
             longer[i][1] = n /\ \E k \in 1..j : bus[k] = longer[i]
       /\ \A i \in 1..j : bus[i][1] = n => \E k \in DOMAIN longer : longer[k] = bus[i]
       /\ IsInjective(longer)
  <2>1. /\ \A i \in DOMAIN heard :
             heard[i][1] = n /\ \E k \in 1..sub[n].seen : bus[k] = heard[i]
        /\ \A i \in 1..sub[n].seen : bus[i][1] = n => \E k \in DOMAIN heard : heard[k] = bus[i]
        /\ IsInjective(heard)
    BY <1>1 DEF Hears
  <2>2. CASE Mine(n, d)
    <3>1. d[1] = n /\ d \notin Before(bus, sub[n].seen)
      BY <1>1, <1>4, <2>2 DEF Mine
    <3>2. /\ longer = Append(heard, d) /\ Len(heard) \in Nat
          /\ DOMAIN longer = 1..(Len(heard) + 1) /\ DOMAIN heard = 1..Len(heard)
          /\ longer[Len(heard) + 1] = d
          /\ \A i \in 1..Len(heard) : longer[i] = heard[i]
      BY <1>2, <1>3, <2>2
    <3> HIDE DEF longer, bus, j, d, heard
    <3>3. ASSUME NEW i \in 1..Len(heard), heard[i] = d
          PROVE  FALSE
      <4>1. PICK k \in 1..sub[n].seen : bus[k] = heard[i]
        BY <2>1, <3>2, <3>3
      <4>2. d \in Before(bus, sub[n].seen)
        BY <3>3, <4>1 DEF Before
      <4> QED
        BY <3>1, <4>2
    <3>4. DOMAIN longer = DOMAIN heard \cup {Len(heard) + 1}
      <4>1. PICK l \in Nat : l = Len(heard)
        BY <3>2
      <4>2. 1..(l + 1) = (1..l) \cup {l + 1}
        BY <4>1
      <4> QED
        BY <3>2, <4>1, <4>2
    <3>5. IsInjective(longer)
      BY <2>1, <3>2, <3>3, <3>4 DEF IsInjective
    <3>6. \A i \in DOMAIN longer : longer[i][1] = n /\ \E k \in 1..j : bus[k] = longer[i]
      BY <1>3, <2>1, <3>1, <3>2, <3>4 DEF d
    <3>7. \A i \in 1..j : bus[i][1] = n => \E k \in DOMAIN longer : longer[k] = bus[i]
      BY <1>3, <2>1, <3>2, <3>4 DEF d
    <3> QED
      BY <3>5, <3>6, <3>7
  <2>3. CASE ~Mine(n, d)
    <3>1. longer = heard
      BY <2>3
    <3>2. d[1] = n => d \in Before(bus, sub[n].seen)
      BY <1>1, <1>4, <1>6, <2>3 DEF Mine
    <3>3. d[1] = n => \E k \in DOMAIN heard : heard[k] = d
      BY <2>1, <3>2 DEF Before
    <3> HIDE DEF longer, bus, j, heard
    <3> QED
      BY <1>3, <2>1, <3>1, <3>3
  <2> QED
    BY <2>2, <2>3
<1> HIDE DEF longer, pending
<1>13. Hears(n)'
  BY <1>8, <1>10, <1>11, <1>12 DEF Hears
<1>14. r.sent >= sub[n].sent /\ r.sent <= r.fetched /\ r.seen <= Len(bus)
  BY <1>1, <1>2, <1>8
<1> HIDE DEF j
<1> QED
  BY <1>1, <1>7, <1>8, <1>9, <1>10, <1>13, <1>14, RelayMoves

\* A decision is on a request that was passed on, or on one of the session's own.
LEMMA DecideKeeps ==
    ASSUME SubInv, NEW s \in Sessions, NEW n \in 0..Len(sub), NEW k \in 1..MaxAsks,
           Decide(s, n, k)
    PROVE  SubInv'
<1> DEFINE d == <<n, k>>
<1>1. /\ Typed /\ Owners /\ Relays /\ Len(sub) \in Nat
      /\ UNCHANGED <<open, minted, registry, sub, call, relays>>
  BY DEF SubInv, Typed, Decide, shelf, held
<1>2. d \in Decision
  BY <1>1, BoundsAssumption DEF Decision
<1>3. /\ parent' = [parent EXCEPT ![s] = Append(@, d)]
      /\ n # 0 => n \in relays /\ sub[n].session = s /\ k <= sub[n].sent
  BY DEF Decide
<1>4. /\ parent[s] \in Seq(Decision) /\ Len(parent[s]) \in Nat
      /\ DOMAIN parent[s] = 1..Len(parent[s])
      /\ parent'[s] \in Seq(Decision) /\ Len(parent'[s]) = Len(parent[s]) + 1
      /\ DOMAIN parent'[s] = 1..(Len(parent[s]) + 1)
      /\ parent'[s][Len(parent[s]) + 1] = d
      /\ \A i \in 1..Len(parent[s]) : parent'[s][i] = parent[s][i]
      /\ \A r \in Sessions : r # s => parent'[r] = parent[r]
  <2> HIDE DEF d
  <2> QED
    BY <1>1, <1>2, <1>3 DEF Typed
<1>5. Typed'
  <2>1. parent' \in [Sessions -> Seq(Decision)]
    BY <1>1, <1>3, <1>4 DEF Typed
  <2> QED
    BY <1>1, <2>1 DEF Typed
<1>6. Owners'
  BY <1>1, OwnersKept
<1>7. \A m \in relays :
          /\ sub[m].session \in Sessions /\ sub[m].seen \in Nat /\ m # 0
          /\ sub[m].sent \in Nat
          /\ sub[m].seen <= Len(parent[sub[m].session])
          /\ parent[sub[m].session] \in Seq(Decision)
  BY <1>1, OneRelay, Fields
<1>8. \A m \in relays : \A i \in 1..sub[m].seen :
          parent'[sub[m].session][i] = parent[sub[m].session][i]
  <2> SUFFICES ASSUME NEW m \in relays, NEW i \in 1..sub[m].seen
               PROVE  parent'[sub[m].session][i] = parent[sub[m].session][i]
    OBVIOUS
  <2>1. i \in 1..Len(parent[sub[m].session])
    BY <1>7
  <2>2. CASE sub[m].session = s
    BY <1>4, <2>1, <2>2
  <2>3. CASE sub[m].session # s
    BY <1>4, <1>7, <2>3
  <2> QED
    BY <2>2, <2>3
<1>9. Asked'
  <2>1. \A r \in Sessions : \A i \in DOMAIN parent'[r] : parent'[r][i][1] \in 0..Len(sub)
    <3>1. d[1] \in 0..Len(sub)
      OBVIOUS
    <3> HIDE DEF d
    <3>2. \A r \in Sessions : \A i \in DOMAIN parent[r] : parent[r][i][1] \in 0..Len(sub)
      BY <1>1 DEF Relays, Asked
    <3> SUFFICES ASSUME NEW r \in Sessions, NEW i \in DOMAIN parent'[r]
                 PROVE  parent'[r][i][1] \in 0..Len(sub)
      OBVIOUS
    <3>3. CASE r # s
      BY <1>4, <3>2, <3>3
    <3>4. CASE r = s /\ i = Len(parent[s]) + 1
      BY <1>4, <3>1, <3>4
    <3>5. CASE r = s /\ i # Len(parent[s]) + 1
      <4>1. i \in 1..Len(parent[s])
        BY <1>4, <3>5
      <4> QED
        BY <1>4, <3>2, <3>5, <4>1
    <3> QED
      BY <3>3, <3>4, <3>5
  <2>2. ASSUME NEW m \in relays, NEW i \in DOMAIN parent'[sub[m].session],
               parent'[sub[m].session][i][1] = m
        PROVE  parent'[sub[m].session][i][2] \in 1..sub[m].sent
    <3>1. CASE i \in DOMAIN parent[sub[m].session]
      <4>1. parent'[sub[m].session][i] = parent[sub[m].session][i]
        BY <1>4, <1>7, <3>1
      <4> QED
        BY <1>1, <2>2, <3>1, <4>1 DEF Relays, Asked
    <3>2. CASE i \notin DOMAIN parent[sub[m].session]
      <4>1. sub[m].session = s /\ i = Len(parent[s]) + 1 /\ parent'[s][i] = d
        BY <1>4, <1>7, <2>2, <3>2, SMTT(20)
      <4>2. m = n /\ k <= sub[n].sent
        BY <1>3, <1>7, <2>2, <4>1
      <4> QED
        BY <1>7, <4>1, <4>2
    <3> QED
      BY <3>1, <3>2
  <2> QED
    BY <1>1, <2>1, <2>2 DEF Asked
<1>10. Relayed'
  <2> SUFFICES ASSUME NEW m \in relays
               PROVE  /\ sub[m].sent <= sub[m].fetched
                      /\ sub[m].seen <= Len(parent'[sub[m].session])
                      /\ sub[m].pending = {j \in 1..sub[m].fetched : <<m, j>> \notin Read(m)'}
    BY <1>1 DEF Relayed
  <2>1. Read(m)' = Read(m)
    BY <1>1, <1>8 DEF Read, Before
  <2>2. sub[m].seen <= Len(parent'[sub[m].session])
    BY <1>4, <1>7, SMTT(20)
  <2> QED
    BY <1>1, <2>1, <2>2 DEF Relays, Relayed
<1>11. Heard'
  <2> SUFFICES ASSUME NEW m \in relays PROVE Hears(m)'
    BY <1>1 DEF Heard
  <2>1. Hears(m)
    BY <1>1 DEF Relays, Heard
  <2> QED
    BY <1>1, <1>8, <2>1 DEF Hears
<1> QED
  BY <1>5, <1>6, <1>9, <1>10, <1>11 DEF SubInv, Relays

-----------------------------------------------------------------------------
(* Sessions that open and end.                                             *)

\* A session opens with no subagents.
LEMMA OpenKeeps ==
    ASSUME SubInv, NEW s \in Sessions, Open(s)
    PROVE  SubInv'
<1>1. /\ Typed /\ Owners /\ Relays /\ UNCHANGED <<registry, sub, call, parent, relays>>
      /\ open' = open \cup {s} /\ minted' = [minted EXCEPT ![s] = 0]
  BY DEF SubInv, Open
<1>2. Typed'
  BY <1>1 DEF Typed
<1>3. OnePlace' /\ Shut' /\ Turns' /\ OneConversation'
  BY <1>1 DEF Owners, OnePlace, Shut, Turns, OneConversation
<1>4. Relays'
  <2>1. Len(sub) \in Nat
    BY <1>1 DEF Typed
  <2> QED
    BY <1>1, <2>1, RelaysKept
<1> QED
  BY <1>2, <1>3, <1>4 DEF SubInv, Owners

\* The subagents of a session that ends are emptied, and the others left as they are.
LEMMA Emptied ==
    ASSUME Typed, NEW s \in Sessions, Ended(s)
    PROVE  /\ sub' \in Seq(Subagent) /\ Len(sub') = Len(sub) /\ DOMAIN sub' = DOMAIN sub
           /\ \A n \in 1..Len(sub) : /\ sub'[n].session = sub[n].session
                                     /\ sub'[n].isolated = sub[n].isolated
                                     /\ sub[n].session # s => sub'[n] = sub[n]
                                     /\ sub[n].session = s => sub'[n].talk = <<>>
<1> DEFINE new(n) == IF sub[n].session = s
                       THEN Fresh(s, sub[n].name, sub[n].isolated, sub[n].seen) ELSE sub[n]
<1>1. sub' = [n \in DOMAIN sub |-> new(n)] /\ DOMAIN sub = 1..Len(sub) /\ Len(sub) \in Nat
  BY DEF Ended, Typed
<1>2. \A n \in DOMAIN sub : /\ new(n) \in Subagent /\ new(n).session = sub[n].session
                            /\ new(n).isolated = sub[n].isolated
                            /\ sub[n].session # s => new(n) = sub[n]
                            /\ sub[n].session = s => new(n).talk = <<>>
  <2> SUFFICES ASSUME NEW n \in DOMAIN sub
               PROVE  /\ new(n) \in Subagent /\ new(n).session = sub[n].session
                      /\ new(n).isolated = sub[n].isolated
                      /\ sub[n].session # s => new(n) = sub[n]
                      /\ sub[n].session = s => new(n).talk = <<>>
    OBVIOUS
  <2>1. sub[n] \in Subagent
    BY DEF Typed
  <2>2. CASE sub[n].session = s
    BY <2>1, <2>2 DEF Fresh, Subagent
  <2>3. CASE sub[n].session # s
    BY <2>1, <2>3
  <2> QED
    BY <2>2, <2>3
<1> HIDE DEF new
<1>3. sub' \in Seq(Subagent) /\ Len(sub') = Len(sub)
  BY <1>1, <1>2
<1> QED
  BY <1>1, <1>2, <1>3

\* The subagents of a session that ends are nowhere, the others where they were.
LEMMA EndedKeeps ==
    ASSUME SubInv, NEW s \in Sessions, Ended(s)
    PROVE  SubInv'
<1>1. /\ Typed /\ Owners /\ Relays /\ parent' = parent /\ minted' = minted
      /\ open' = open \ {s} /\ registry' = [registry EXCEPT ![s] = {}]
      /\ call' = [t \in Threads |-> IF t[1] = s THEN Idle ELSE call[t]]
      /\ relays' = {n \in relays : sub[n].session # s}
  BY DEF SubInv, Ended
<1>2. /\ sub' \in Seq(Subagent) /\ Len(sub') = Len(sub) /\ DOMAIN sub' = DOMAIN sub
      /\ \A n \in 1..Len(sub) : /\ sub'[n].session = sub[n].session
                                /\ sub[n].session # s => sub'[n] = sub[n]
                                /\ sub[n].session = s => sub'[n].talk = <<>>
      /\ DOMAIN sub = 1..Len(sub) /\ Len(sub) \in Nat
  BY <1>1, Emptied DEF Typed
<1>3. Idle \in [at : Places, with : 0..Len(sub)] /\ Idle.with = 0 /\ Idle.at = "idle"
  BY <1>2 DEF Idle, Places
<1>4. Typed'
  <2>1. registry' \in [Sessions -> SUBSET (1..Len(sub))]
    BY <1>1 DEF Typed
  <2>2. call' \in [Threads -> [at : Places, with : 0..Len(sub)]]
    BY <1>1, <1>3 DEF Typed
  <2> QED
    BY <1>1, <1>2, <2>1, <2>2 DEF Typed
<1>5. /\ registry'[s] = {} /\ \A r \in Sessions : r # s => registry'[r] = registry[r]
      /\ \A t \in Threads : IF t[1] = s THEN call'[t] = Idle ELSE call'[t] = call[t]
      /\ \A r \in Sessions : registry[r] \subseteq 1..Len(sub)
      /\ \A t \in Threads : call[t].with # 0 => call[t].with \in 1..Len(sub)
  BY <1>1, <1>2, AtWork DEF Typed, Owners, OnePlace
<1>6. OnePlace'
  <2>1. \A r \in Sessions : \A n \in registry'[r] : sub'[n].session = r
    BY <1>1, <1>2, <1>5 DEF Owners, OnePlace
  <2>2. ASSUME NEW t \in Threads
        PROVE  /\ call'[t].with = 0 <=> call'[t].at \in {"idle", "creating"}
               /\ call'[t].with # 0 =>
                      /\ sub'[call'[t].with].session = t[1]
                      /\ call'[t].with \notin registry'[t[1]]
    <3>1. CASE t[1] = s
      BY <1>3, <1>5, <3>1
    <3>2. CASE t[1] # s
      BY <1>1, <1>2, <1>5, <3>2 DEF Owners, OnePlace, Threads
    <3> QED
      BY <3>1, <3>2
  <2>3. \A t, u \in Threads : call'[t].with = call'[u].with /\ call'[t].with # 0 => t = u
    BY <1>1, <1>3, <1>5 DEF Owners, OnePlace
  <2> QED
    BY <2>1, <2>2, <2>3 DEF OnePlace
<1>7. Shut'
  BY <1>1, <1>5 DEF Owners, Shut
<1>8. Turns'
  <2>1. ASSUME NEW r \in Sessions, NEW n \in registry'[r]
        PROVE  Len(sub'[n].talk) % 2 = 0
    <3>1. r # s /\ n \in registry[r]
      BY <1>5
    <3>2. sub[n].session = r /\ n \in 1..Len(sub)
      BY <1>1, <1>5, <3>1 DEF Owners, OnePlace
    <3>3. sub'[n] = sub[n]
      BY <1>2, <3>1, <3>2
    <3> QED
      BY <1>1, <3>1, <3>3 DEF Owners, Turns
  <2>2. ASSUME NEW t \in Threads, call'[t].with # 0
        PROVE  Stands(sub'[call'[t].with].talk, call'[t].at, t)
    <3>1. t[1] # s /\ call'[t] = call[t]
      BY <1>3, <1>5, <2>2
    <3>2. sub'[call[t].with] = sub[call[t].with]
      BY <1>1, <1>2, <1>5, <2>2, <3>1 DEF Owners, OnePlace
    <3> QED
      BY <1>1, <2>2, <3>1, <3>2 DEF Owners, Turns
  <2> QED
    BY <2>1, <2>2 DEF Turns
<1>9. OneConversation'
  <2> SUFFICES ASSUME NEW m \in DOMAIN sub' PROVE Proper(sub'[m].talk)
    BY DEF OneConversation, Proper
  <2>1. CASE sub[m].session = s
    BY <1>2, <2>1 DEF Proper
  <2>2. CASE sub[m].session # s
    BY <1>1, <1>2, <2>2 DEF Owners, OneConversation, Proper
  <2> QED
    BY <2>1, <2>2
<1>10. Relays'
  <2>1. \A n \in relays' : n \in 1..Len(sub) /\ sub'[n] = sub[n]
    BY <1>1, <1>2 DEF Typed
  <2> QED
    BY <1>1, <1>2, <2>1, RelaysKept
<1> QED
  BY <1>4, <1>6, <1>7, <1>8, <1>9, <1>10 DEF SubInv, Owners

-----------------------------------------------------------------------------
(* The invariant.                                                          *)

\* There are no subagents.
LEMMA InitHolds == Init => SubInv
<1> SUFFICES ASSUME Init PROVE SubInv
  OBVIOUS
<1>1. /\ sub = <<>> /\ Len(sub) = 0 /\ DOMAIN sub = {} /\ relays = {} /\ open = {}
      /\ registry = [s \in Sessions |-> {}] /\ call = [t \in Threads |-> Idle]
      /\ parent = [s \in Sessions |-> <<>>] /\ minted = [s \in Sessions |-> 0]
  BY DEF Init
<1>2. Typed
  BY <1>1 DEF Typed, Idle, Places
<1>3. Owners
  BY <1>1 DEF Owners, OnePlace, Shut, Turns, OneConversation, Idle
<1>4. Relays
  BY <1>1 DEF Relays, Asked, Relayed, Heard
<1> QED
  BY <1>2, <1>3, <1>4 DEF SubInv

\* Every step keeps the invariant.
LEMMA StepKeeps == ASSUME SubInv, [Next]_vars PROVE SubInv'
<1>1. ASSUME NEW t \in Threads, CallStep(t) PROVE SubInv'
  BY <1>1, CallKeeps
<1>2. ASSUME NEW n \in relays, Fetch(n) \/ Forward(n) \/ Inbound(n) PROVE SubInv'
  BY <1>2, FetchKeeps, ForwardKeeps, InboundKeeps
<1>3. ASSUME NEW s \in Sessions, Open(s) \/ Close(s) \/ Crash(s) PROVE SubInv'
  BY <1>3, OpenKeeps, EndedKeeps DEF Close, Crash
<1>4. ASSUME NEW s \in Sessions, NEW n \in 0..Len(sub), NEW k \in 1..MaxAsks, Decide(s, n, k)
      PROVE  SubInv'
  BY <1>4, DecideKeeps
<1>5. CASE UNCHANGED vars
  <2>1. Typed'
    BY <1>5 DEF vars, SubInv, Typed
  <2>2. Owners'
    BY <1>5, OwnersKept DEF vars, SubInv
  <2>3. Relays'
    <3>1. Len(sub) \in Nat /\ relays' = relays /\ parent' = parent /\ sub' = sub
      BY <1>5 DEF vars, SubInv, Typed
    <3> QED
      BY <3>1, RelaysKept DEF SubInv
  <2> QED
    BY <2>1, <2>2, <2>3 DEF SubInv
<1> QED
  BY <1>1, <1>2, <1>3, <1>4, <1>5 DEF Next

\* What makes the properties below inductive: where subagents are, how their
\* conversations stand, and what their relays wait on.
THEOREM SubagentInvariant == Spec => []SubInv
<1>1. SubInv /\ [Next]_vars => SubInv'
  BY StepKeeps
<1> QED
  BY <1>1, InitHolds, PTL DEF Spec

\* No two calls talk to one subagent at a time.
THEOREM ConversationsAreOne == Spec => []OneConversation
<1>1. SubInv => OneConversation
  BY DEF SubInv, Owners
<1> QED
  BY <1>1, SubagentInvariant, PTL

\* A subagent hears the first decision on each of its requests, and no other.
THEOREM AnswersArrive == Spec => []AnswersReachTheAsker
<1>1. SubInv => AnswersReachTheAsker
  <2> SUFFICES ASSUME SubInv, NEW n \in relays
               PROVE  LET bus == parent[sub[n].session] IN
                      /\ ToSet(sub[n].heard) =
                            {bus[i] : i \in {j \in 1..sub[n].seen : bus[j][1] = n}}
                      /\ IsInjective(sub[n].heard)
    BY DEF AnswersReachTheAsker
  <2>1. Hears(n)
    BY OneRelay
  <2> QED
    BY <2>1 DEF Hears, ToSet
<1> QED
  BY <1>1, SubagentInvariant, PTL

-----------------------------------------------------------------------------
(* The checkouts.                                                          *)

\* A subagent in a checkout has it or was swept of it; and a checkout has a subagent,
\* outlived a kill, or was left behind.
Kept ==
    /\ \A s \in Sessions : \A n \in registry[s] : sub[n].isolated => n \in disk \cup swept
    /\ \A t \in Threads : call[t].with # 0 /\ sub[call[t].with].isolated =>
           call[t].with \in disk \cup swept
    /\ \A n \in disk :
           \/ n \in lost \cup left
           \/ \E s \in Sessions : n \in registry[s]
           \/ n # 0 /\ \E t \in Threads : call[t].with = n

\* Who is owned by a session is in its registry or with one of its calls.
LEMMA OwnedBy ==
    ASSUME Typed, OnePlace, NEW s \in Sessions
    PROVE  /\ \A n : n \in Owned(s) <=>
                  \/ n \in registry[s]
                  \/ n # 0 /\ \E t \in Threads : t[1] = s /\ call[t].with = n
           /\ \A n \in Owned(s) : sub[n].session = s
<1>1. \A n : n \in Owned(s) <=>
          \/ n \in registry[s]
          \/ n # 0 /\ \E t \in Threads : t[1] = s /\ call[t].with = n
  BY DEF Owned, Working
<1> QED
  BY <1>1 DEF OnePlace

\* What the invariant says is what the property says.
LEMMA KeptMeans ==
    ASSUME Typed, OnePlace
    PROVE  Kept <=> CheckoutsFollowOwners
<1>1. \A n : n \in Alive <=>
          \/ \E s \in Sessions : n \in registry[s]
          \/ n # 0 /\ \E t \in Threads : call[t].with = n
  BY OwnedBy DEF Alive, Threads
<1>2. CheckoutsFollowOwners <=>
          /\ \A n \in Alive : sub[n].isolated => n \in disk \cup swept
          /\ \A n \in disk : n \in Alive \/ n \in lost \cup left
  BY DEF CheckoutsFollowOwners
<1> QED
  BY <1>1, <1>2 DEF Kept

\* A step that moves no subagent.
LEMMA CheckoutsStay ==
    ASSUME Typed, OnePlace, Kept, UNCHANGED <<registry, disk, lost, left, swept>>,
           \A t \in Threads : call'[t].with = call[t].with,
           \A n \in 1..Len(sub) : sub'[n].isolated = sub[n].isolated
    PROVE  Kept'
<1>1. /\ \A s \in Sessions : registry[s] \subseteq 1..Len(sub)
      /\ \A t \in Threads : call[t].with # 0 => call[t].with \in 1..Len(sub)
  BY AtWork DEF Typed, OnePlace
<1> QED
  BY <1>1 DEF Kept

\* A subagent is started, in a checkout that was made for it or in none.
LEMMA MintKept ==
    ASSUME Typed, OnePlace, Kept, NEW t \in Threads, NEW isolated \in BOOLEAN,
           Mint(t, isolated), call[t].with = 0,
           UNCHANGED <<registry, lost, left, swept>>,
           disk' = disk \cup (IF isolated THEN {Len(sub) + 1} ELSE {})
    PROVE  Kept'
<1> DEFINE n == Len(sub) + 1
           f == Fresh(t[1], minted[t[1]] + 1, isolated, Len(parent[t[1]]))
<1>1. /\ \A s \in Sessions : registry[s] \subseteq 1..Len(sub)
      /\ \A u \in Threads : call[u].with # 0 => call[u].with \in 1..Len(sub)
      /\ Len(sub) \in Nat
  BY AtWork DEF Typed, OnePlace
<1>2. f.isolated = isolated
  BY DEF Fresh
<1>3. sub' = Append(sub, f)
  BY DEF Mint
<1> HIDE DEF f
<1>4. sub'[n] = f /\ n # 0 /\ \A m \in 1..Len(sub) : sub'[m] = sub[m] /\ m # n
  BY <1>1, <1>3 DEF Typed
<1>5. call'[t].with = n /\ \A u \in Threads : u # t => call'[u] = call[u]
  BY DEF Mint, Go, Typed
<1>6. \A m \in disk' : m = n \/ m \in disk
  OBVIOUS
<1>7. disk \subseteq disk' /\ (isolated => n \in disk') /\ (n \in disk' => n \in disk \/ isolated)
  OBVIOUS
<1> QED
  BY <1>1, <1>2, <1>4, <1>5, <1>6, <1>7 DEF Kept

\* A subagent is taken out of the registry by the call that goes on with it.
LEMMA ContinueKept ==
    ASSUME Typed, OnePlace, Kept, NEW t \in Threads, NEW name, Continue(t, name)
    PROVE  Kept'
<1>1. PICK n \in registry[t[1]] :
          /\ registry' = [registry EXCEPT ![t[1]] = Rest(t[1], n)]
          /\ Go(t, "briefing", n)
  BY DEF Continue
<1>2. /\ t[1] \in Sessions /\ call[t].with = 0 /\ n \in 1..Len(sub) /\ n # 0
      /\ UNCHANGED <<sub, disk, lost, left, swept>>
  BY Place DEF Typed, Continue, Idle, held
<1>3. call'[t].with = n /\ \A u \in Threads : u # t => call'[u] = call[u]
  BY <1>1 DEF Go, Typed
<1>4. /\ \A m \in registry[t[1]] : m = n \/ m \in registry'[t[1]]
      /\ \A s \in Sessions : s # t[1] => registry'[s] = registry[s]
      /\ \A s \in Sessions : registry'[s] \subseteq registry[s]
  BY <1>1, <1>2 DEF Typed, Rest
<1> QED
  BY <1>1, <1>2, <1>3, <1>4 DEF Kept

\* Of the checkouts of subagents that are dropped, those are left that git failed to
\* remove; and what was in the making when its call was dropped.
LEMMA DroppedLeaves ==
    ASSUME NEW ns, NEW ts, Dropped(ns, ts)
    PROVE  /\ \A n : n \in disk /\ n \notin ns => n \in disk'
           /\ \A n \in disk' : n \in left' \/ (n \in disk /\ n \notin ns)
           /\ left \subseteq left'
<1>1. PICK kept \in SUBSET (ns \cap disk), late \in SUBSET Making(ts) :
          /\ disk' = (disk \ (ns \ kept)) \cup late
          /\ left' = left \cup kept \cup late
  BY DEF Dropped, Without
<1> QED
  BY <1>1

\* A subagent is put back, and the one it displaces goes with its checkout.
LEMMA InsertKept ==
    ASSUME Typed, OnePlace, Kept, NEW t \in Threads, Insert(t)
    PROVE  Kept'
<1> DEFINE s == t[1]
           n == call[t].with
<1>1. /\ s \in Sessions /\ n # 0 /\ n \in 1..Len(sub) /\ n \notin registry[s]
      /\ sub[n].session = s /\ UNCHANGED <<sub, lost, swept>>
  BY Place, AtWork DEF Insert, OnePlace
<1>2. PICK out \in Retired(s) :
          registry' = [registry EXCEPT ![s] = (@ \ out) \cup {n}] /\ Dropped(out, {})
  BY DEF Insert
<1>3. out \subseteq registry[s]
  BY <1>2 DEF Retired, Least
<1>4. /\ call'[t].with = 0 /\ \A u \in Threads : u # t => call'[u] = call[u]
      /\ \A q \in Sessions : q # s => registry'[q] = registry[q]
      /\ registry'[s] = (registry[s] \ out) \cup {n}
  BY <1>1, <1>2 DEF Insert, Idle, Typed
<1>5. /\ \A q \in Sessions : q # s => \A m \in registry[q] : m \notin out
      /\ \A u \in Threads : call[u].with # 0 => call[u].with \notin out
  BY <1>1, <1>3 DEF OnePlace
<1>6. /\ \A m : m \in disk /\ m \notin out => m \in disk'
      /\ \A m \in disk' : m \in left' \/ (m \in disk /\ m \notin out)
      /\ left \subseteq left'
  BY <1>2, DroppedLeaves
<1>7. \A q \in Sessions : \A m \in registry'[q] : sub'[m].isolated => m \in disk' \cup swept'
  BY <1>1, <1>3, <1>4, <1>5, <1>6 DEF Kept
<1>8. \A u \in Threads : call'[u].with # 0 /\ sub'[call'[u].with].isolated =>
          call'[u].with \in disk' \cup swept'
  BY <1>1, <1>4, <1>5, <1>6 DEF Kept
<1>9. \A m \in disk' :
          \/ m \in lost' \cup left'
          \/ \E q \in Sessions : m \in registry'[q]
          \/ m # 0 /\ \E u \in Threads : call'[u].with = m
  BY <1>1, <1>4, <1>6 DEF Kept
<1> QED
  BY <1>7, <1>8, <1>9 DEF Kept

\* A call that is dropped takes its subagent with it, and that its checkout.
LEMMA DropKept ==
    ASSUME Typed, OnePlace, Kept, NEW t \in Threads, Drop(t)
    PROVE  Kept'
<1> DEFINE n == call[t].with
<1>1. /\ UNCHANGED <<registry, sub, lost, swept>> /\ Dropped({n} \ {0}, {t})
      /\ call'[t].with = 0 /\ \A u \in Threads : u # t => call'[u] = call[u]
  BY DEF Drop, Idle, Typed
<1>2. /\ \A s \in Sessions : \A m \in registry[s] : m # n
      /\ \A u \in Threads : u # t /\ call[u].with # 0 => call[u].with # n
  <2>1. \A s \in Sessions : registry[s] \subseteq 1..Len(sub)
    BY DEF Typed
  <2>2. Len(sub) \in Nat
    BY DEF Typed
  <2> QED
    BY <2>1, <2>2 DEF OnePlace
<1>3. /\ \A m : m \in disk /\ m # n => m \in disk'
      /\ \A m \in disk' : m \in left' \/ (m \in disk /\ (m # n \/ m = 0))
      /\ left \subseteq left'
  BY <1>1, DroppedLeaves
<1> QED
  BY <1>1, <1>2, <1>3 DEF Kept

\* A session ends: its subagents go with their checkouts, or the process is killed.
LEMMA EndKept ==
    ASSUME Typed, OnePlace, Kept, NEW s \in Sessions, Close(s) \/ Crash(s)
    PROVE  Kept'
<1>1. /\ Ended(s) /\ swept' = swept /\ lost \subseteq lost' /\ left \subseteq left'
      /\ \A n : n \in disk /\ n \notin Owned(s) => n \in disk'
      /\ \A n \in disk' : n \in lost' \cup left' \/ (n \in disk /\ n \notin Owned(s))
  <2>1. Ended(s) /\ swept' = swept
    BY DEF Close, Crash, Ended
  <2>2. CASE Close(s)
    <3>1. Dropped(Owned(s), Own(s)) /\ lost' = lost
      BY <2>2 DEF Close
    <3> QED
      BY <2>1, <3>1, DroppedLeaves
  <2>3. CASE Crash(s)
    <3>1. Dropped({}, Own(s)) /\ lost' = lost \cup (Owned(s) \cap disk)
      BY <2>3 DEF Crash
    <3>2. /\ \A n : n \in disk /\ n \notin {} => n \in disk'
          /\ \A n \in disk' : n \in left' \/ (n \in disk /\ n \notin {})
          /\ left \subseteq left'
      BY <3>1, DroppedLeaves
    <3> QED
      BY <2>1, <3>1, <3>2
  <2> QED
    BY <2>2, <2>3
<1>2. /\ registry'[s] = {} /\ \A r \in Sessions : r # s => registry'[r] = registry[r]
      /\ \A t \in Threads : t[1] = s => call'[t].with = 0
      /\ \A t \in Threads : t[1] # s => call'[t] = call[t]
      /\ \A n \in 1..Len(sub) : sub'[n].isolated = sub[n].isolated
  BY <1>1, Emptied DEF Ended, Typed, Idle
<1>3. /\ \A r \in Sessions : registry[r] \subseteq 1..Len(sub)
      /\ \A t \in Threads : call[t].with # 0 => call[t].with \in 1..Len(sub)
  BY AtWork DEF Typed, OnePlace
<1>4. /\ \A r \in Sessions : \A n \in registry[r] : n \in Owned(s) <=> r = s
      /\ \A t \in Threads : call[t].with # 0 => (call[t].with \in Owned(s) <=> t[1] = s)
  BY OwnedBy DEF OnePlace
<1>5. \A r \in Sessions : \A n \in registry'[r] : sub'[n].isolated => n \in disk' \cup swept'
  <2> SUFFICES ASSUME NEW r \in Sessions, NEW n \in registry'[r], sub'[n].isolated
               PROVE  n \in disk' \cup swept'
    OBVIOUS
  <2>1. r # s /\ n \in registry[r] /\ n \notin Owned(s) /\ n \in disk \cup swept
    BY <1>2, <1>3, <1>4 DEF Kept
  <2> QED
    BY <1>1, <2>1
<1>6. \A t \in Threads : call'[t].with # 0 /\ sub'[call'[t].with].isolated =>
          call'[t].with \in disk' \cup swept'
  <2> SUFFICES ASSUME NEW t \in Threads, call'[t].with # 0, sub'[call'[t].with].isolated
               PROVE  call'[t].with \in disk' \cup swept'
    OBVIOUS
  <2>1. /\ t[1] # s /\ call'[t] = call[t] /\ call[t].with \notin Owned(s)
        /\ call[t].with \in disk \cup swept
    BY <1>2, <1>3, <1>4 DEF Kept
  <2> QED
    BY <1>1, <2>1
<1>7. \A n \in disk' :
          \/ n \in lost' \cup left'
          \/ \E r \in Sessions : n \in registry'[r]
          \/ n # 0 /\ \E t \in Threads : call'[t].with = n
  <2> SUFFICES ASSUME NEW n \in disk', n \notin lost' \cup left'
               PROVE  \/ \E r \in Sessions : n \in registry'[r]
                      \/ n # 0 /\ \E t \in Threads : call'[t].with = n
    OBVIOUS
  <2>1. n \in disk /\ n \notin lost \cup left /\ n \notin Owned(s)
    BY <1>1
  <2>2. \/ \E r \in Sessions : n \in registry[r]
        \/ n # 0 /\ \E t \in Threads : call[t].with = n
    BY <2>1 DEF Kept
  <2> QED
    BY <1>2, <1>4, <2>1, <2>2
<1> QED
  BY <1>5, <1>6, <1>7 DEF Kept

\* Opening a session sweeps the repository, also of what others' subagents work in.
LEMMA OpenKept ==
    ASSUME Typed, OnePlace, Kept, NEW s \in Sessions, Open(s)
    PROVE  Kept'
<1>1. /\ UNCHANGED <<registry, call, sub>>
      /\ disk' \subseteq disk /\ swept' = swept \cup ((disk \ disk') \cap Alive)
      /\ lost' = lost \cap disk' /\ left' = left \cap disk'
  <2>1. PICK kept \in SUBSET disk : disk' = disk \ (disk \ kept)
    BY DEF Open, Without
  <2> QED
    BY <2>1 DEF Open
<1>2. /\ \A r \in Sessions : \A n \in registry[r] : n \in Alive
      /\ \A t \in Threads : call[t].with # 0 => call[t].with \in Alive
  <2>1. \A r \in Sessions : Owned(r) \subseteq Alive
    BY DEF Alive
  <2>2. \A t \in Threads : t[1] \in Sessions
    BY Place
  <2> QED
    BY <2>1, <2>2, OwnedBy
<1> QED
  BY <1>1, <1>2 DEF Kept

\* Every step keeps the checkouts with their subagents.
LEMMA StepKept == ASSUME SubInv, Kept, [Next]_vars PROVE Kept'
<1>1. Typed /\ OnePlace /\ Shut
  BY DEF SubInv, Owners
<1>2. DOMAIN sub = 1..Len(sub) /\ \A n \in 1..Len(sub) : sub[n] \in Subagent
  BY <1>1 DEF Typed
<1>3. ASSUME NEW t \in Threads, CallStep(t) PROVE Kept'
  <2>1. ASSUME NEW isolated \in Isolation, Start(t, isolated) PROVE Kept'
    <3>1. call[t].with = 0 /\ UNCHANGED <<registry, disk, lost, left, swept>>
      BY <2>1 DEF Start, Idle, held
    <3>2. CASE isolated
      <4>1. sub' = sub /\ call' = [call EXCEPT ![t] = [at |-> "creating", with |-> 0]]
        BY <2>1, <3>2 DEF Start, Go
      <4>2. \A u \in Threads : call'[u].with = call[u].with
        BY <1>1, <3>1, <4>1 DEF Typed
      <4> QED
        BY <1>1, <3>1, <4>1, <4>2, CheckoutsStay
    <3>3. CASE ~isolated
      <4>1. Mint(t, FALSE)
        BY <2>1, <3>3 DEF Start
      <4> QED
        BY <1>1, <3>1, <4>1, MintKept
    <3> QED
      BY <3>2, <3>3
  <2>2. CASE Created(t)
    <3>1. call[t].with = 0 /\ UNCHANGED <<registry, lost, left, swept>>
      BY <1>1, <2>2 DEF Created, OnePlace, held
    <3>2. Mint(t, TRUE) /\ disk' = disk \cup {Len(sub) + 1}
      BY <2>2 DEF Created
    <3> QED
      BY <1>1, <3>1, <3>2, MintKept
  <2>3. CASE CreateFails(t)
    <3>1. /\ UNCHANGED <<registry, disk, lost, left, swept, sub>>
          /\ \A u \in Threads : call'[u].with = call[u].with
      BY <1>1, <2>3 DEF CreateFails, Idle, OnePlace, held, shelf, Typed
    <3> QED
      BY <1>1, <3>1, CheckoutsStay
  <2>4. ASSUME NEW p \in told[t[1]], Continue(t, p[1]) PROVE Kept'
    BY <1>1, <2>4, ContinueKept
  <2>5. CASE Brief(t)
    <3>1. /\ UNCHANGED <<registry, disk, lost, left, swept>>
          /\ \A u \in Threads : call'[u].with = call[u].with
      BY <1>1, <2>5 DEF Brief, Go, held, shelf, Typed
    <3>2. \A m \in 1..Len(sub) : sub'[m].isolated = sub[m].isolated
      BY <1>1, <1>2, <2>5 DEF Brief, Typed, Subagent
    <3> QED
      BY <1>1, <3>1, <3>2, CheckoutsStay
  <2>6. CASE Ask(t)
    <3>1. \A m \in 1..Len(sub) : sub'[m].isolated = sub[m].isolated
      BY <1>1, <1>2, <2>6 DEF Ask, Typed, Subagent
    <3> QED
      BY <1>1, <2>6, <3>1, CheckoutsStay DEF Ask, held, shelf
  <2>7. CASE EndTurn(t)
    <3>1. /\ UNCHANGED <<registry, disk, lost, left, swept>>
          /\ \A u \in Threads : call'[u].with = call[u].with
      BY <1>1, <2>7 DEF EndTurn, Go, held, shelf, Typed
    <3>2. \A m \in 1..Len(sub) : sub'[m].isolated = sub[m].isolated
      <4> DEFINE n == call[t].with
                 r == [sub[n] EXCEPT !.turns = @ + 1, !.talk = Append(@, <<"report", t>>)]
      <4>1. sub' = [sub EXCEPT ![n] = r]
        BY <2>7 DEF EndTurn
      <4>2. n \in DOMAIN sub => r.isolated = sub[n].isolated
        BY <1>2 DEF Subagent
      <4> HIDE DEF r
      <4> QED
        BY <1>2, <4>1, <4>2
    <3> QED
      BY <1>1, <3>1, <3>2, CheckoutsStay
  <2>8. CASE Insert(t)
    BY <1>1, <2>8, InsertKept
  <2>9. CASE Drop(t)
    BY <1>1, <2>9, DropKept
  <2> QED
    BY <1>3, <2>1, <2>2, <2>3, <2>4, <2>5, <2>6, <2>7, <2>8, <2>9 DEF CallStep
<1>4. ASSUME NEW n \in relays, Fetch(n) \/ Forward(n) \/ Inbound(n) PROVE Kept'
  <2>1. UNCHANGED <<registry, disk, lost, left, swept, call>>
    BY <1>4 DEF Fetch, Forward, Inbound, held, shelf
  <2>2. \A m \in 1..Len(sub) : sub'[m].isolated = sub[m].isolated
    <3>1. CASE Fetch(n)
      <4> DEFINE r == [sub[n] EXCEPT !.fetched = @ + 1, !.pending = Noted(n)]
      <4>1. sub' = [sub EXCEPT ![n] = r]
        BY <3>1 DEF Fetch
      <4>2. n \in DOMAIN sub => r.isolated = sub[n].isolated
        BY <1>2 DEF Subagent
      <4> HIDE DEF r
      <4> QED
        BY <1>2, <4>1, <4>2
    <3>2. CASE Forward(n)
      BY <1>1, <1>2, <3>2 DEF Forward, Typed, Subagent
    <3>3. CASE Inbound(n)
      <4> DEFINE d == parent[sub[n].session][sub[n].seen + 1]
                 r == [sub[n] EXCEPT
                        !.seen = @ + 1, !.pending = IF Mine(n, d) THEN @ \ {d[2]} ELSE @,
                        !.heard = IF Mine(n, d) THEN Append(@, d) ELSE @]
      <4>1. sub' = [sub EXCEPT ![n] = r]
        BY <3>3 DEF Inbound
      <4>2. n \in DOMAIN sub => r.isolated = sub[n].isolated
        BY <1>2 DEF Subagent
      <4> HIDE DEF r
      <4> QED
        BY <1>2, <4>1, <4>2
    <3> QED
      BY <1>4, <3>1, <3>2, <3>3
  <2> QED
    BY <1>1, <2>1, <2>2, CheckoutsStay
<1>5. ASSUME NEW s \in Sessions, Open(s) \/ Close(s) \/ Crash(s) PROVE Kept'
  BY <1>1, <1>5, OpenKept, EndKept
<1>6. ASSUME NEW s \in Sessions, NEW n \in 0..Len(sub), NEW k \in 1..MaxAsks, Decide(s, n, k)
      PROVE  Kept'
  BY <1>1, <1>6, CheckoutsStay DEF Decide, held, shelf
<1>7. CASE UNCHANGED vars
  BY <1>1, <1>7, CheckoutsStay DEF vars
<1> QED
  BY <1>3, <1>4, <1>5, <1>6, <1>7 DEF Next

\* A living subagent has its checkout unless an opening session swept it away, and only
\* a kill, a failure of git or a call dropped half way leaves one that nobody owns:
\* whatever the number of sessions on the repository.
THEOREM CheckoutsAreKept == Spec => []CheckoutsFollowOwners
<1>1. Init => Kept
  BY DEF Init, Kept, Idle
<1>2. SubInv /\ Kept /\ [Next]_vars => Kept'
  BY StepKept
<1>3. SubInv /\ Kept => CheckoutsFollowOwners
  BY KeptMeans DEF SubInv, Owners
<1> QED
  BY <1>1, <1>2, <1>3, SubagentInvariant, PTL DEF Spec
=============================================================================
