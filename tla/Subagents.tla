------------------------------- MODULE Subagents -------------------------------
(***************************************************************************)
(* The subagents of coding sessions (example-coding-agent/src/tools/       *)
(* task.rs): their registry, their conversations, the relay that carries   *)
(* their permission requests to the user, and the checkouts of the         *)
(* repository the isolated ones work in.                                   *)
(*                                                                         *)
(* A subagent is a number here, also after a restart; its name, by which   *)
(* the model calls it, is the number the registry minted. A request is     *)
(* <<n, k>>, the k-th of subagent n, or of the session itself when n is 0: *)
(* request ids are fresh UUIDs. What a subagent's cycle does besides       *)
(* asking is ToolCycle; its report and digest are text.                    *)
(*                                                                         *)
(* A definition marked "Slip" is not part of the model: it is a way to get *)
(* the definition after it wrong, kept to show that a property notices.    *)
(***************************************************************************)
EXTENDS Integers, Sequences, FiniteSets, SequencesExt

CONSTANTS
    Sessions,      \* the sessions on one repository, each a process of its own
    Calls,         \* the calls of the task tool a session may have under way
    Isolation,     \* what a call may say of a checkout of its own: TRUE, FALSE or either
    MaxLive,       \* MAX_LIVE, how many subagents stay resident
    MaxSubagents,  \* bound: subagents started
    MaxTurns,      \* bound: messages to one subagent
    MaxAsks,       \* bound: requests of one subagent
    MaxDecisions,  \* bound: decisions of the user
    MaxMishaps     \* bound: sessions opened and calls dropped half way

ASSUME BoundsAssumption ==
    /\ {MaxSubagents, MaxTurns, MaxAsks, MaxDecisions, MaxMishaps} \subseteq Nat
    /\ MaxLive \in Nat \ {0}
    /\ Isolation \subseteq BOOLEAN

VARIABLES
    open,      \* the sessions that are open
    minted,    \* SubagentRegistry::next
    registry,  \* SubagentRegistry::live: the subagents between two calls
    told,      \* the names a session's transcript gives, each with its subagent
    sub,       \* the subagents, in the order they were started
    call,      \* where each call is, and with which subagent
    parent,    \* the decisions on the session's bus
    relays,    \* the subagents whose relay runs
    disk,      \* the checkouts: each by its subagent, or 0, which no subagent was given
    lost,      \* history: the checkouts whose subagents died with the process
    left,      \* history: the checkouts their session left behind, alive
    swept,     \* history: the checkouts sweep_orphans took from living subagents
    mishaps    \* how many calls were dropped and sessions opened

vars == <<open, minted, registry, told, sub, call, parent, relays, disk, lost, left, swept,
          mishaps>>
held == <<open, told, lost, left, swept, mishaps>>
shelf == <<minted, registry, relays, disk>>

-----------------------------------------------------------------------------
Threads == Sessions \X Calls
Mishap == mishaps < MaxMishaps /\ mishaps' = mishaps + 1
Idle == [at |-> "idle", with |-> 0]
Go(t, where, n) == call' = [call EXCEPT ![t] = [at |-> where, with |-> n]]
Working(s) == {call[t].with : t \in {u \in Threads : u[1] = s}} \ {0}

\* The subagents whose Live value exists, in the registry or in a call.
Owned(s) == registry[s] \cup Working(s)
Alive == UNION {Owned(s) : s \in Sessions}

\* A subagent with an empty bus, and a relay that listens from a place on.
Fresh(s, name, isolated, from) ==
    [session |-> s, name |-> name, isolated |-> isolated, seen |-> from,
     turns |-> 0, talk |-> <<>>, asked |-> 0, fetched |-> 0,
     sent |-> 0, pending |-> {}, heard |-> <<>>]

\* mint, and a subagent with its relay in place.
Mint(t, isolated) ==
    LET s == t[1]
        n == Len(sub) + 1
    IN
    /\ n <= MaxSubagents
    /\ minted' = [minted EXCEPT ![s] = @ + 1]
    /\ sub' = Append(sub, Fresh(s, minted[s] + 1, isolated, Len(parent[s])))
    /\ relays' = relays \cup {n}
    /\ Go(t, "briefing", n)

\* The checkouts that are left when git removes those of some subagents, but for a few
\* it fails to remove.
\* Slip: nothing removes them.
Without_All(ns, kept) == disk
Without(ns, kept) == disk \ (ns \ kept)

\* What the calls in Worktree::create make: no subagent has it yet.
Making(ts) == {0 : t \in {u \in ts : call[u].at = "creating"}}

\* Live values are dropped: their checkouts go, or stay because git failed, of which
\* nobody hears; their relays stay, for a task is not stopped by dropping its handle.
\* With a future that is dropped in Worktree::create no value is dropped yet, and the
\* git command it waited for goes on: it may yet make the checkout, here at once.
Dropped(ns, ts) ==
    \E kept \in SUBSET (ns \cap disk), late \in SUBSET Making(ts) :
        /\ disk' = Without(ns, kept) \cup late
        /\ left' = left \cup kept \cup late

-----------------------------------------------------------------------------
(* Task::execute and continue_with.                                        *)

Start(t, isolated) ==
    /\ t[1] \in open
    /\ call[t] = Idle
    /\ IF isolated
       THEN Go(t, "creating", 0) /\ UNCHANGED <<minted, sub, relays>>
       ELSE Mint(t, FALSE)
    /\ UNCHANGED <<registry, parent, disk, held>>

\* Worktree::create returns.
Created(t) ==
    /\ call[t].at = "creating"
    /\ Mint(t, TRUE)
    /\ disk' = disk \cup {Len(sub) + 1}
    /\ UNCHANGED <<registry, parent, held>>

\* One of its git commands fails.
CreateFails(t) ==
    /\ call[t].at = "creating"
    /\ call' = [call EXCEPT ![t] = Idle]
    /\ UNCHANGED <<sub, parent, shelf, held>>

\* What is left in the registry while a subagent works.
\* Slip: it is looked up and not taken out.
Rest_All(s, n) == registry[s]
Rest(s, n) == registry[s] \ {n}

\* A follow-up, by a name of the transcript; one that is not found is an error.
Continue(t, name) ==
    LET s == t[1] IN
    /\ s \in open
    /\ call[t] = Idle
    /\ \E n \in registry[s] :
        /\ sub[n].name = name
        /\ sub[n].turns < MaxTurns
        /\ registry' = [registry EXCEPT ![s] = Rest(s, n)]
        /\ Go(t, "briefing", n)
    /\ UNCHANGED <<minted, sub, parent, relays, disk, held>>

\* run_turn: the message is published and the cycle begins.
Brief(t) ==
    /\ call[t].at = "briefing"
    /\ sub' = [sub EXCEPT ![call[t].with].talk = Append(@, <<"user", t>>)]
    /\ Go(t, "cycling", call[t].with)
    /\ UNCHANGED <<parent, shelf, held>>

\* The permission hook of the cycle asks, on the subagent's bus. It waits for the
\* decision or for its time to be up, which may be at once.
Ask(t) ==
    LET n == call[t].with IN
    /\ call[t].at = "cycling"
    /\ sub[n].asked < MaxAsks
    /\ sub' = [sub EXCEPT ![n].asked = @ + 1]
    /\ UNCHANGED <<call, parent, shelf, held>>

\* The cycle ends, with or without an error, and the turn is reported.
EndTurn(t) ==
    LET n == call[t].with IN
    /\ call[t].at = "cycling"
    /\ sub' = [sub EXCEPT ![n].turns = @ + 1, ![n].talk = Append(@, <<"report", t>>)]
    /\ Go(t, "reporting", n)
    /\ UNCHANGED <<parent, shelf, held>>

\* Whom an insertion into a full registry retires: one with the fewest turns.
Least(s) == {n \in registry[s] : \A m \in registry[s] : sub[n].turns <= sub[m].turns}
Retired(s) ==
    IF Cardinality(registry[s]) >= MaxLive THEN {{n} : n \in Least(s)} ELSE {{}}

\* The subagent is put back, and the call returns its name.
Insert(t) ==
    LET s == t[1]
        n == call[t].with
    IN
    /\ call[t].at = "reporting"
    /\ \E out \in Retired(s) :
        /\ registry' = [registry EXCEPT ![s] = (@ \ out) \cup {n}]
        /\ Dropped(out, {})
    /\ told' = [told EXCEPT ![s] = @ \cup {<<sub[n].name, n>>}]
    /\ call' = [call EXCEPT ![t] = Idle]
    /\ UNCHANGED <<open, minted, sub, parent, relays, lost, swept, mishaps>>

\* The call's future is dropped, and with it the subagent it works with.
Drop(t) ==
    /\ Mishap
    /\ call[t] # Idle
    /\ call' = [call EXCEPT ![t] = Idle]
    /\ Dropped({call[t].with} \ {0}, {t})
    /\ UNCHANGED <<open, minted, registry, told, sub, parent, relays, lost, swept>>

-----------------------------------------------------------------------------
(* bridge_permissions: a task for each direction, until the session's bus  *)
(* is closed.                                                              *)

\* The requests the relay waits on, with the one it has just read.
\* Slip: the relay does not note what it passes on.
Noted_Not(n) == sub[n].pending
Noted(n) == sub[n].pending \cup {sub[n].fetched + 1}

Fetch(n) ==
    /\ sub[n].fetched < sub[n].asked
    /\ sub[n].sent = sub[n].fetched
    /\ sub' = [sub EXCEPT ![n].fetched = @ + 1, ![n].pending = Noted(n)]
    /\ UNCHANGED <<call, parent, shelf, held>>

\* The request is on the session's bus, with the subagent's id.
Forward(n) ==
    /\ sub[n].sent < sub[n].fetched
    /\ sub' = [sub EXCEPT ![n].sent = @ + 1]
    /\ UNCHANGED <<call, parent, shelf, held>>

\* Whether a decision on the session's bus is passed on.
Mine(n, d) == d[1] = n /\ d[2] \in sub[n].pending

Inbound(n) ==
    LET bus == parent[sub[n].session]
        d == bus[sub[n].seen + 1]
    IN
    /\ sub[n].seen < Len(bus)
    /\ sub' = [sub EXCEPT ![n].seen = @ + 1,
                          ![n].pending = IF Mine(n, d) THEN @ \ {d[2]} ELSE @,
                          ![n].heard = IF Mine(n, d) THEN Append(@, d) ELSE @]
    /\ UNCHANGED <<call, parent, shelf, held>>

\* The user decides on a request that was passed on, or on one the session's own hook
\* made; two windows may both send a decision.
Decide(s, n, k) ==
    /\ s \in open
    /\ n # 0 => n \in relays /\ sub[n].session = s /\ k <= sub[n].sent
    /\ Len(parent[s]) < MaxDecisions
    /\ parent' = [parent EXCEPT ![s] = Append(@, <<n, k>>)]
    /\ UNCHANGED <<sub, call, shelf, held>>

-----------------------------------------------------------------------------
(* Sessions.                                                               *)

\* CodingSession::build: sweep_orphans removes every checkout of a subagent the
\* repository has, but for those git fails to list or to remove; the registry begins
\* empty and counts from one.
Open(s) ==
    /\ s \notin open
    /\ Mishap
    /\ open' = open \cup {s}
    /\ \E kept \in SUBSET disk : disk' = Without(disk, kept)
    /\ swept' = swept \cup ((disk \ disk') \cap Alive)
    /\ minted' = [minted EXCEPT ![s] = 0]
    /\ lost' = lost \cap disk'
    /\ left' = left \cap disk'
    /\ UNCHANGED <<registry, told, sub, call, parent, relays>>

\* The session is gone: its subagents go with it, their buses and relays too. That it
\* was closed a moment before (CodingSession::close), which ends the relays and writes
\* the log out, is not a step of its own.
Ended(s) ==
    /\ s \in open
    /\ open' = open \ {s}
    /\ registry' = [registry EXCEPT ![s] = {}]
    /\ call' = [t \in Threads |-> IF t[1] = s THEN Idle ELSE call[t]]
    /\ relays' = {n \in relays : sub[n].session # s}
    /\ sub' = [n \in DOMAIN sub |->
                 IF sub[n].session = s
                   THEN Fresh(s, sub[n].name, sub[n].isolated, sub[n].seen)
                   ELSE sub[n]]
    /\ UNCHANGED <<minted, told, parent, swept, mishaps>>

Own(s) == {t \in Threads : t[1] = s}

\* The session is dropped, and with it its registry and its calls.
Close(s) == Ended(s) /\ Dropped(Owned(s), Own(s)) /\ UNCHANGED lost

\* The process is killed: nothing is removed.
Crash(s) == Ended(s) /\ lost' = lost \cup (Owned(s) \cap disk) /\ Dropped({}, Own(s))

-----------------------------------------------------------------------------
Init ==
    /\ open = {}
    /\ minted = [s \in Sessions |-> 0]
    /\ registry = [s \in Sessions |-> {}]
    /\ told = [s \in Sessions |-> {}]
    /\ sub = <<>>
    /\ call = [t \in Threads |-> Idle]
    /\ parent = [s \in Sessions |-> <<>>]
    /\ relays = {}
    /\ disk = {}
    /\ lost = {}
    /\ left = {}
    /\ swept = {}
    /\ mishaps = 0

CallStep(t) ==
    \/ \E isolated \in Isolation : Start(t, isolated)
    \/ Created(t)
    \/ CreateFails(t)
    \/ \E p \in told[t[1]] : Continue(t, p[1])
    \/ Brief(t)
    \/ Ask(t)
    \/ EndTurn(t)
    \/ Insert(t)
    \/ Drop(t)

Next ==
    \/ \E t \in Threads : CallStep(t)
    \/ \E n \in relays : Fetch(n) \/ Forward(n) \/ Inbound(n)
    \/ \E s \in Sessions : Open(s) \/ Close(s) \/ Crash(s)
    \/ \E s \in Sessions, n \in 0..Len(sub), k \in 1..MaxAsks : Decide(s, n, k)

Spec == Init /\ [][Next]_vars

-----------------------------------------------------------------------------
(* What must hold.                                                         *)

\* A message to a subagent waits for the report on the one before: a subagent is
\* taken out of the registry while it works (continue_with), so that two calls of
\* one turn cannot talk to it at once.
OneConversation ==
    \A n \in DOMAIN sub : LET talk == sub[n].talk IN
        \A i \in DOMAIN talk :
            IF i % 2 = 1 THEN talk[i][1] = "user"
            ELSE talk[i] = <<"report", talk[i - 1][2]>>

\* What a subagent hears of the user's decisions is the first on each request of its
\* own, whoever else asks meanwhile; and none its relay has read is kept from it
\* (bridge_permissions).
AnswersReachTheAsker ==
    \A n \in relays : LET bus == parent[sub[n].session] IN
        /\ ToSet(sub[n].heard) =
                {bus[i] : i \in {j \in 1..sub[n].seen : bus[j][1] = n}}
        /\ IsInjective(sub[n].heard)

\* A living subagent that works in a checkout has it, unless a session that opened swept
\* it away; and a checkout outlives its subagent only if the process died, git failed to
\* remove it, or it came of a call dropped while it was made (Worktree, sweep_orphans).
CheckoutsFollowOwners ==
    /\ {n \in Alive : sub[n].isolated} \subseteq disk \cup swept
    /\ disk \subseteq Alive \cup lost \cup left

\* A living subagent that works in a checkout has it: the sweep finds none that is
\* anybody's ("when nothing of ours can legitimately own one", sweep_orphans). With a
\* second session on the repository it does.
NobodyIsSwept == {n \in Alive : sub[n].isolated} \subseteq disk

-----------------------------------------------------------------------------
(* What does not hold; no configuration checks it. See the README.         *)

\* A checkout outlives its subagent only if the process died: the drop of a Worktree
\* removes it, "on a normal teardown and on unwinding, but not after a SIGKILL". So may a
\* removal that fails and a call dropped in Worktree::create.
OnlyKillsLeaveCheckouts == disk \subseteq Alive \cup lost

\* A name the transcript gives is, of all subagents in the registry, the one's it was
\* given for: a follow-up reaches who did the work (SubagentRegistry::mint). After a
\* restart the names are given again.
NamesStayTheirs ==
    \A s \in Sessions : \A p \in told[s], n \in registry[s] :
        sub[n].name = p[1] => n = p[2]

=============================================================================
