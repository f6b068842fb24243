----------------------------- MODULE CodingProofs -----------------------------
(***************************************************************************)
(* That the turns of a coding session do not interleave, that its list of  *)
(* checkpoints goes with its log and that a rewind puts the files back,    *)
(* for any number of requests, files, prompts, rewinds, dropped requests   *)
(* and restarts.                                                           *)
(*                                                                         *)
(* The gate lets one request at a time be anything but idle, a new turn    *)
(* has a later number than all that were, and a turn that still publishes  *)
(* has its checkpoint on the log with nothing later on it.  A rewind cuts  *)
(* the log before a checkpoint, and what is left is a prefix of what was.  *)
(*                                                                         *)
(* A snapshot is of the tree its turn began on, so what a rewind no longer *)
(* has to do is as it was then.  Between its two halves a prompt has the   *)
(* one turn on the log that is not listed, and a rewind still has to cut   *)
(* the list where it has cut the log.                                      *)
(***************************************************************************)
EXTENDS CodingSession, FiniteSetTheorems, TLAPS

Phases == {"idle", "opened", "published", "cycling", "stopping", "rolled back", "restoring"}

Entry ==
    {Checkpoint(id) : id \in Nat} \cup {UserMessage(id) : id \in Nat}
        \cup {Written(id, f) : id \in Nat, f \in Files} \cup {Stopped(id) : id \in Nat}

Typed ==
    /\ log \in Seq(Entry)
    /\ phase \in [Callers -> Phases]
    /\ turn \in [Callers -> Nat]
    /\ used \in [turns : Nat, writes : Nat, rewinds : Nat, mishaps : Nat]

\* turn_gate: one request at a time.
Gate == \A c, d \in Callers : phase[c] # "idle" /\ phase[d] # "idle" => c = d

\* The turns on the log are turns that were begun.
Begun == \A i \in DOMAIN log : log[i].turn <= used.turns

\* The request is one whose turn may still publish.
InTurn(c) == phase[c] \in {"opened", "published", "cycling", "stopping"}

\* Its checkpoint is on the log, with nothing of a later turn.
Newest ==
    \A c \in Callers : InTurn(c) =>
        OnLog(turn[c]) /\ \A i \in DOMAIN log : log[i].turn <= turn[c]

GateInv == Typed /\ Gate /\ Begun /\ Newest /\ TurnsDoNotInterleave

-----------------------------------------------------------------------------
(* What is on the log.                                                     *)

\* Every event of the log has the number of its turn.
LEMMA TurnOfEntry == \A e \in Entry : e.turn \in Nat
BY DEF Entry, Checkpoint, UserMessage, Written, Stopped

\* An event of the newest turn is added.
LEMMA Appended ==
    ASSUME GateInv, NEW e \in Entry, log' = Append(log, e),
           e.turn <= used.turns', used.turns <= used.turns', used'.turns \in Nat,
           \A i \in DOMAIN log : log[i].turn <= e.turn,
           OnLog(e.turn) \/ e = Checkpoint(e.turn)
    PROVE  /\ log' \in Seq(Entry)
           /\ Begun'
           /\ TurnsDoNotInterleave'
           /\ OnLog(e.turn)'
           /\ \A i \in DOMAIN log' : log'[i].turn <= e.turn
<1>1. /\ log' \in Seq(Entry) /\ DOMAIN log' = 1..Len(log) + 1
      /\ \A i \in DOMAIN log : log'[i] = log[i]
      /\ log'[Len(log) + 1] = e
      /\ DOMAIN log = 1..Len(log) /\ Len(log) \in Nat
    BY DEF GateInv, Typed
<1>2. e.turn \in Nat
    BY TurnOfEntry
<1>3. \A i \in DOMAIN log : log[i].turn \in Nat
    BY TurnOfEntry DEF GateInv, Typed
<1>4. \A i \in DOMAIN log' : i \in DOMAIN log \/ i = Len(log) + 1
    BY <1>1
<1>5. Begun'
    <2>1. used.turns \in Nat
        BY DEF GateInv, Typed
    <2> QED
        BY <1>1, <1>2, <1>3, <1>4, <2>1 DEF GateInv, Begun
<1>6. \A i \in DOMAIN log' : log'[i].turn <= e.turn
    BY <1>1, <1>2, <1>4
<1>7. OnLog(e.turn)'
    BY <1>1 DEF OnLog
<1>8. TurnsDoNotInterleave'
    <2> SUFFICES ASSUME NEW i \in DOMAIN log'
                 PROVE  /\ \E j \in 1..i : log'[j] = Checkpoint(log'[i].turn)
                        /\ \A j \in 1..i : log'[j].turn <= log'[i].turn
        BY DEF TurnsDoNotInterleave, Checkpoint
    <2>1. CASE i \in DOMAIN log
        <3>1. \A j \in 1..i : j \in DOMAIN log
            BY <1>1, <2>1
        <3> QED
            BY <1>1, <2>1, <3>1 DEF GateInv, TurnsDoNotInterleave
    <2>2. CASE i = Len(log) + 1
        <3>1. \A j \in DOMAIN log' : j \in 1..i
            BY <1>1, <2>2
        <3>2. \A j \in 1..i : j \in DOMAIN log'
            BY <1>1, <2>2
        <3>3. PICK j \in DOMAIN log' : log'[j] = Checkpoint(e.turn)
            BY <1>7 DEF OnLog, Checkpoint
        <3> QED
            BY <1>1, <1>6, <2>2, <3>1, <3>2, <3>3
    <2> QED
        BY <1>4, <2>1, <2>2
<1> QED
    BY <1>1, <1>5, <1>6, <1>7, <1>8

\* What a rewind leaves of the log is as well ordered as the whole.
LEMMA CutShort ==
    ASSUME GateInv, NEW k \in 0..Len(log), log' = SubSeq(log, 1, k), used'.turns = used.turns
    PROVE  log' \in Seq(Entry) /\ Begun' /\ TurnsDoNotInterleave'
<1>1. /\ log' \in Seq(Entry) /\ DOMAIN log' = 1..k
      /\ \A i \in 1..k : i \in DOMAIN log /\ log'[i] = log[i]
    BY DEF GateInv, Typed
<1>2. Begun'
    BY <1>1 DEF GateInv, Begun
<1>3. TurnsDoNotInterleave'
    <2>1. ASSUME NEW i \in 1..k
          PROVE  \A j \in 1..i : j \in 1..k
        OBVIOUS
    <2> QED
        BY <1>1, <2>1 DEF GateInv, TurnsDoNotInterleave, Checkpoint
<1> QED
    BY <1>1, <1>2, <1>3

-----------------------------------------------------------------------------
(* The steps.                                                              *)

\* Nothing is on the log and nobody at work at the start.
THEOREM GateInit == Init => GateInv
<1> SUFFICES ASSUME Init PROVE GateInv
    OBVIOUS
<1>1. Typed
    BY DEF Init, Typed, Phases
<1> QED
    BY <1>1 DEF Init, GateInv, Gate, Begun, Newest, InTurn, TurnsDoNotInterleave

\* The steps that leave the log alone and let no turn begin.
LEMMA Quietly ==
    ASSUME GateInv, UNCHANGED <<log, turn>>,
           used' \in [turns : Nat, writes : Nat, rewinds : Nat, mishaps : Nat],
           used'.turns = used.turns,
           phase' \in [Callers -> Phases],
           \A c \in Callers : phase'[c] # "idle" => phase[c] # "idle",
           \A c \in Callers : InTurn(c)' => InTurn(c)
    PROVE  GateInv'
<1>1. Typed'
    BY DEF GateInv, Typed
<1>2. Gate'
    BY DEF GateInv, Gate
<1>3. Begun' /\ TurnsDoNotInterleave'
    BY DEF GateInv, Begun, TurnsDoNotInterleave, Checkpoint
<1>4. Newest'
    BY DEF GateInv, Newest, OnLog, Checkpoint
<1> QED
    BY <1>1, <1>2, <1>3, <1>4 DEF GateInv

\* What Use does to the count of turns.
LEMMA Using ==
    ASSUME Typed, NEW what \in {"writes", "rewinds", "mishaps"}, Use(what)
    PROVE  /\ used' \in [turns : Nat, writes : Nat, rewinds : Nat, mishaps : Nat]
           /\ used'.turns = used.turns
BY DEF Typed, Use

\* A prompt opens a turn later than all others.
LEMMA PromptStep ==
    ASSUME GateInv, NEW c \in Callers, PromptTurn(c) PROVE GateInv'
<1>0. PICK id \in Nat : id = used.turns + 1
    BY DEF GateInv, Typed
<1> DEFINE e == Checkpoint(id)
<1>1. used.turns \in Nat /\ e \in Entry /\ e.turn = id /\ e = Checkpoint(e.turn)
    BY DEF GateInv, Typed, Entry, Checkpoint
<1>2. /\ log' = Append(log, e)
      /\ turn' = [turn EXCEPT ![c] = id]
      /\ phase' = [phase EXCEPT ![c] = "opened"]
      /\ \A d \in Callers : phase[d] = "idle"
    BY <1>0 DEF PromptTurn, Publish, Go, Free
<1>3. used' \in [turns : Nat, writes : Nat, rewinds : Nat, mishaps : Nat] /\ used'.turns = id
    <2>1. used' = [used EXCEPT !.turns = id]
        BY <1>0 DEF GateInv, Typed, PromptTurn, Use
    <2> QED
        BY <2>1 DEF GateInv, Typed
<1>4. \A i \in DOMAIN log : log[i].turn <= e.turn
    <2>1. \A i \in DOMAIN log : log[i].turn \in Nat /\ log[i].turn <= used.turns
        BY TurnOfEntry DEF GateInv, Typed, Begun
    <2> QED
        BY <1>0, <1>1, <2>1
<1>5. /\ log' \in Seq(Entry) /\ Begun' /\ TurnsDoNotInterleave' /\ OnLog(id)'
      /\ \A i \in DOMAIN log' : log'[i].turn <= id
    <2>1. e.turn <= used.turns' /\ used.turns <= used.turns' /\ used'.turns \in Nat
        BY <1>0, <1>1, <1>3
    <2>2. e \in Entry /\ e.turn = id /\ e = Checkpoint(e.turn) /\ log' = Append(log, e)
        BY <1>1, <1>2
    <2> HIDE DEF e
    <2> QED
        BY <1>4, <2>1, <2>2, Appended
<1>6. /\ \A d \in Callers \ {c} : phase'[d] = "idle"
      /\ turn'[c] = id
    BY <1>2 DEF GateInv, Typed
<1>7. Typed'
    BY <1>1, <1>2, <1>3, <1>5 DEF GateInv, Typed, Phases
<1>8. Gate'
    BY <1>6 DEF Gate
<1>9. Newest'
    <2>1. \A d \in Callers : InTurn(d)' => d = c
        BY <1>6 DEF InTurn
    <2> QED
        BY <1>5, <1>6, <2>1 DEF Newest, OnLog
<1> QED
    BY <1>5, <1>7, <1>8, <1>9 DEF GateInv

\* The turn that is under way adds to the log.
LEMMA TurnAdds ==
    ASSUME GateInv, NEW c \in Callers, InTurn(c), NEW e \in Entry, e.turn = turn[c],
           log' = Append(log, e), turn' = turn,
           used' \in [turns : Nat, writes : Nat, rewinds : Nat, mishaps : Nat],
           used'.turns = used.turns,
           NEW where \in Phases, phase' = [phase EXCEPT ![c] = where]
    PROVE  GateInv'
<1>1. OnLog(e.turn) /\ \A i \in DOMAIN log : log[i].turn <= e.turn
    BY DEF GateInv, Newest
<1>2. e.turn <= used.turns /\ used.turns \in Nat
    <2>1. used.turns \in Nat
        BY DEF GateInv, Typed
    <2>2. PICK i \in DOMAIN log : log[i] = Checkpoint(e.turn)
        BY <1>1 DEF OnLog
    <2>3. log[i].turn = e.turn
        BY <2>2 DEF Checkpoint
    <2> QED
        BY <2>1, <2>3 DEF GateInv, Begun
<1>3. /\ log' \in Seq(Entry) /\ Begun' /\ TurnsDoNotInterleave' /\ OnLog(e.turn)'
      /\ \A i \in DOMAIN log' : log'[i].turn <= e.turn
    BY <1>1, <1>2, Appended
<1>4. Typed'
    BY <1>3 DEF GateInv, Typed
<1>5. \A d \in Callers \ {c} : phase[d] = "idle" /\ phase'[d] = "idle"
    BY DEF GateInv, Typed, Gate, InTurn
<1>6. Gate'
    BY <1>5 DEF Gate
<1>7. Newest'
    <2>1. \A d \in Callers : InTurn(d)' => d = c
        BY <1>5 DEF InTurn
    <2> QED
        BY <1>3, <2>1 DEF Newest, OnLog
<1> QED
    BY <1>3, <1>4, <1>6, <1>7 DEF GateInv

\* The user's message, what an editing tool wrote, and the word that the turn
\* was stopped.
LEMMA MessageStep ==
    ASSUME GateInv, NEW c \in Callers, PublishMessage(c) \/ Stop(c) PROVE GateInv'
<1>1. turn[c] \in Nat /\ Typed
    BY DEF GateInv, Typed
<1>2. PICK e \in {UserMessage(turn[c]), Stopped(turn[c])}, where \in {"published", "idle"} :
         log' = Append(log, e) /\ phase' = [phase EXCEPT ![c] = where]
    BY DEF PublishMessage, Stop, Publish, Go
<1>3. e \in Entry /\ e.turn = turn[c]
    BY <1>1 DEF Entry, UserMessage, Stopped
<1>4. InTurn(c) /\ turn' = turn /\ used' = used
    BY DEF InTurn, PublishMessage, Stop
<1> QED
    BY <1>1, <1>2, <1>3, <1>4, TurnAdds DEF Typed, Phases

\* A tool writes.
LEMMA WriteStep ==
    ASSUME GateInv, NEW c \in Callers, Write(c) PROVE GateInv'
<1>1. /\ used' \in [turns : Nat, writes : Nat, rewinds : Nat, mishaps : Nat]
      /\ used'.turns = used.turns
    BY Using DEF GateInv, Write
<1>2. turn[c] \in Nat /\ phase = [phase EXCEPT ![c] = phase[c]] /\ phase[c] \in Phases
    BY DEF GateInv, Typed
<1>3. InTurn(c) /\ turn' = turn /\ phase' = phase
    BY DEF InTurn, Write
<1>4. CASE UNCHANGED log
    BY <1>1, <1>3, <1>4, Quietly DEF GateInv, Typed, InTurn
<1>5. CASE log' # log
    <2>1. PICK f \in Files : Publish(Written(turn[c], f))
        BY <1>5 DEF Write
    <2>2. Written(turn[c], f) \in Entry /\ Written(turn[c], f).turn = turn[c]
        BY <1>2 DEF Entry, Written
    <2> QED
        BY <1>1, <1>2, <1>3, <2>1, <2>2, TurnAdds DEF Publish
<1> QED
    BY <1>4, <1>5

\* A rewind cuts the log before the checkpoint of its turn, or does nothing.
LEMMA RewindStep ==
    ASSUME GateInv, NEW c \in Callers, Rewind(c) PROVE GateInv'
<1>1. /\ used' \in [turns : Nat, writes : Nat, rewinds : Nat, mishaps : Nat]
      /\ used'.turns = used.turns
    BY Using DEF GateInv, Rewind
<1>2. \A d \in Callers : phase[d] = "idle"
    BY DEF Rewind, Free
<1>3. CASE UNCHANGED <<log, turn, restoring, phase>>
    BY <1>1, <1>3, Quietly DEF GateInv, Typed, InTurn
<1>4. CASE ~UNCHANGED <<log, turn, restoring, phase>>
    <2>1. PICK i \in DOMAIN checkpoints :
             /\ OnLog(checkpoints[i].id)
             /\ log' = SubSeq(log, 1, From(checkpoints[i].id) - 1)
             /\ turn' = [turn EXCEPT ![c] = checkpoints[i].id]
             /\ Go(c, "rolled back")
        BY <1>4 DEF Rewind
    <2> DEFINE id == checkpoints[i].id
    <2>2. From(id) \in DOMAIN log /\ log[From(id)] = Checkpoint(id)
        BY <2>1 DEF OnLog, From
    <2>3. log[From(id)].turn = id
        BY <2>2 DEF Checkpoint
    <2>4. id \in Nat
        BY <2>2, <2>3, TurnOfEntry DEF GateInv, Typed
    <2>5. From(id) - 1 \in 0..Len(log)
        BY <2>2 DEF GateInv, Typed
    <2>6. log' \in Seq(Entry) /\ Begun' /\ TurnsDoNotInterleave'
        BY <1>1, <2>1, <2>5, CutShort
    <2>7. Typed'
        BY <1>1, <2>1, <2>4, <2>6 DEF GateInv, Typed, Go, Phases
    <2>8. phase'[c] = "rolled back" /\ \A d \in Callers \ {c} : phase'[d] = "idle"
        BY <1>2, <2>1 DEF GateInv, Typed, Go
    <2>9. Gate' /\ Newest'
        BY <2>8 DEF Gate, Newest, InTurn
    <2> QED
        BY <2>6, <2>7, <2>9 DEF GateInv
<1> QED
    BY <1>3, <1>4

\* The steps of one request that only change its phase.
LEMMA PhaseStep ==
    ASSUME GateInv, NEW c \in Callers, NEW where \in Phases, phase[c] # "idle",
           phase' = [phase EXCEPT ![c] = where], UNCHANGED <<log, turn>>,
           used' \in [turns : Nat, writes : Nat, rewinds : Nat, mishaps : Nat],
           used'.turns = used.turns,
           InTurn(c) \/ where \in {"idle", "rolled back", "restoring"}
    PROVE  GateInv'
<1>1. phase' \in [Callers -> Phases]
    BY DEF GateInv, Typed
<1>2. \A d \in Callers : /\ phase'[d] # "idle" => phase[d] # "idle"
                         /\ InTurn(d)' => InTurn(d)
    BY DEF GateInv, Typed, InTurn
<1> QED
    BY <1>1, <1>2, Quietly

\* Everything else a request does.
LEMMA OtherSteps ==
    ASSUME GateInv, NEW c \in Callers,
           \/ Capture(c) \/ CycleEnds(c) \/ HearCancel(c) \/ Drop(c)
           \/ Truncate(c) \/ RestorePath(c) \/ RestoreFails(c) \/ RestoreEnds(c)
    PROVE  GateInv'
<1>1. UNCHANGED <<log, turn>>
    BY DEF Capture, CycleEnds, HearCancel, Drop, Truncate, RestorePath, RestoreFails, RestoreEnds
<1>2. /\ used' \in [turns : Nat, writes : Nat, rewinds : Nat, mishaps : Nat]
      /\ used'.turns = used.turns
    <2>1. Typed /\ (used' = used \/ Use("mishaps"))
        BY DEF GateInv, Capture, CycleEnds, HearCancel, Drop, Truncate, RestorePath,
            RestoreFails, RestoreEnds, Mishap
    <2> QED
        BY <2>1, Using DEF Typed
<1>3. phase[c] # "idle"
    BY DEF Capture, CycleEnds, HearCancel, Drop, Truncate, RestorePath, RestoreFails, RestoreEnds
<1>4. PICK where \in Phases :
         /\ phase' = [phase EXCEPT ![c] = where]
         /\ InTurn(c) \/ where \in {"idle", "rolled back", "restoring"}
    <2>1. CASE Capture(c) \/ CycleEnds(c) \/ HearCancel(c)
        BY <2>1 DEF Capture, CycleEnds, HearCancel, Go, InTurn, Phases
    <2>2. CASE Drop(c) \/ RestoreFails(c) \/ RestoreEnds(c)
        BY <2>2 DEF Drop, RestoreFails, RestoreEnds, EndRewind, Go, Phases
    <2>3. CASE Truncate(c)
        BY <2>3 DEF Truncate, EndRewind, Go, Phases
    <2>4. CASE RestorePath(c)
        <3>1. phase' = [phase EXCEPT ![c] = "restoring"]
            BY <2>4 DEF RestorePath, GateInv, Typed
        <3> QED
            BY <3>1 DEF Phases
    <2> QED
        BY <2>1, <2>2, <2>3, <2>4
<1> QED
    BY <1>1, <1>2, <1>3, <1>4, PhaseStep

-----------------------------------------------------------------------------
(* The invariant and what follows from it.                                 *)

\* The invariant is preserved by every step.
THEOREM GateNext == GateInv /\ [Next]_vars => GateInv'
<1> SUFFICES ASSUME GateInv, [Next]_vars PROVE GateInv'
    OBVIOUS
<1>1. CASE Cancel \/ UNCHANGED vars
    <2>1. UNCHANGED <<log, turn, phase, used>>
        BY <1>1 DEF Cancel, vars
    <2> QED
        BY <2>1, Quietly DEF GateInv, Typed, InTurn
<1>2. CASE Edit
    <2>1. UNCHANGED <<log, turn, phase>> /\ Use("writes") /\ Typed
        BY <1>2 DEF Edit, GateInv
    <2> QED
        BY <2>1, Quietly, Using DEF Typed, InTurn
<1>3. CASE Restart
    <2>1. UNCHANGED <<log, turn>> /\ Use("mishaps") /\ Typed
        BY <1>3 DEF Restart, Mishap, GateInv
    <2>2. phase' = [c \in Callers |-> "idle"]
        BY <1>3 DEF Restart
    <2> QED
        BY <2>1, <2>2, Quietly, Using DEF InTurn, Phases
<1>4. ASSUME NEW c \in Callers, PromptTurn(c) PROVE GateInv'
    BY <1>4, PromptStep
<1>5. ASSUME NEW c \in Callers, PublishMessage(c) \/ Stop(c) PROVE GateInv'
    BY <1>5, MessageStep
<1>6. ASSUME NEW c \in Callers, Write(c) PROVE GateInv'
    BY <1>6, WriteStep
<1>7. ASSUME NEW c \in Callers, Rewind(c) PROVE GateInv'
    BY <1>7, RewindStep
<1>8. ASSUME NEW c \in Callers,
             \/ Capture(c) \/ CycleEnds(c) \/ HearCancel(c) \/ Drop(c)
             \/ Truncate(c) \/ RestorePath(c) \/ RestoreFails(c) \/ RestoreEnds(c)
      PROVE  GateInv'
    BY <1>8, OtherSteps
<1> QED
    BY <1>1, <1>2, <1>3, <1>4, <1>5, <1>6, <1>7, <1>8 DEF Next

\* It holds in every state a session can reach.
THEOREM GateInvariant == Spec => []GateInv
<1> QED
    BY GateInit, GateNext, PTL DEF Spec

\* One request at a time runs a turn or goes back to one: what a client that is
\* gone, a cancellation or a restart leaves behind is never in between.
THEOREM OneAtATime == Spec => []Gate
<1>1. GateInv => Gate
    BY DEF GateInv
<1> QED
    BY <1>1, GateInvariant, PTL

\* On the log no event of a turn comes after one of a later turn, and none is
\* there without the checkpoint of its turn before it.
THEOREM TurnsAreWhole == Spec => []TurnsDoNotInterleave
<1>1. GateInv => TurnsDoNotInterleave
    BY DEF GateInv
<1> QED
    BY <1>1, GateInvariant, PTL

-----------------------------------------------------------------------------
(* What a rewind puts back.                                                *)

Trees == [Files -> Contents]
Kept == [id : Nat, tree : Trees \cup {NoTree}]
Job == [target : Kept, keep : Nat, touched : SUBSET Files, todo : SUBSET Files]

\* A turn that has its checkpoint on the log and not on the list yet.
Opening(c) == phase[c] \in {"opened", "published"}
GoesBack(c) == phase[c] \in {"rolled back", "restoring"}

Shaped ==
    /\ checkpoints \in Seq(Kept)
    /\ tree \in Trees /\ head \in Trees
    /\ was \in [1..MaxTurns -> Trees \cup {NoTree}]
    /\ used.turns <= MaxTurns
    /\ restoring \in [Callers -> Job \cup {<<>>}]
    /\ \A c \in Callers : GoesBack(c) => restoring[c] \in Job

\* What is kept for a turn is no snapshot, or the tree that the turn began on.
IsSnapshot(kept, id) == kept = NoTree \/ (id # 0 /\ kept = was[id])

Snapshots ==
    \A k \in DOMAIN checkpoints :
        /\ checkpoints[k].id <= used.turns
        /\ IsSnapshot(checkpoints[k].tree, checkpoints[k].id)

\* The newest turn is not on the list while it opens.
Opens(c) ==
    Opening(c) =>
        /\ turn[c] = used.turns /\ turn[c] # 0
        /\ \A k \in DOMAIN checkpoints : checkpoints[k].id # turn[c]

\* What a rewind has put back is as it was.
PutsBack(c) ==
    /\ GoesBack(c) =>
           /\ turn[c] <= used.turns
           /\ IsSnapshot(restoring[c].target.tree, turn[c])
           /\ notice.how \in {"none", "blind"}
    /\ phase[c] = "rolled back" =>
           restoring[c].keep <= Len(checkpoints) /\ notice = NoNotice
    /\ phase[c] = "restoring" =>
           /\ turn[c] # 0
           /\ restoring[c].target.tree \in Trees /\ restoring[c].target.tree = was[turn[c]]
           /\ notice.how = "none" =>
                  \A f \in Files : f \in restoring[c].todo \/ IsBack(turn[c], f)

Says ==
    notice.how = "restored" =>
        /\ \A c \in Callers : phase[c] = "idle"
        /\ notice.of \in 1..used.turns
        /\ \A f \in Files : IsBack(notice.of, f)

SnapInv ==
    /\ Shaped /\ Snapshots /\ Says
    /\ \A c \in Callers : Opens(c) /\ PutsBack(c)

\* No tree is kept, and nothing has been restored, before the first turn.
THEOREM SnapInit == Init => SnapInv
<1> SUFFICES ASSUME Init PROVE SnapInv
    OBVIOUS
<1>1. /\ MaxTurns \in Nat /\ MaxContent \in Nat /\ Starts \subseteq Trees
    BY BoundsAssumption DEF Trees, Contents
<1>2. Shaped
    BY <1>1 DEF Init, Shaped, GoesBack
<1>3. Snapshots /\ Says
    BY DEF Init, Snapshots, Says, NoNotice
<1>4. \A c \in Callers : Opens(c) /\ PutsBack(c)
    BY DEF Init, Opens, PutsBack, Opening, GoesBack
<1> QED
    BY <1>2, <1>3, <1>4 DEF SnapInv

\* How the last rewind ended may be said, or the tree may have changed, when none goes on.
Unsaid ==
    \/ /\ UNCHANGED <<tree, notice>>
       /\ \A c \in Callers : phase'[c] # "idle" => phase[c] # "idle"
    \/ (\A c \in Callers : phase'[c] # "restoring") /\ notice' = NoNotice
    \/ (\A c \in Callers : ~GoesBack(c)') /\ notice'.how # "restored"

\* The steps that begin nothing and say of nothing that it is restored: the list may lose
\* snapshots, requests may end.
LEMMA NothingPutBack ==
    ASSUME GateInv, SnapInv, Unsaid, UNCHANGED <<was, turn>>, used'.turns = used.turns,
           tree' \in Trees, head' \in Trees, checkpoints' \in Seq(Kept),
           \A k \in DOMAIN checkpoints' : \E j \in DOMAIN checkpoints :
               checkpoints'[k] = checkpoints[j],
           restoring' \in [Callers -> Job \cup {<<>>}],
           \A c \in Callers : Opening(c)' => Opening(c),
           \A c \in Callers : GoesBack(c)' =>
               /\ phase'[c] = phase[c] /\ restoring'[c] = restoring[c]
               /\ checkpoints' = checkpoints
    PROVE  SnapInv'
<1>1. Shaped'
    <2>1. \A c \in Callers : GoesBack(c)' => restoring'[c] \in Job
        BY DEF GoesBack, SnapInv, Shaped
    <2> QED
        BY <2>1 DEF SnapInv, Shaped, Trees, Contents, Kept, Job, NoTree, GoesBack
<1>2. Snapshots'
    <2> SUFFICES ASSUME NEW k \in DOMAIN checkpoints'
                 PROVE  /\ checkpoints'[k].id <= used.turns
                        /\ IsSnapshot(checkpoints'[k].tree, checkpoints'[k].id)
        BY DEF Snapshots, IsSnapshot, NoTree
    <2>1. PICK j \in DOMAIN checkpoints : checkpoints'[k] = checkpoints[j]
        OBVIOUS
    <2> QED
        BY <2>1 DEF SnapInv, Snapshots
<1>3. \A c \in Callers : Opens(c)'
    <2> SUFFICES ASSUME NEW c \in Callers, Opening(c)' PROVE Opens(c)'
        BY DEF Opens
    <2>1. Opening(c)
        OBVIOUS
    <2> QED
        BY <2>1 DEF SnapInv, Opens
<1>4. \A c \in Callers : PutsBack(c)'
    <2> SUFFICES ASSUME NEW c \in Callers, GoesBack(c)' PROVE PutsBack(c)'
        BY DEF PutsBack, GoesBack
    <2>1. /\ phase'[c] = phase[c] /\ restoring'[c] = restoring[c]
          /\ checkpoints' = checkpoints /\ GoesBack(c) /\ PutsBack(c)
        BY DEF SnapInv, GoesBack
    <2>2. UNCHANGED <<tree, notice>>
          \/ (phase'[c] # "restoring" /\ notice' = NoNotice)
        BY DEF Unsaid
    <2> QED
        BY <2>1, <2>2 DEF PutsBack, IsSnapshot, IsBack, NoTree, NoNotice, GoesBack
<1>5. Says'
    <2> SUFFICES ASSUME notice'.how = "restored"
                 PROVE  /\ \A c \in Callers : phase'[c] = "idle"
                        /\ notice'.of \in 1..used.turns'
                        /\ \A f \in Files : IsBack(notice.of, f)'
        BY DEF Says
    <2>1. /\ UNCHANGED <<tree, notice>>
          /\ \A c \in Callers : phase'[c] # "idle" => phase[c] # "idle"
        BY DEF Unsaid, NoNotice
    <2> QED
        BY <2>1 DEF SnapInv, Says, IsBack
<1> QED
    BY <1>1, <1>2, <1>3, <1>4, <1>5 DEF SnapInv

\* Writing one file of a tree gives a tree.
LEMMA OneFileOf ==
    ASSUME NEW f \in Files, NEW v \in Contents, tree \in Trees
    PROVE  [tree EXCEPT ![f] = v] \in Trees
BY DEF Trees

\* The numbers on the list are numbers of turns that were begun.
LEMMA ListedIds ==
    ASSUME SnapInv
    PROVE  \A k \in DOMAIN checkpoints :
               /\ checkpoints[k].id \in Nat
               /\ checkpoints[k].id <= used.turns
<1>1. \A k \in DOMAIN checkpoints : checkpoints[k] \in Kept
    BY DEF SnapInv, Shaped
<1> QED
    BY <1>1 DEF SnapInv, Snapshots, Kept

\* While one request is at work the others are not.
LEMMA OthersIdle ==
    ASSUME GateInv, NEW c \in Callers, phase[c] # "idle"
    PROVE  \A d \in Callers \ {c} : phase[d] = "idle"
BY DEF GateInv, Gate

\* The steps that leave the list, the snapshots and the rewinds alone.
LEMMA AsideSteps ==
    ASSUME GateInv, SnapInv, NEW c,
           \/ Cancel \/ Edit \/ UNCHANGED vars
           \/ c \in Callers /\ (\/ PublishMessage(c) \/ Write(c) \/ CycleEnds(c)
                               \/ HearCancel(c) \/ Stop(c))
    PROVE  SnapInv'
<1>1. /\ checkpoints \in Seq(Kept) /\ tree \in Trees /\ head \in Trees
      /\ restoring \in [Callers -> Job \cup {<<>>}]
    BY DEF SnapInv, Shaped
<1>2. UNCHANGED <<checkpoints, was, turn, restoring>>
    BY DEF Cancel, Edit, vars, PublishMessage, Write, CycleEnds, HearCancel, Stop
<1>3. used'.turns = used.turns
    <2>1. Typed /\ (used' = used \/ Use("writes"))
        BY DEF GateInv, Cancel, Edit, vars, PublishMessage, Write, CycleEnds, HearCancel, Stop
    <2> QED
        BY <2>1, Using
<1>4. phase \in [Callers -> Phases]
    BY DEF GateInv, Typed
<1>5. \A d \in Callers : /\ phase'[d] # "idle" => phase[d] # "idle"
                         /\ Opening(d)' => Opening(d)
                         /\ GoesBack(d)' => phase'[d] = phase[d]
    BY <1>4 DEF Opening, GoesBack, Cancel, Edit, vars, PublishMessage, Write, CycleEnds,
        HearCancel, Stop, Go
<1>6. tree' \in Trees /\ head' \in Trees /\ Unsaid
    <2>1. CASE Edit
        <3>1. \A d \in Callers : phase'[d] # "restoring"
            BY <2>1 DEF Edit
        <3>2. CASE head' = tree /\ UNCHANGED <<tree, notice>>
            BY <1>1, <1>5, <3>2 DEF Unsaid
        <3>3. CASE ~(head' = tree /\ UNCHANGED <<tree, notice>>)
            <4>1. PICK f \in Files, v \in Contents : tree' = [tree EXCEPT ![f] = v]
                BY <2>1, <3>3 DEF Edit
            <4>2. notice' = NoNotice /\ head' = head
                BY <2>1, <3>3 DEF Edit
            <4> QED
                BY <1>1, <3>1, <4>1, <4>2, OneFileOf DEF Unsaid
        <3> QED
            BY <3>2, <3>3
    <2>2. CASE c \in Callers /\ Write(c)
        <3>1. PICK f \in Files, v \in Contents : tree' = [tree EXCEPT ![f] = v]
            BY <2>2 DEF Write
        <3>2. phase[c] = "cycling" /\ phase' = phase /\ head' = head /\ notice' = notice
            BY <2>2 DEF Write
        <3>3. \A d \in Callers : ~GoesBack(d)'
            BY <2>2, <3>2, OthersIdle DEF GoesBack
        <3>4. notice.how # "restored"
            BY <2>2, <3>2 DEF SnapInv, Says
        <3> QED
            BY <1>1, <3>1, <3>2, <3>3, <3>4, OneFileOf DEF Unsaid
    <2>3. CASE ~Edit /\ ~(c \in Callers /\ Write(c))
        <3>1. UNCHANGED <<tree, head, notice>>
            BY <2>3 DEF Cancel, vars, PublishMessage, CycleEnds, HearCancel, Stop
        <3> QED
            BY <1>1, <1>5, <3>1 DEF Unsaid
    <2> QED
        BY <2>1, <2>2, <2>3
<1> QED
    BY <1>1, <1>2, <1>3, <1>5, <1>6, NothingPutBack

\* A prompt begins a turn none of the snapshots is of.
LEMMA SnapPrompt ==
    ASSUME GateInv, GateInv', SnapInv, NEW c \in Callers, PromptTurn(c) PROVE SnapInv'
<1>0. PICK id \in Nat : id = used.turns + 1
    BY DEF GateInv, Typed
<1>1. /\ id # 0 /\ id \in 1..MaxTurns /\ used.turns \in Nat /\ MaxTurns \in Nat
      /\ used'.turns = id
    <2>1. MaxTurns \in Nat /\ used.turns < MaxTurns
        BY BoundsAssumption DEF PromptTurn
    <2>2. used.turns \in Nat /\ used' = [used EXCEPT !.turns = id]
        BY <1>0 DEF PromptTurn, Use, GateInv, Typed
    <2>3. used'.turns = id
        BY <2>2 DEF GateInv, Typed
    <2> QED
        BY <1>0, <2>1, <2>2, <2>3
<1>2. /\ turn' = [turn EXCEPT ![c] = id]
      /\ phase' = [phase EXCEPT ![c] = "opened"]
      /\ was' = [was EXCEPT ![id] = tree]
      /\ \A d \in Callers : phase[d] = "idle"
      /\ notice'.how = "none"
      /\ UNCHANGED <<checkpoints, tree, head, restoring>>
    BY <1>0 DEF PromptTurn, Go, Free, NoNotice
<1>3. \A d \in Callers : phase'[d] # "idle" => d = c /\ phase'[d] = "opened" /\ turn'[d] = id
    BY <1>2 DEF GateInv, Typed
<1>4. Shaped'
    <2>1. was' \in [1..MaxTurns -> Trees \cup {NoTree}]
        BY <1>1, <1>2 DEF SnapInv, Shaped
    <2>2. \A d \in Callers : ~GoesBack(d)'
        BY <1>3 DEF GoesBack
    <2>3. used'.turns <= MaxTurns
        BY <1>1
    <2> HIDE <1>3
    <2> QED
        BY <1>2, <2>1, <2>2, <2>3 DEF SnapInv, Shaped, Trees, Contents, Kept, Job, NoTree
<1>5. \A k \in DOMAIN checkpoints :
          /\ checkpoints[k].id \in Nat /\ checkpoints[k].id <= used.turns
          /\ checkpoints[k].id # id
    BY <1>0, <1>1, ListedIds
<1>6. Snapshots'
    <2> SUFFICES ASSUME NEW k \in DOMAIN checkpoints
                 PROVE  /\ checkpoints[k].id <= id
                        /\ IsSnapshot(checkpoints[k].tree, checkpoints[k].id)'
        BY <1>1, <1>2 DEF Snapshots, IsSnapshot, NoTree
    <2>1. checkpoints[k].id <= id
        BY <1>0, <1>1, <1>5
    <2>2. checkpoints[k].id # 0 => was'[checkpoints[k].id] = was[checkpoints[k].id]
        <3>1. checkpoints[k].id # 0 => checkpoints[k].id \in 1..MaxTurns
            <4>1. used.turns <= MaxTurns
                BY DEF SnapInv, Shaped
            <4>2. /\ checkpoints[k].id \in Nat /\ checkpoints[k].id <= used.turns
                BY <1>5
            <4> QED
                BY <1>1, <4>1, <4>2
        <3>2. DOMAIN was = 1..MaxTurns
            BY DEF SnapInv, Shaped
        <3> QED
            BY <1>2, <1>5, <3>1, <3>2
    <2>3. IsSnapshot(checkpoints[k].tree, checkpoints[k].id)
        BY DEF SnapInv, Snapshots
    <2>4. checkpoints' = checkpoints
        BY <1>2
    <2> HIDE <1>2
    <2> QED
        BY <2>1, <2>2, <2>3, <2>4 DEF IsSnapshot, NoTree
<1>7. \A d \in Callers : Opens(d)' /\ PutsBack(d)'
    <2> SUFFICES ASSUME NEW d \in Callers, Opening(d)' PROVE Opens(d)'
        BY <1>3 DEF Opens, PutsBack, GoesBack
    <2>1. turn'[d] = id /\ checkpoints' = checkpoints
        BY <1>2, <1>3 DEF Opening
    <2> HIDE <1>2, <1>3
    <2> QED
        BY <1>1, <1>5, <2>1 DEF Opens
<1>8. Says'
    BY <1>2 DEF Says
<1> QED
    BY <1>4, <1>6, <1>7, <1>8 DEF SnapInv

\* The snapshot that is taken is of the tree the turn begins on.
LEMMA SnapCapture ==
    ASSUME GateInv, GateInv', SnapInv, NEW c \in Callers, Capture(c) PROVE SnapInv'
<1>0. PICK id \in Nat : id = turn[c]
    BY DEF GateInv, Typed
<1>1. /\ phase[c] = "published" /\ Opening(c)
      /\ phase' = [phase EXCEPT ![c] = "cycling"]
      /\ was' = [was EXCEPT ![id] = tree]
      /\ UNCHANGED <<tree, head, turn, restoring, notice>>
    BY <1>0 DEF Capture, Go, Opening
<1>2. used'.turns = used.turns
    BY Using DEF Capture, Mishap, GateInv
<1>3. /\ id = used.turns /\ id # 0 /\ id <= MaxTurns /\ MaxTurns \in Nat
      /\ \A k \in DOMAIN checkpoints : checkpoints[k].id # id
    BY <1>0, <1>1, BoundsAssumption DEF SnapInv, Opens, Shaped
<1>4. /\ was \in [1..MaxTurns -> Trees \cup {NoTree}] /\ checkpoints \in Seq(Kept)
      /\ tree \in Trees /\ phase \in [Callers -> Phases]
    BY DEF SnapInv, Shaped, GateInv, Typed
<1>5. was'[id] = tree /\ \A k \in 1..MaxTurns : k # id => was'[k] = was[k]
    BY <1>1, <1>3, <1>4
<1>6. PICK kept \in {tree, NoTree} : checkpoints' = Append(checkpoints, [id |-> id, tree |-> kept])
    BY <1>0 DEF Capture
<1>7. [id |-> id, tree |-> kept] \in Kept
    BY <1>4 DEF Kept
<1>8. \A d \in Callers : phase'[d] # "idle" => d = c /\ phase'[d] = "cycling"
    BY <1>1, <1>4, OthersIdle
<1>9. Shaped'
    <2>1. checkpoints' \in Seq(Kept)
        BY <1>4, <1>6, <1>7
    <2> QED
        BY <1>1, <1>2, <1>4, <1>8, <2>1
           DEF SnapInv, Shaped, Trees, Contents, Kept, Job, NoTree, GoesBack
<1>10. Snapshots'
    <2> SUFFICES ASSUME NEW k \in DOMAIN checkpoints'
                 PROVE  /\ checkpoints'[k].id <= used.turns
                        /\ IsSnapshot(checkpoints[k].tree, checkpoints[k].id)'
        BY <1>2 DEF Snapshots, IsSnapshot, NoTree
    <2>1. CASE k \in DOMAIN checkpoints
        <3>1. checkpoints'[k] = checkpoints[k]
            BY <1>4, <1>6, <2>1
        <3>2. /\ checkpoints[k].id \in Nat /\ checkpoints[k].id # id
              /\ checkpoints[k].id <= used.turns
            BY <1>3, <2>1, ListedIds
        <3>3. checkpoints[k].id # 0 => checkpoints[k].id \in 1..MaxTurns
            BY <1>3, <3>2
        <3> QED
            BY <1>5, <2>1, <3>1, <3>2, <3>3 DEF SnapInv, Snapshots, IsSnapshot, NoTree
    <2>2. CASE k \notin DOMAIN checkpoints
        <3>1. checkpoints'[k] = [id |-> id, tree |-> kept]
            BY <1>4, <1>6, <2>2
        <3> QED
            BY <1>3, <1>5, <3>1 DEF IsSnapshot, NoTree
    <2> QED
        BY <2>1, <2>2
<1>11. \A d \in Callers : Opens(d)' /\ PutsBack(d)'
    BY <1>8 DEF Opens, PutsBack, Opening, GoesBack
<1>12. Says'
    BY <1>1 DEF SnapInv, Says
<1> QED
    BY <1>9, <1>10, <1>11, <1>12 DEF SnapInv

\* A rewind begins with what is kept for the turn it goes back to.
LEMMA SnapRewind ==
    ASSUME GateInv, SnapInv, NEW c \in Callers, Rewind(c) PROVE SnapInv'
<1>1. /\ used'.turns = used.turns /\ phase \in [Callers -> Phases]
      /\ turn \in [Callers -> Nat]
    BY Using DEF GateInv, Typed, Rewind
<1>2. /\ \A d \in Callers : phase[d] = "idle"
      /\ notice' = NoNotice /\ notice'.how = "none"
      /\ UNCHANGED <<checkpoints, tree, head, was>>
    BY DEF Rewind, Free, NoNotice
<1>3. CASE UNCHANGED <<log, turn, restoring, phase>>
    <2>1. Unsaid
        BY <1>2, <1>3 DEF Unsaid
    <2>2. \A d \in Callers : ~Opening(d)' /\ ~GoesBack(d)'
        BY <1>2, <1>3 DEF Opening, GoesBack
    <2> QED
        BY <1>1, <1>2, <1>3, <2>1, <2>2, NothingPutBack DEF SnapInv, Shaped
<1>4. CASE ~UNCHANGED <<log, turn, restoring, phase>>
    <2>1. PICK i \in DOMAIN checkpoints :
             /\ turn' = [turn EXCEPT ![c] = checkpoints[i].id]
             /\ restoring' = [restoring EXCEPT ![c] =
                    [target |-> checkpoints[i], keep |-> i - 1,
                     touched |-> Touched(checkpoints[i].id), todo |-> {}]]
             /\ phase' = [phase EXCEPT ![c] = "rolled back"]
             /\ OnLog(checkpoints[i].id)
        BY <1>4 DEF Rewind, Go
    <2>2. PICK target \in Kept : target = checkpoints[i]
        BY DEF SnapInv, Shaped
    <2>3. target.id \in Nat /\ target.id <= used.turns /\ IsSnapshot(target.tree, target.id)
        BY <2>2, ListedIds DEF SnapInv, Snapshots
    <2>4. i \in 1..Len(checkpoints) /\ Len(checkpoints) \in Nat
          /\ i - 1 \in Nat /\ i - 1 <= Len(checkpoints)
        BY DEF SnapInv, Shaped
    <2>5. Touched(target.id) \subseteq Files
        <3> SUFFICES ASSUME NEW j \in DOMAIN log, log[j].kind = "tool.result"
                     PROVE  log[j].path \in Files
            BY DEF Touched
        <3>1. log[j] \in Entry
            BY DEF GateInv, Typed
        <3> QED
            BY <3>1 DEF Entry, Checkpoint, UserMessage, Written, Stopped
    <2>6. PICK job \in Job :
              /\ job = [target |-> target, keep |-> i - 1,
                        touched |-> Touched(target.id), todo |-> {}]
              /\ job.target = target /\ job.keep = i - 1
        <3> DEFINE touched == Touched(target.id)
        <3> HIDE DEF touched
        <3>1. touched \in SUBSET Files
            BY <2>5 DEF touched
        <3>2. [target |-> target, keep |-> i - 1, touched |-> touched, todo |-> {}] \in Job
            BY <2>4, <3>1 DEF Job
        <3> QED
            BY <3>2 DEF touched
    <2>7. restoring' = [restoring EXCEPT ![c] = job]
        BY <2>1, <2>2, <2>6
    <2>8. /\ restoring'[c] = job /\ turn'[c] = target.id
          /\ \A d \in Callers : phase'[d] # "idle" => d = c /\ phase'[d] = "rolled back"
        BY <1>1, <1>2, <2>1, <2>2, <2>7 DEF SnapInv, Shaped
    <2>9. Shaped'
        <3>1. restoring' \in [Callers -> Job \cup {<<>>}]
            BY <2>7 DEF SnapInv, Shaped
        <3>2. \A d \in Callers : GoesBack(d)' => restoring'[d] \in Job
            BY <2>8 DEF GoesBack
        <3> HIDE <2>8
        <3> QED
            BY <1>1, <1>2, <3>1, <3>2
               DEF SnapInv, Shaped, Trees, Contents, Kept, Job, NoTree, GoesBack
    <2>10. Snapshots'
        BY <1>1, <1>2 DEF SnapInv, Snapshots, IsSnapshot, NoTree
    <2>11. \A d \in Callers : Opens(d)' /\ PutsBack(d)'
        <3> SUFFICES ASSUME NEW d \in Callers, phase'[d] # "idle"
                     PROVE  Opens(d)' /\ PutsBack(d)'
            BY DEF Opens, PutsBack, Opening, GoesBack
        <3>1. d = c /\ phase'[c] = "rolled back"
            BY <2>8
        <3>2. IsSnapshot(restoring[c].target.tree, turn[c])'
            BY <1>2, <2>3, <2>6, <2>8 DEF IsSnapshot, NoTree
        <3> QED
            BY <1>1, <1>2, <2>3, <2>4, <2>6, <2>8, <3>1, <3>2
               DEF Opens, PutsBack, Opening, GoesBack
    <2>12. Says'
        BY <1>2 DEF Says
    <2> QED
        BY <2>9, <2>10, <2>11, <2>12 DEF SnapInv
<1> QED
    BY <1>3, <1>4

\* The end of a request, whatever becomes of the list, unless it has put the files back.
LEMMA SnapEnds ==
    ASSUME GateInv, SnapInv, NEW c \in Callers, phase[c] # "idle", Go(c, "idle"),
           restoring' = [restoring EXCEPT ![c] = <<>>], notice'.how # "restored",
           UNCHANGED <<was, turn, tree, head>>, used'.turns = used.turns,
           checkpoints' \in Seq(Kept),
           \A k \in DOMAIN checkpoints' : \E j \in DOMAIN checkpoints :
               checkpoints'[k] = checkpoints[j]
    PROVE  SnapInv'
<1>1. \A d \in Callers : phase'[d] = "idle"
    BY OthersIdle DEF GateInv, Typed, Go
<1>2. \A d \in Callers : ~Opening(d)' /\ ~GoesBack(d)'
    BY <1>1 DEF Opening, GoesBack
<1>3. restoring' \in [Callers -> Job \cup {<<>>}]
    BY DEF SnapInv, Shaped
<1>4. Unsaid
    BY <1>2 DEF Unsaid
<1> QED
    BY <1>2, <1>3, <1>4, NothingPutBack DEF SnapInv, Shaped

\* A request is dropped, or its rewind fails.
LEMMA SnapStops ==
    ASSUME GateInv, SnapInv, NEW c \in Callers, Drop(c) \/ RestoreFails(c) PROVE SnapInv'
<1>1. /\ phase[c] # "idle" /\ Go(c, "idle")
      /\ restoring' = [restoring EXCEPT ![c] = <<>>] /\ notice'.how # "restored"
      /\ UNCHANGED <<was, turn, tree, head, checkpoints>>
    <2>1. CASE Drop(c)
        BY <2>1 DEF Drop, NoNotice
    <2>2. CASE RestoreFails(c)
        BY <2>2 DEF RestoreFails, EndRewind
    <2> QED
        BY <2>1, <2>2
<1>2. used'.turns = used.turns
    BY Using DEF Drop, RestoreFails, Mishap, GateInv
<1>3. checkpoints \in Seq(Kept)
    BY DEF SnapInv, Shaped
<1> QED
    BY <1>1, <1>2, <1>3, SnapEnds

\* The first of a list are of the list.
LEMMA FirstOf ==
    ASSUME NEW S, NEW list \in Seq(S), NEW n \in 0..Len(list)
    PROVE  /\ SubSeq(list, 1, n) \in Seq(S) /\ DOMAIN SubSeq(list, 1, n) = 1..n
           /\ \A k \in 1..n : k \in DOMAIN list /\ SubSeq(list, 1, n)[k] = list[k]
OBVIOUS

\* What is left to do covers every file that is not as it was, unless the tree is compared
\* with another one.
LEMMA SnapTruncate ==
    ASSUME GateInv, SnapInv, NEW c \in Callers, Truncate(c) PROVE SnapInv'
<1>1. PICK job \in Job : job = restoring[c]
    BY DEF Truncate, GoesBack, SnapInv, Shaped
<1>2. /\ phase[c] = "rolled back" /\ GoesBack(c) /\ PutsBack(c)
      /\ checkpoints' = SubSeq(checkpoints, 1, job.keep)
      /\ UNCHANGED <<tree, head, turn, was>>
    BY <1>1 DEF Truncate, Truncated, GoesBack, SnapInv
<1>3. used'.turns = used.turns
    <2>1. used' = used \/ Use("mishaps")
        BY DEF Truncate, Mishap
    <2> QED
        BY <2>1, Using DEF GateInv
<1>4. /\ checkpoints \in Seq(Kept) /\ job.keep \in 0..Len(checkpoints)
      /\ job.target.tree \in Trees \cup {NoTree}
    <2>1. checkpoints \in Seq(Kept) /\ job.keep <= Len(checkpoints)
        BY <1>1, <1>2 DEF SnapInv, Shaped, PutsBack
    <2>2. job.target \in Kept /\ job.keep \in Nat
        BY DEF Job
    <2>3. job.target.tree \in Trees \cup {NoTree}
        BY <2>2 DEF Kept
    <2> QED
        BY <2>1, <2>2, <2>3
<1>5. /\ checkpoints' \in Seq(Kept)
      /\ \A k \in DOMAIN checkpoints' : k \in DOMAIN checkpoints
                                        /\ checkpoints'[k] = checkpoints[k]
    <2>1. /\ SubSeq(checkpoints, 1, job.keep) \in Seq(Kept)
          /\ DOMAIN SubSeq(checkpoints, 1, job.keep) = 1..job.keep
          /\ \A k \in 1..job.keep : /\ k \in DOMAIN checkpoints
                                   /\ SubSeq(checkpoints, 1, job.keep)[k] = checkpoints[k]
        BY <1>4, FirstOf
    <2> QED
        BY <1>2, <2>1
<1>6. CASE job.target.tree = NoTree /\ UNCHANGED used
           /\ EndRewind(c, IF job.touched = {} THEN "silent" ELSE "told")
    BY <1>2, <1>3, <1>5, <1>6, SnapEnds DEF EndRewind
<1>7. ASSUME job.target.tree # NoTree, Go(c, "restoring"), NEW todo \in SUBSET Files,
             restoring' = [restoring EXCEPT ![c].todo = todo],
             \/ todo = Diff(job.target.tree, tree) /\ notice' = notice
             \/ notice'.how = "blind"
      PROVE  SnapInv'
    <2>1. PICK after \in Job :
              /\ after = [job EXCEPT !.todo = todo]
              /\ after.target = job.target /\ after.todo = todo
        <3>1. [job EXCEPT !.todo = todo] \in Job
            BY DEF Job
        <3>2. /\ [job EXCEPT !.todo = todo].target = job.target
              /\ [job EXCEPT !.todo = todo].todo = todo
            BY DEF Job
        <3> QED
            BY <3>1, <3>2
    <2>2. restoring' = [restoring EXCEPT ![c] = after] /\ restoring'[c] = after
        BY <1>1, <1>7, <2>1 DEF SnapInv, Shaped
    <2>3. \A d \in Callers : phase'[d] # "idle" => d = c /\ phase'[d] = "restoring"
        BY <1>2, <1>7, OthersIdle DEF GateInv, Typed, Go
    <2>4. Shaped'
        <3>1. restoring' \in [Callers -> Job \cup {<<>>}]
            BY <2>2 DEF SnapInv, Shaped
        <3>2. \A d \in Callers : GoesBack(d)' => restoring'[d] \in Job
            BY <2>2, <2>3 DEF GoesBack
        <3> HIDE <2>3
        <3> QED
            BY <1>2, <1>3, <1>5, <3>1, <3>2
               DEF SnapInv, Shaped, Trees, Contents, Kept, Job, NoTree, GoesBack
    <2>5. Snapshots'
        <3> SUFFICES ASSUME NEW k \in DOMAIN checkpoints'
                     PROVE  /\ checkpoints'[k].id <= used.turns
                            /\ IsSnapshot(checkpoints[k].tree, checkpoints[k].id)'
            BY <1>3 DEF Snapshots, IsSnapshot, NoTree
        <3> QED
            BY <1>2, <1>5 DEF SnapInv, Snapshots, IsSnapshot, NoTree
    <2>6. turn[c] # 0 /\ after.target.tree \in Trees /\ after.target.tree = was[turn[c]]
        BY <1>1, <1>2, <1>4, <1>7, <2>1 DEF PutsBack, IsSnapshot
    <2>7. notice'.how = "none" => \A f \in Files : f \in todo \/ IsBack(turn[c], f)'
        <3> SUFFICES ASSUME notice'.how = "none"
                     PROVE  \A f \in Files : f \in todo \/ IsBack(turn[c], f)'
            OBVIOUS
        <3>1. todo = Diff(job.target.tree, tree)
            <4>1. notice'.how # "blind"
                OBVIOUS
            <4> QED
                BY <1>7, <4>1
        <3>2. \A f \in Files : f \in todo \/ tree[f] = was[turn[c]][f]
            BY <2>1, <2>6, <3>1 DEF Diff
        <3>3. tree' = tree /\ was' = was /\ turn' = turn
            BY <1>2
        <3> HIDE <1>2, <1>7, <2>1, <2>2, <2>3, <2>4
        <3> QED
            BY <3>2, <3>3 DEF IsBack
    <2>8. notice.how = "none" /\ turn[c] <= used.turns
        <3>1. notice = NoNotice /\ turn[c] <= used.turns
            BY <1>2 DEF PutsBack
        <3> QED
            BY <3>1 DEF NoNotice
    <2>9. IsSnapshot(restoring[c].target.tree, turn[c])'
        BY <1>2, <2>2, <2>6 DEF IsSnapshot
    <2>10. \A d \in Callers : Opens(d)' /\ PutsBack(d)'
        <3> SUFFICES ASSUME NEW d \in Callers, phase'[d] # "idle"
                     PROVE  Opens(d)' /\ PutsBack(d)'
            BY DEF Opens, PutsBack, Opening, GoesBack
        <3>1. d = c /\ phase'[c] = "restoring"
            BY <2>3
        <3>2. restoring'[c].todo = todo /\ restoring'[c].target = after.target
            BY <2>1, <2>2
        <3>3. notice'.how \in {"none", "blind"}
            BY <1>7, <2>8
        <3> HIDE <1>7, <2>1, <2>2, <2>3
        <3> QED
            BY <1>2, <1>3, <2>6, <2>7, <2>8, <2>9, <3>1, <3>2, <3>3
               DEF Opens, PutsBack, Opening, GoesBack
    <2>11. Says'
        BY <1>7, <2>8 DEF Says
    <2> QED
        BY <2>4, <2>5, <2>10, <2>11 DEF SnapInv
<1>8. Diff(job.target.tree, tree) \in SUBSET Files /\ Diff(job.target.tree, head) \in SUBSET Files
    BY DEF Diff
<1>9. CASE /\ job.target.tree # NoTree /\ Go(c, "restoring") /\ notice' = notice
           /\ restoring' = [restoring EXCEPT ![c].todo = Diff(job.target.tree, tree)]
    BY <1>7, <1>8, <1>9
<1>10. CASE /\ job.target.tree # NoTree /\ Go(c, "restoring") /\ notice'.how = "blind"
            /\ restoring' = [restoring EXCEPT ![c].todo = Diff(job.target.tree, head)]
    BY <1>7, <1>8, <1>10
<1>11. \/ /\ job.target.tree = NoTree
          /\ EndRewind(c, IF job.touched = {} THEN "silent" ELSE "told")
          /\ UNCHANGED used
       \/ /\ job.target.tree # NoTree
          /\ \/ /\ restoring' = [restoring EXCEPT ![c].todo = Diff(job.target.tree, tree)]
                /\ UNCHANGED <<used, notice>>
             \/ /\ restoring' = [restoring EXCEPT ![c].todo = Diff(job.target.tree, head)]
                /\ notice' = [how |-> "blind", of |-> turn[c], left |-> {}]
          /\ Go(c, "restoring")
    BY <1>1 DEF Truncate
<1>12. notice' = [how |-> "blind", of |-> turn[c], left |-> {}] => notice'.how = "blind"
    OBVIOUS
<1> QED
    BY <1>6, <1>9, <1>10, <1>11, <1>12

\* A file that is done is as it was, or was not there and is left.
LEMMA SnapRestorePath ==
    ASSUME GateInv, SnapInv, NEW c \in Callers, RestorePath(c) PROVE SnapInv'
<1>1. PICK job \in Job : job = restoring[c]
    BY DEF RestorePath, GoesBack, SnapInv, Shaped
<1>2. /\ phase[c] = "restoring" /\ GoesBack(c) /\ PutsBack(c) /\ phase' = phase
      /\ UNCHANGED <<checkpoints, head, turn, was>> /\ used'.turns = used.turns
    <2>1. used' = used \/ Use("mishaps")
        BY DEF RestorePath, Mishap
    <2>2. used'.turns = used.turns
        BY <2>1, Using DEF GateInv
    <2> QED
        BY <2>2 DEF RestorePath, GoesBack, SnapInv
<1>3. PICK f \in Files :
         /\ \/ /\ tree' = [tree EXCEPT ![f] = job.target.tree[f]]
               /\ notice' = notice
            \/ /\ job.target.tree[f] = 0
               /\ notice' = [how |-> notice.how, of |-> notice.of,
                             left |-> notice.left \cup {f}]
               /\ tree' = tree
         /\ restoring' = [restoring EXCEPT ![c].todo = job.todo \ {f}]
    <2>1. PICK f \in restoring[c].todo :
             /\ \/ /\ tree' = [tree EXCEPT ![f] = restoring[c].target.tree[f]]
                   /\ notice' = notice
                \/ /\ restoring[c].target.tree[f] = 0
                   /\ notice' = [how |-> notice.how, of |-> notice.of,
                                 left |-> notice.left \cup {f}]
                   /\ tree' = tree
             /\ restoring' = [restoring EXCEPT ![c].todo = @ \ {f}]
        BY DEF RestorePath
    <2>2. job.todo \in SUBSET Files
        BY DEF Job
    <2> QED
        BY <1>1, <2>1, <2>2
<1>4. /\ turn[c] # 0 /\ turn[c] <= used.turns
      /\ job.target.tree \in Trees /\ job.target.tree = was[turn[c]]
      /\ notice.how \in {"none", "blind"}
      /\ notice.how = "none" => \A g \in Files : g \in job.todo \/ IsBack(turn[c], g)
    BY <1>1, <1>2 DEF PutsBack
<1>5. PICK after \in Job :
          /\ after = [job EXCEPT !.todo = job.todo \ {f}]
          /\ after.target = job.target /\ after.todo = job.todo \ {f}
    <2>1. [job EXCEPT !.todo = job.todo \ {f}] \in Job
        BY DEF Job
    <2>2. /\ [job EXCEPT !.todo = job.todo \ {f}].target = job.target
          /\ [job EXCEPT !.todo = job.todo \ {f}].todo = job.todo \ {f}
        BY DEF Job
    <2> QED
        BY <2>1, <2>2
<1>6. /\ restoring' = [restoring EXCEPT ![c] = after] /\ restoring'[c] = after
      /\ restoring' \in [Callers -> Job \cup {<<>>}]
    BY <1>1, <1>3, <1>5 DEF SnapInv, Shaped
<1>7. /\ tree' \in Trees /\ notice'.how = notice.how
      /\ IsBack(turn[c], f)'
      /\ \A g \in Files : IsBack(turn[c], g) => IsBack(turn[c], g)'
    <2>1. tree \in Trees
        BY DEF SnapInv, Shaped
    <2>2. job.target.tree[f] \in Contents
        BY <1>4 DEF Trees
    <2>3. CASE tree' = [tree EXCEPT ![f] = job.target.tree[f]] /\ notice' = notice
        <3>1. tree' \in Trees
            BY <2>1, <2>2, <2>3 DEF Trees
        <3>2. \A g \in Files : tree'[g] = IF g = f THEN was[turn[c]][g] ELSE tree[g]
            BY <1>4, <2>1, <2>3 DEF Trees
        <3> QED
            BY <1>2, <2>3, <3>1, <3>2 DEF IsBack
    <2>4. CASE /\ job.target.tree[f] = 0 /\ tree' = tree
               /\ notice' = [how |-> notice.how, of |-> notice.of,
                             left |-> notice.left \cup {f}]
        <3>1. notice'.how = notice.how /\ notice'.left = notice.left \cup {f}
            BY <2>4
        <3>2. was' = was /\ turn' = turn /\ was[turn[c]][f] = 0
            BY <1>2, <1>4, <2>4
        <3> QED
            BY <2>1, <2>4, <3>1, <3>2 DEF IsBack
    <2> QED
        BY <1>3, <2>3, <2>4
<1>8. \A d \in Callers : phase[d] # "idle" => d = c
    BY <1>2, OthersIdle
<1>9. Shaped'
    <2>1. \A d \in Callers : GoesBack(d)' => restoring'[d] \in Job
        BY <1>2, <1>6, <1>8 DEF GoesBack
    <2> HIDE <1>3, <1>4, <1>5, <1>8
    <2> QED
        BY <1>2, <1>6, <1>7, <2>1
           DEF SnapInv, Shaped, Trees, Contents, Kept, Job, NoTree, GoesBack
<1>10. Snapshots'
    BY <1>2 DEF SnapInv, Snapshots, IsSnapshot, NoTree
<1>11. notice'.how = "none" =>
           \A g \in Files : g \in after.todo \/ IsBack(turn[c], g)'
    BY <1>4, <1>5, <1>7
<1>12. IsSnapshot(restoring[c].target.tree, turn[c])'
    BY <1>2, <1>4, <1>5, <1>6 DEF IsSnapshot, NoTree
<1>13. \A d \in Callers : Opens(d)' /\ PutsBack(d)'
    <2> SUFFICES ASSUME NEW d \in Callers, phase'[d] # "idle"
                 PROVE  Opens(d)' /\ PutsBack(d)'
        BY DEF Opens, PutsBack, Opening, GoesBack
    <2>1. d = c /\ phase'[c] = "restoring"
        BY <1>2, <1>8
    <2>2. restoring'[c].todo = after.todo /\ restoring'[c].target = job.target
        BY <1>5, <1>6
    <2>3. notice'.how \in {"none", "blind"}
        BY <1>4, <1>7
    <2> HIDE <1>1, <1>3, <1>5, <1>6, <1>7, <1>8
    <2> QED
        BY <1>2, <1>4, <1>11, <1>12, <2>1, <2>2, <2>3 DEF Opens, PutsBack, Opening, GoesBack
<1>14. Says'
    BY <1>4, <1>7 DEF Says
<1> QED
    BY <1>9, <1>10, <1>13, <1>14 DEF SnapInv

\* When nothing is left to do every file is as it was, or was not there and is left.
LEMMA SnapRestoreEnds ==
    ASSUME GateInv, SnapInv, NEW c \in Callers, RestoreEnds(c) PROVE SnapInv'
<1>1. /\ phase[c] = "restoring" /\ phase[c] # "idle" /\ Go(c, "idle") /\ restoring[c].todo = {}
      /\ restoring' = [restoring EXCEPT ![c] = <<>>] /\ used' = used
      /\ UNCHANGED <<was, turn, tree, head, checkpoints>>
      /\ notice' = [how |-> IF notice.how = "blind" THEN "blind" ELSE "restored",
                    of |-> turn[c], left |-> notice.left]
    BY DEF RestoreEnds, EndRewind
<1>2. checkpoints \in Seq(Kept)
    BY DEF SnapInv, Shaped
<1>3. CASE notice.how = "blind"
    BY <1>1, <1>2, <1>3, SnapEnds
<1>4. CASE notice.how # "blind"
    <2>1. \A d \in Callers : phase'[d] = "idle"
        BY <1>1, OthersIdle DEF GateInv, Typed, Go
    <2>2. /\ turn[c] # 0 /\ turn[c] <= used.turns
          /\ \A f \in Files : IsBack(turn[c], f)
        BY <1>1, <1>4 DEF SnapInv, PutsBack, GoesBack
    <2>3. notice'.of = turn[c] /\ notice'.left = notice.left
        BY <1>1
    <2>4. turn[c] \in 1..used.turns
        BY <2>2 DEF GateInv, Typed
    <2>5. Shaped'
        <3>1. restoring' \in [Callers -> Job \cup {<<>>}]
            BY <1>1 DEF SnapInv, Shaped
        <3>2. \A d \in Callers : ~GoesBack(d)'
            BY <2>1 DEF GoesBack
        <3> HIDE <2>1, <2>2, <2>3
        <3> QED
            BY <1>1, <3>1, <3>2 DEF SnapInv, Shaped, Trees, Contents, Kept, Job, NoTree
    <2>6. Snapshots'
        BY <1>1 DEF SnapInv, Snapshots, IsSnapshot, NoTree
    <2>7. \A d \in Callers : Opens(d)' /\ PutsBack(d)'
        BY <2>1 DEF Opens, PutsBack, Opening, GoesBack
    <2>8. \A f \in Files : IsBack(notice.of, f)'
        BY <1>1, <2>2, <2>3 DEF IsBack
    <2>9. Says'
        BY <1>1, <2>1, <2>3, <2>4, <2>8 DEF Says
    <2> QED
        BY <2>5, <2>6, <2>7, <2>9 DEF SnapInv
<1> QED
    BY <1>3, <1>4

\* What a filter leaves of a list, place by place.
Leaves(left, list, places) ==
    \E f \in [DOMAIN left -> places] :
        /\ \A k \in DOMAIN left : left[k] = list[f[k]]
        /\ \A i \in places : \E k \in DOMAIN left : f[k] = i
        /\ \A j, k \in DOMAIN left : j < k => f[j] < f[k]

\* What a filter leaves are the elements at the places it keeps, in their order.
LEMMA WhatIsLeft ==
    ASSUME NEW S, NEW list \in Seq(S), NEW places \in SUBSET DOMAIN list,
           NEW left \in Filtered(list, places)
    PROVE  left \in Seq(S) /\ Leaves(left, list, places)
<1>1. Cardinality(places) \in Nat
    <2>1. IsFiniteSet(1..Len(list)) /\ DOMAIN list = 1..Len(list)
        BY FS_Interval
    <2> QED
        BY <2>1, FS_Subset, FS_CardinalityType
<1>2. PICK f \in Bijection(1..Cardinality(places), places) :
          /\ left = [k \in DOMAIN f |-> list[f[k]]]
          /\ \A j, k \in DOMAIN f : j < k => f[j] < f[k]
    BY DEF Filtered
<1>3. /\ f \in [1..Cardinality(places) -> places]
      /\ \A i \in places : \E k \in 1..Cardinality(places) : f[k] = i
    BY <1>2 DEF Bijection, Injection, Surjection
<1>4. /\ left \in [1..Cardinality(places) -> S]
      /\ \A k \in 1..Cardinality(places) : left[k] = list[f[k]]
    BY <1>2, <1>3
<1>5. left \in Seq(S) /\ DOMAIN left = 1..Cardinality(places)
    BY <1>1, <1>4
<1>6. /\ f \in [DOMAIN left -> places]
      /\ \A k \in DOMAIN left : left[k] = list[f[k]]
      /\ \A i \in places : \E k \in DOMAIN left : f[k] = i
      /\ \A j, k \in DOMAIN left : j < k => f[j] < f[k]
    BY <1>2, <1>3, <1>4, <1>5
<1> QED
    BY <1>5, <1>6 DEF Leaves

\* The checkpoints of the log, as a restart lists them.
LEMMA Rebuilt ==
    ASSUME GateInv, SnapInv, Restart
    PROVE  /\ checkpoints' \in Seq(Kept)
           /\ \E f \in [DOMAIN checkpoints' -> DOMAIN log] :
                  /\ \A k \in DOMAIN checkpoints' :
                         /\ log[f[k]] = Checkpoint(checkpoints'[k].id)
                         /\ checkpoints'[k].tree = NoTree
                  /\ \A i \in DOMAIN log : log[i].kind = "checkpoint" =>
                         \E k \in DOMAIN checkpoints' : f[k] = i
                  /\ \A j, k \in DOMAIN checkpoints' : j < k => f[j] < f[k]
<1> DEFINE places == {i \in DOMAIN log : log[i].kind = "checkpoint"}
<1>1. PICK turns \in Filtered(log, places) :
          checkpoints' = [i \in DOMAIN turns |-> [id |-> turns[i].turn, tree |-> NoTree]]
    BY DEF Restart
<1>2. log \in Seq(Entry) /\ places \in SUBSET DOMAIN log
    BY DEF GateInv, Typed
<1>3. \A i \in places : log[i] = Checkpoint(log[i].turn) /\ log[i].turn \in Nat
    <2> SUFFICES ASSUME NEW i \in places
                 PROVE  log[i] = Checkpoint(log[i].turn) /\ log[i].turn \in Nat
        OBVIOUS
    <2>1. log[i] \in Entry /\ log[i].kind = "checkpoint"
        BY <1>2
    <2> QED
        BY <2>1 DEF Entry, Checkpoint, UserMessage, Written, Stopped
<1> HIDE DEF places
<1>4. turns \in Seq(Entry)
    BY <1>1, <1>2, WhatIsLeft
<1>5. PICK f \in [DOMAIN turns -> places] :
          /\ \A k \in DOMAIN turns : turns[k] = log[f[k]]
          /\ \A i \in places : \E k \in DOMAIN turns : f[k] = i
          /\ \A j, k \in DOMAIN turns : j < k => f[j] < f[k]
    <2>1. Leaves(turns, log, places)
        BY <1>2, WhatIsLeft
    <2> QED
        BY <2>1 DEF Leaves
<1>6. DOMAIN checkpoints' = DOMAIN turns
    BY <1>1
<1>7. \A k \in DOMAIN turns :
          /\ checkpoints'[k].id = log[f[k]].turn /\ checkpoints'[k].tree = NoTree
          /\ checkpoints'[k] = [id |-> log[f[k]].turn, tree |-> NoTree]
    BY <1>1, <1>5
<1>8. \A k \in DOMAIN turns : log[f[k]] = Checkpoint(checkpoints'[k].id) /\ checkpoints'[k] \in Kept
    <2> SUFFICES ASSUME NEW k \in DOMAIN turns
                 PROVE  log[f[k]] = Checkpoint(checkpoints'[k].id) /\ checkpoints'[k] \in Kept
        OBVIOUS
    <2>1. f[k] \in places
        OBVIOUS
    <2>2. /\ log[f[k]] = Checkpoint(log[f[k]].turn) /\ log[f[k]].turn \in Nat
          /\ checkpoints'[k].id = log[f[k]].turn
          /\ checkpoints'[k] = [id |-> log[f[k]].turn, tree |-> NoTree]
        BY <1>3, <1>7, <2>1
    <2> QED
        BY <2>2 DEF Kept
<1>9. checkpoints' \in Seq(Kept)
    <2>1. DOMAIN turns = 1..Len(turns) /\ Len(turns) \in Nat
        BY <1>4
    <2>2. checkpoints' \in [1..Len(turns) -> Kept]
        BY <1>1, <1>8, <2>1
    <2> QED
        BY <2>1, <2>2
<1>10. f \in [DOMAIN checkpoints' -> DOMAIN log]
    BY <1>2, <1>6
<1>11. \A i \in DOMAIN log : log[i].kind = "checkpoint" => \E k \in DOMAIN checkpoints' : f[k] = i
    BY <1>5, <1>6 DEF places
<1> QED
    BY <1>5, <1>6, <1>7, <1>8, <1>9, <1>10, <1>11

\* A session that is resumed has no snapshots.
LEMMA SnapRestart ==
    ASSUME GateInv, SnapInv, Restart PROVE SnapInv'
<1>1. PICK f \in [DOMAIN checkpoints' -> DOMAIN log] :
          \A k \in DOMAIN checkpoints' :
              /\ log[f[k]] = Checkpoint(checkpoints'[k].id)
              /\ checkpoints'[k].tree = NoTree
    BY Rebuilt
<1>2. used'.turns = used.turns
    BY Using DEF Restart, Mishap, GateInv
<1>3. /\ phase' = [c \in Callers |-> "idle"]
      /\ restoring' = [c \in Callers |-> <<>>] /\ notice'.how = "none"
      /\ UNCHANGED <<was, turn, tree, head>>
    BY DEF Restart, NoNotice
<1>4. \A c \in Callers : ~Opening(c)' /\ ~GoesBack(c)' /\ phase'[c] = "idle"
    BY <1>3 DEF Opening, GoesBack
<1>5. Shaped'
    <2>1. checkpoints' \in Seq(Kept)
        BY Rebuilt
    <2>2. restoring' \in [Callers -> Job \cup {<<>>}]
        BY <1>3
    <2> HIDE <1>1
    <2> QED
        BY <1>2, <1>3, <1>4, <2>1, <2>2 DEF SnapInv, Shaped, Trees, Contents, Kept, Job, NoTree
<1>6. Snapshots'
    <2> SUFFICES ASSUME NEW k \in DOMAIN checkpoints'
                 PROVE  /\ checkpoints'[k].id <= used.turns
                        /\ IsSnapshot(checkpoints[k].tree, checkpoints[k].id)'
        BY <1>2 DEF Snapshots, IsSnapshot, NoTree
    <2>1. f[k] \in DOMAIN log /\ log[f[k]] = Checkpoint(checkpoints'[k].id)
        BY <1>1
    <2>2. Checkpoint(checkpoints'[k].id).turn = checkpoints'[k].id
        BY DEF Checkpoint
    <2> QED
        BY <1>1, <2>1, <2>2 DEF IsSnapshot, NoTree, GateInv, Begun
<1>7. \A c \in Callers : Opens(c)' /\ PutsBack(c)'
    BY <1>4 DEF Opens, PutsBack, GoesBack
<1>8. Says'
    BY <1>3 DEF Says
<1> QED
    BY <1>5, <1>6, <1>7, <1>8 DEF SnapInv

\* The snapshots stay true at every step.
THEOREM SnapNext == GateInv /\ GateInv' /\ SnapInv /\ [Next]_vars => SnapInv'
<1> SUFFICES ASSUME GateInv, GateInv', SnapInv, [Next]_vars PROVE SnapInv'
    OBVIOUS
<1>1. CASE Restart
    BY <1>1, SnapRestart
<1>2. ASSUME NEW c \in Callers,
             \/ PublishMessage(c) \/ Write(c) \/ CycleEnds(c) \/ HearCancel(c) \/ Stop(c)
      PROVE  SnapInv'
    BY <1>2, AsideSteps
<1>3. CASE Cancel \/ Edit \/ UNCHANGED vars
    BY <1>3, AsideSteps
<1>4. ASSUME NEW c \in Callers, PromptTurn(c) \/ Capture(c) PROVE SnapInv'
    BY <1>4, SnapPrompt, SnapCapture
<1>5. ASSUME NEW c \in Callers, Drop(c) \/ RestoreFails(c) PROVE SnapInv'
    BY <1>5, SnapStops
<1>6. ASSUME NEW c \in Callers,
             Rewind(c) \/ Truncate(c) \/ RestorePath(c) \/ RestoreEnds(c)
      PROVE  SnapInv'
    BY <1>6, SnapRewind, SnapTruncate, SnapRestorePath, SnapRestoreEnds
<1> QED
    BY <1>1, <1>2, <1>3, <1>4, <1>5, <1>6 DEF Next

\* A snapshot that is kept is the tree its turn began on, and a rewind under way has put
\* back what it no longer has to do.
THEOREM SnapInvariant == Spec => []SnapInv
<1> QED
    BY GateInit, GateNext, SnapInit, SnapNext, GateInvariant, PTL DEF Spec

\* A rewind that says the files are restored has put back every one as it was when the
\* turn it goes back to began, but for files that were not there and could not be removed.
THEOREM RewindsRestore == Spec => []RewindPutsBack
<1>1. SnapInv => RewindPutsBack
    BY DEF SnapInv, Says, RewindPutsBack
<1> QED
    BY <1>1, SnapInvariant, PTL

-----------------------------------------------------------------------------
(* The list of checkpoints and the log.                                    *)

\* A checkpoint is on the log once.
Once(events) ==
    \A i, j \in DOMAIN events : events[i].kind = "checkpoint" /\ events[i] = events[j] => i = j

Begins(events, id) == \E i \in DOMAIN events : events[i] = Checkpoint(id)

\* The list has the turns that the log has, but for some.
ListedBut(events, list, out) ==
    /\ \A k \in DOMAIN list : Begins(events, list[k].id) /\ list[k].id \notin out
    /\ \A i \in DOMAIN events : events[i].kind = "checkpoint" /\ events[i].turn \notin out =>
           \E k \in DOMAIN list : list[k].id = events[i].turn
    /\ \A j, k \in DOMAIN list : j < k => list[j].id < list[k].id

\* A turn that opens is not listed yet, and one that is rolled back is listed still.
Matched(c) ==
    /\ Opening(c) => ListedBut(log, checkpoints, {turn[c]})
    /\ phase[c] = "rolled back" => ListedBut(log, Truncated(restoring[c].keep), {})

Halfway(c) == Opening(c) \/ phase[c] = "rolled back"

ListInv ==
    /\ Once(log)
    /\ dropped \in BOOLEAN
    /\ ~dropped =>
           /\ \A c \in Callers : Matched(c)
           /\ (\A c \in Callers : ~Halfway(c)) => ListedBut(log, checkpoints, {})

\* No event is where no list is.
THEOREM ListInit == Init => ListInv
<1> SUFFICES ASSUME Init PROVE ListInv
    OBVIOUS
<1>1. DOMAIN log = {} /\ DOMAIN checkpoints = {}
    BY DEF Init
<1>2. Once(log) /\ ListedBut(log, checkpoints, {})
    BY <1>1 DEF Once, ListedBut
<1>3. \A c \in Callers : Matched(c)
    BY DEF Init, Matched, Opening
<1> QED
    BY <1>2, <1>3 DEF Init, ListInv

\* A checkpoint is known by its turn.
LEMMA AsCheckpoint ==
    /\ \A e \in Entry : e.kind = "checkpoint" => e = Checkpoint(e.turn)
    /\ \A id : Checkpoint(id).kind = "checkpoint" /\ Checkpoint(id).turn = id
BY DEF Entry, Checkpoint, UserMessage, Written, Stopped

\* Places of a log that is added to.
LEMMA Longer ==
    ASSUME NEW events \in Seq(Entry), NEW e \in Entry
    PROVE  /\ \A i \in DOMAIN events : i \in DOMAIN Append(events, e)
                                       /\ Append(events, e)[i] = events[i]
           /\ \A i \in DOMAIN Append(events, e) :
                  i \in DOMAIN events \/ (i = Len(events) + 1 /\ Append(events, e)[i] = e)
           /\ Len(events) + 1 \in DOMAIN Append(events, e)
           /\ Append(events, e)[Len(events) + 1] = e
OBVIOUS

\* An event that is no checkpoint changes nothing for a list.
LEMMA ListedStill ==
    ASSUME NEW events \in Seq(Entry), NEW e \in Entry, e.kind # "checkpoint", Once(events)
    PROVE  /\ Once(Append(events, e))
           /\ \A list, out : ListedBut(events, list, out) =>
                  ListedBut(Append(events, e), list, out)
<1> DEFINE more == Append(events, e)
<1>1. /\ \A i \in DOMAIN events : i \in DOMAIN more /\ more[i] = events[i]
      /\ \A i \in DOMAIN more : i \in DOMAIN events \/ more[i] = e
    BY Longer
<1> HIDE DEF more
<1>2. Once(more)
    BY <1>1 DEF Once
<1>3. ASSUME NEW list, NEW out, ListedBut(events, list, out) PROVE ListedBut(more, list, out)
    <2>1. \A id : Begins(events, id) => Begins(more, id)
        BY <1>1 DEF Begins
    <2> QED
        BY <1>1, <1>3, <2>1 DEF ListedBut
<1> QED
    BY <1>2, <1>3 DEF more

\* The checkpoint of a turn that is not on the log is the one the list does not have.
LEMMA ListedButOne ==
    ASSUME NEW events \in Seq(Entry), NEW id \in Nat, ~Begins(events, id), Once(events)
    PROVE  /\ Once(Append(events, Checkpoint(id)))
           /\ \A list : ListedBut(events, list, {}) =>
                  ListedBut(Append(events, Checkpoint(id)), list, {id})
<1> DEFINE more == Append(events, Checkpoint(id))
<1>0. Checkpoint(id) \in Entry
    BY DEF Entry
<1>1. /\ \A i \in DOMAIN events : i \in DOMAIN more /\ more[i] = events[i]
      /\ \A i \in DOMAIN more :
             i \in DOMAIN events \/ (i = Len(events) + 1 /\ more[i] = Checkpoint(id))
    BY <1>0, Longer
<1> HIDE DEF more
<1>2. Once(more)
    BY <1>1 DEF Once, Begins
<1>3. ASSUME NEW list, ListedBut(events, list, {}) PROVE ListedBut(more, list, {id})
    <2>1. \A k \in DOMAIN list : Begins(more, list[k].id) /\ list[k].id # id
        BY <1>1, <1>3 DEF Begins, ListedBut
    <2>2. \A i \in DOMAIN more : more[i].kind = "checkpoint" /\ more[i].turn # id =>
              \E k \in DOMAIN list : list[k].id = more[i].turn
        BY <1>1, <1>3, AsCheckpoint DEF ListedBut
    <2> QED
        BY <1>3, <2>1, <2>2 DEF ListedBut
<1> QED
    BY <1>2, <1>3 DEF more

\* It is listed last.
LEMMA ListedNow ==
    ASSUME NEW events \in Seq(Entry), NEW list \in Seq(Kept), NEW kept \in Kept,
           ListedBut(events, list, {kept.id}), Begins(events, kept.id),
           \A i \in DOMAIN events : events[i].turn <= kept.id
    PROVE  ListedBut(events, Append(list, kept), {})
<1> DEFINE longer == Append(list, kept)
<1>1. /\ \A k \in DOMAIN list : k \in DOMAIN longer /\ longer[k] = list[k]
      /\ \A k \in DOMAIN longer : k \in DOMAIN list \/ k = Len(list) + 1
      /\ Len(list) + 1 \in DOMAIN longer /\ longer[Len(list) + 1] = kept
      /\ DOMAIN list = 1..Len(list) /\ Len(list) \in Nat
    OBVIOUS
<1> HIDE DEF longer
<1>2. kept.id \in Nat /\ \A k \in DOMAIN list : list[k].id \in Nat
    <2>1. \A k \in DOMAIN list : list[k] \in Kept
        OBVIOUS
    <2> QED
        BY <2>1 DEF Kept
<1>3. \A k \in DOMAIN list : list[k].id < kept.id
    <2> SUFFICES ASSUME NEW k \in DOMAIN list PROVE list[k].id < kept.id
        OBVIOUS
    <2>1. PICK i \in DOMAIN events : events[i] = Checkpoint(list[k].id)
        BY DEF ListedBut, Begins
    <2>2. list[k].id <= kept.id /\ list[k].id # kept.id
        BY <2>1, AsCheckpoint DEF ListedBut
    <2> QED
        BY <1>2, <2>2
<1>4. \A k \in DOMAIN longer : Begins(events, longer[k].id)
    BY <1>1 DEF ListedBut
<1>5. \A i \in DOMAIN events : events[i].kind = "checkpoint" =>
          \E k \in DOMAIN longer : longer[k].id = events[i].turn
    BY <1>1 DEF ListedBut
<1>6. \A j, k \in DOMAIN longer : j < k => longer[j].id < longer[k].id
    <2> SUFFICES ASSUME NEW j \in DOMAIN longer, NEW k \in DOMAIN longer, j < k
                 PROVE  longer[j].id < longer[k].id
        OBVIOUS
    <2>1. j \in DOMAIN list
        BY <1>1
    <2>2. CASE k \in DOMAIN list
        BY <1>1, <2>1, <2>2 DEF ListedBut
    <2>3. CASE k = Len(list) + 1
        BY <1>1, <1>3, <2>1, <2>3
    <2> QED
        BY <1>1, <2>2, <2>3
<1>7. ListedBut(events, longer, {})
    BY <1>4, <1>5, <1>6 DEF ListedBut
<1> QED
    BY <1>7 DEF longer

\* A log cut before a checkpoint goes with the list cut before it.
LEMMA ListedBefore ==
    ASSUME GateInv, Once(log), NEW list \in Seq(Kept), ListedBut(log, list, {}),
           NEW n \in DOMAIN list, NEW p \in DOMAIN log, log[p] = Checkpoint(list[n].id)
    PROVE  /\ Once(SubSeq(log, 1, p - 1))
           /\ ListedBut(SubSeq(log, 1, p - 1), SubSeq(list, 1, n - 1), {})
<1> DEFINE rest == SubSeq(log, 1, p - 1)
           less == SubSeq(list, 1, n - 1)
<1>1. /\ log \in Seq(Entry) /\ DOMAIN log = 1..Len(log) /\ Len(log) \in Nat
      /\ DOMAIN list = 1..Len(list) /\ Len(list) \in Nat
      /\ p - 1 \in 0..Len(log) /\ n - 1 \in 0..Len(list)
    BY DEF GateInv, Typed
<1>2. /\ DOMAIN rest = 1..(p - 1)
      /\ \A i \in 1..(p - 1) : i \in DOMAIN log /\ rest[i] = log[i]
    BY <1>1, FirstOf
<1>3. /\ DOMAIN less = 1..(n - 1)
      /\ \A k \in 1..(n - 1) : k \in DOMAIN list /\ less[k] = list[k]
    BY <1>1, FirstOf
<1> HIDE DEF rest, less
<1>4. Once(rest)
    BY <1>2 DEF Once
<1>5. /\ \A k \in DOMAIN list : list[k].id \in Nat
      /\ \A i \in DOMAIN log : log[i].turn \in Nat
    <2>1. \A k \in DOMAIN list : list[k] \in Kept
        OBVIOUS
    <2> QED
        BY <1>1, <2>1, TurnOfEntry DEF Kept
<1>6. log[p].turn = list[n].id
    BY AsCheckpoint
<1>7. \A i, j \in DOMAIN log : j <= i => log[j].turn <= log[i].turn
    BY <1>1 DEF GateInv, TurnsDoNotInterleave
<1>8. \A k \in DOMAIN less : Begins(rest, less[k].id)
    <2> SUFFICES ASSUME NEW k \in DOMAIN less PROVE Begins(rest, less[k].id)
        OBVIOUS
    <2>1. k \in DOMAIN list /\ less[k] = list[k] /\ k < n
        BY <1>1, <1>3
    <2>2. list[k].id < list[n].id
        BY <2>1 DEF ListedBut
    <2>3. PICK i \in DOMAIN log : log[i] = Checkpoint(list[k].id)
        BY <2>1 DEF ListedBut, Begins
    <2>4. log[i].turn = list[k].id
        BY <2>3, AsCheckpoint
    <2>5. ~(p <= i)
        BY <1>5, <1>6, <1>7, <2>1, <2>2, <2>4
    <2>6. i \in 1..(p - 1)
        BY <1>1, <2>5
    <2> QED
        BY <1>2, <2>1, <2>3, <2>6 DEF Begins
<1>9. ASSUME NEW i \in DOMAIN rest, rest[i].kind = "checkpoint"
      PROVE  \E k \in DOMAIN less : less[k].id = rest[i].turn
    <2>1. i \in DOMAIN log /\ rest[i] = log[i] /\ i < p
        BY <1>1, <1>2
    <2>2. PICK k \in DOMAIN list : list[k].id = log[i].turn
        BY <1>9, <2>1 DEF ListedBut
    <2>3. list[k].id <= list[n].id
        BY <1>1, <1>6, <1>7, <2>1, <2>2
    <2>4. ~(n < k)
        <3>1. n < k => list[n].id < list[k].id
            BY DEF ListedBut
        <3> QED
            BY <1>5, <2>3, <3>1
    <2>5. k # n
        <3>1. log[i] \in Entry
            BY <1>1, <2>1
        <3>2. log[i] = Checkpoint(log[i].turn)
            BY <1>9, <2>1, <3>1, AsCheckpoint
        <3>3. k = n => log[i] = log[p]
            BY <2>2, <3>2
        <3>4. log[i] # log[p]
            BY <1>1, <1>9, <2>1 DEF Once
        <3> QED
            BY <3>3, <3>4
    <2>6. k \in 1..(n - 1)
        BY <1>1, <2>4, <2>5
    <2> QED
        BY <1>3, <2>1, <2>2, <2>6
<1>10. \A j, k \in DOMAIN less : j < k => less[j].id < less[k].id
    BY <1>3 DEF ListedBut
<1>11. ListedBut(rest, less, {})
    BY <1>8, <1>9, <1>10 DEF ListedBut
<1> QED
    BY <1>4, <1>11 DEF rest, less

-----------------------------------------------------------------------------
(* The steps, and the list.                                                *)

\* The steps that leave the list, and the checkpoints of the log, as they are.
LEMMA ListAside ==
    ASSUME GateInv, ListInv, UNCHANGED <<checkpoints, turn, dropped>>,
           \/ log' = log
           \/ \E e \in Entry : e.kind # "checkpoint" /\ log' = Append(log, e),
           \A c \in Callers :
               /\ Opening(c)' <=> Opening(c)
               /\ phase'[c] = "rolled back" <=> phase[c] = "rolled back"
               /\ phase'[c] = "rolled back" => restoring'[c] = restoring[c]
    PROVE  ListInv'
<1>1. /\ Once(log')
      /\ \A list, out : ListedBut(log, list, out) => ListedBut(log', list, out)
    <2>1. CASE log' = log
        BY <2>1 DEF ListInv
    <2>2. CASE log' # log
        <3>1. PICK e \in Entry : e.kind # "checkpoint" /\ log' = Append(log, e)
            BY <2>2
        <3>2. Once(log) /\ log \in Seq(Entry)
            BY DEF ListInv, GateInv, Typed
        <3>3. /\ Once(Append(log, e))
              /\ \A list, out : ListedBut(log, list, out) => ListedBut(Append(log, e), list, out)
            BY <3>1, <3>2, ListedStill
        <3> QED
            BY <3>1, <3>3
    <2> QED
        BY <2>1, <2>2
<1>2. dropped' \in BOOLEAN
    BY DEF ListInv
<1>3. ASSUME ~dropped', NEW c \in Callers PROVE Matched(c)'
    <2>1. Matched(c)
        BY <1>3 DEF ListInv
    <2>2. Opening(c)' => ListedBut(log', checkpoints', {turn'[c]})
        BY <1>1, <2>1 DEF Matched
    <2>3. phase'[c] = "rolled back" => ListedBut(log', Truncated(restoring[c].keep)', {})
        <3> SUFFICES ASSUME phase'[c] = "rolled back"
                     PROVE  ListedBut(log', Truncated(restoring[c].keep)', {})
            OBVIOUS
        <3>1. Truncated(restoring[c].keep)' = Truncated(restoring[c].keep)
            BY DEF Truncated
        <3>2. ListedBut(log, Truncated(restoring[c].keep), {})
            BY <2>1 DEF Matched
        <3> QED
            BY <1>1, <3>1, <3>2
    <2> QED
        BY <2>2, <2>3 DEF Matched
<1>4. ASSUME ~dropped', \A c \in Callers : ~Halfway(c)'
      PROVE  ListedBut(log', checkpoints', {})
    <2>1. \A c \in Callers : ~Halfway(c)
        BY <1>4 DEF Halfway
    <2> QED
        BY <1>1, <1>4, <2>1 DEF ListInv
<1> QED
    BY <1>1, <1>2, <1>3, <1>4 DEF ListInv

\* The steps that begin no turn, list none and go back to none.
LEMMA ListAsideSteps ==
    ASSUME GateInv, ListInv, NEW c,
           \/ Cancel \/ Edit \/ UNCHANGED vars
           \/ c \in Callers /\ (\/ PublishMessage(c) \/ Write(c) \/ CycleEnds(c)
                               \/ HearCancel(c) \/ Stop(c) \/ RestorePath(c)
                               \/ RestoreFails(c) \/ RestoreEnds(c))
    PROVE  ListInv'
<1>1. UNCHANGED <<checkpoints, turn, dropped>>
    BY DEF Cancel, Edit, vars, PublishMessage, Write, CycleEnds, HearCancel, Stop,
        RestorePath, RestoreFails, RestoreEnds
<1>2. \A d \in Callers :
          /\ Opening(d)' <=> Opening(d)
          /\ phase'[d] = "rolled back" <=> phase[d] = "rolled back"
    <2>1. phase \in [Callers -> Phases]
        BY DEF GateInv, Typed
    <2>2. CASE Cancel \/ Edit \/ UNCHANGED vars \/ (c \in Callers /\ (Write(c) \/ RestorePath(c)))
        <3>1. phase' = phase
            BY <2>2 DEF Cancel, Edit, vars, Write, RestorePath
        <3> QED
            BY <3>1 DEF Opening
    <2>3. CASE c \in Callers /\ PublishMessage(c)
        BY <2>1, <2>3 DEF PublishMessage, Go, Opening
    <2>4. CASE c \in Callers /\ (\/ CycleEnds(c) \/ HearCancel(c) \/ Stop(c)
                                 \/ RestoreFails(c) \/ RestoreEnds(c))
        <3>1. /\ phase[c] \notin {"opened", "published", "rolled back"}
              /\ Go(c, "idle") \/ Go(c, "stopping")
            BY <2>4 DEF CycleEnds, HearCancel, Stop, RestoreFails, RestoreEnds, EndRewind
        <3> QED
            BY <2>1, <2>4, <3>1 DEF Go, Opening
    <2> QED
        BY <2>2, <2>3, <2>4
<1>3. \A d \in Callers : phase'[d] = "rolled back" => restoring'[d] = restoring[d]
    <2> SUFFICES ASSUME NEW d \in Callers, phase[d] = "rolled back"
                 PROVE  restoring'[d] = restoring[d]
        BY <1>2
    <2>1. CASE UNCHANGED restoring
        BY <2>1
    <2>2. CASE ~UNCHANGED restoring
        <3>1. c \in Callers /\ (RestorePath(c) \/ RestoreFails(c) \/ RestoreEnds(c))
            BY <2>2 DEF Cancel, Edit, vars, PublishMessage, Write, CycleEnds, HearCancel, Stop
        <3>2. phase[c] = "restoring"
            BY <3>1 DEF RestorePath, RestoreFails, RestoreEnds
        <3> QED
            BY <3>1, <3>2, OthersIdle
    <2> QED
        BY <2>1, <2>2
<1>4. \/ log' = log
      \/ \E e \in Entry : e.kind # "checkpoint" /\ log' = Append(log, e)
    <2>1. CASE UNCHANGED log
        BY <2>1
    <2>2. CASE c \in Callers /\ (PublishMessage(c) \/ Stop(c) \/ Write(c)) /\ log' # log
        <3>1. turn[c] \in Nat
            BY <2>2 DEF GateInv, Typed
        <3>2. PICK e \in {UserMessage(turn[c]), Stopped(turn[c])}
                         \cup {Written(turn[c], f) : f \in Files} : log' = Append(log, e)
            BY <2>2 DEF PublishMessage, Stop, Write, Publish
        <3>3. e \in Entry /\ e.kind # "checkpoint"
            BY <3>1, <3>2 DEF Entry, UserMessage, Stopped, Written
        <3> QED
            BY <3>2, <3>3
    <2> QED
        BY <2>1, <2>2 DEF Cancel, Edit, vars, CycleEnds, HearCancel, RestorePath, RestoreFails,
            RestoreEnds
<1> QED
    BY <1>1, <1>2, <1>3, <1>4, ListAside

\* A turn that opens is the one that the list does not have.
LEMMA ListPrompt ==
    ASSUME GateInv, ListInv, NEW c \in Callers, PromptTurn(c) PROVE ListInv'
<1>1. PICK id \in Nat : id = used.turns + 1
    BY DEF GateInv, Typed
<1>2. /\ turn' = [turn EXCEPT ![c] = id] /\ phase' = [phase EXCEPT ![c] = "opened"]
      /\ log' = Append(log, Checkpoint(id))
      /\ \A d \in Callers : phase[d] = "idle"
      /\ UNCHANGED <<checkpoints, dropped>>
    BY <1>1 DEF PromptTurn, Publish, Go, Free
<1>3. turn'[c] = id /\ \A d \in Callers : phase'[d] = IF d = c THEN "opened" ELSE "idle"
    BY <1>2 DEF GateInv, Typed
<1>4. ~Begins(log, id)
    <2>1. \A i \in DOMAIN log : log[i].turn # id
        BY <1>1, TurnOfEntry DEF GateInv, Typed, Begun
    <2> QED
        BY <2>1, AsCheckpoint DEF Begins
<1>5. /\ Once(log')
      /\ \A list : ListedBut(log, list, {}) => ListedBut(log', list, {id})
    <2>1. log \in Seq(Entry) /\ Once(log)
        BY DEF GateInv, Typed, ListInv
    <2>2. /\ Once(Append(log, Checkpoint(id)))
          /\ \A list : ListedBut(log, list, {}) => ListedBut(Append(log, Checkpoint(id)), list, {id})
        BY <1>4, <2>1, ListedButOne
    <2> QED
        BY <1>2, <2>2
<1>6. ASSUME ~dropped', NEW d \in Callers PROVE Matched(d)'
    <2>1. ListedBut(log, checkpoints, {})
        BY <1>2, <1>6 DEF ListInv, Halfway, Opening
    <2>2. ListedBut(log', checkpoints', {id})
        BY <1>2, <1>5, <2>1
    <2>3. CASE d = c
        BY <1>3, <2>2, <2>3 DEF Matched
    <2>4. CASE d # c
        BY <1>3, <2>4 DEF Matched, Opening
    <2> QED
        BY <2>3, <2>4
<1>7. Halfway(c)'
    BY <1>3 DEF Halfway, Opening
<1> QED
    BY <1>2, <1>5, <1>6, <1>7 DEF ListInv

\* The turn that was opened is listed.
LEMMA ListCapture ==
    ASSUME GateInv, SnapInv, ListInv, NEW c \in Callers, Capture(c) PROVE ListInv'
<1>1. PICK id \in Nat : id = turn[c]
    BY DEF GateInv, Typed
<1>2. /\ phase[c] = "published" /\ phase' = [phase EXCEPT ![c] = "cycling"]
      /\ UNCHANGED <<log, turn, dropped>>
    BY DEF Capture, Go
<1>3. PICK kept \in {tree, NoTree} : checkpoints' = Append(checkpoints, [id |-> id, tree |-> kept])
    BY <1>1 DEF Capture
<1>4. PICK new \in Kept : new = [id |-> id, tree |-> kept] /\ new.id = id
    <2>1. kept \in Trees \cup {NoTree}
        BY DEF SnapInv, Shaped
    <2>2. [id |-> id, tree |-> kept] \in Kept /\ [id |-> id, tree |-> kept].id = id
        BY <2>1 DEF Kept
    <2> QED
        BY <2>2
<1>5. \A d \in Callers : phase'[d] \in {"idle", "cycling"}
    BY <1>2, OthersIdle DEF GateInv, Typed
<1>6. /\ log \in Seq(Entry) /\ checkpoints \in Seq(Kept)
      /\ Begins(log, id) /\ \A i \in DOMAIN log : log[i].turn <= id
    BY <1>1, <1>2 DEF GateInv, Typed, SnapInv, Shaped, Newest, InTurn, OnLog, Begins
<1>7. ASSUME ~dropped' PROVE ListedBut(log', checkpoints', {})
    <2>1. Opening(c) /\ Matched(c)
        BY <1>2, <1>7 DEF ListInv, Opening
    <2>2. ListedBut(log, checkpoints, {id})
        BY <1>1, <2>1 DEF Matched
    <2>3. ListedBut(log, Append(checkpoints, new), {})
        BY <1>4, <1>6, <2>2, ListedNow
    <2> QED
        BY <1>2, <1>3, <1>4, <2>3
<1>8. \A d \in Callers : Matched(d)'
    BY <1>5 DEF Matched, Opening
<1> QED
    BY <1>2, <1>7, <1>8 DEF ListInv

\* The log is cut before a checkpoint; the list will be.
LEMMA ListRewind ==
    ASSUME GateInv, SnapInv, ListInv, NEW c \in Callers, Rewind(c) PROVE ListInv'
<1>1. /\ \A d \in Callers : phase[d] = "idle"
      /\ UNCHANGED <<checkpoints, dropped>>
    BY DEF Rewind, Free
<1>2. CASE UNCHANGED <<log, turn, restoring, phase>>
    BY <1>1, <1>2, ListAside DEF Opening
<1>3. CASE ~UNCHANGED <<log, turn, restoring, phase>>
    <2>1. PICK i \in DOMAIN checkpoints :
             /\ log' = SubSeq(log, 1, From(checkpoints[i].id) - 1)
             /\ restoring' = [restoring EXCEPT ![c] =
                    [target |-> checkpoints[i], keep |-> i - 1,
                     touched |-> Touched(checkpoints[i].id), todo |-> {}]]
             /\ phase' = [phase EXCEPT ![c] = "rolled back"]
             /\ OnLog(checkpoints[i].id)
        BY <1>3 DEF Rewind, Go
    <2>2. PICK p \in DOMAIN log : p = From(checkpoints[i].id) /\ log[p] = Checkpoint(checkpoints[i].id)
        BY <2>1 DEF OnLog, From
    <2>3. restoring'[c].keep = i - 1
        BY <2>1 DEF SnapInv, Shaped
    <2>4. \A d \in Callers : phase'[d] = IF d = c THEN "rolled back" ELSE "idle"
        BY <1>1, <2>1 DEF GateInv, Typed
    <2>5. ASSUME NEW list, list = checkpoints, ListedBut(log, list, {})
          PROVE  ListedBut(log', SubSeq(list, 1, i - 1), {})
        <3>1. list \in Seq(Kept) /\ i \in DOMAIN list /\ log[p] = Checkpoint(list[i].id) /\ Once(log)
            BY <2>2, <2>5 DEF SnapInv, Shaped, ListInv
        <3> QED
            BY <2>1, <2>2, <2>5, <3>1, ListedBefore
    <2>6. Once(log')
        <3>1. DOMAIN log' \subseteq DOMAIN log /\ \A j \in DOMAIN log' : log'[j] = log[j]
            <4>1. log \in Seq(Entry) /\ Len(log) \in Nat /\ DOMAIN log = 1..Len(log)
                BY DEF GateInv, Typed
            <4>2. PICK n \in 0..Len(log) : n = p - 1
                BY <4>1
            <4>3. log' = SubSeq(log, 1, n)
                BY <2>1, <2>2, <4>2
            <4>4. /\ DOMAIN SubSeq(log, 1, n) = 1..n
                  /\ \A j \in 1..n : j \in DOMAIN log /\ SubSeq(log, 1, n)[j] = log[j]
                BY <4>1, FirstOf
            <4> HIDE <4>2
            <4> QED
                BY <4>3, <4>4
        <3> QED
            BY <3>1 DEF Once, ListInv
    <2>7. ASSUME ~dropped', NEW d \in Callers PROVE Matched(d)'
        <3>1. ListedBut(log, checkpoints, {})
            BY <1>1, <2>7 DEF ListInv, Halfway, Opening
        <3>2. ListedBut(log', SubSeq(checkpoints, 1, i - 1), {})
            BY <2>5, <3>1
        <3>3. Truncated(restoring[c].keep)' = SubSeq(checkpoints, 1, i - 1)
            BY <1>1, <2>3 DEF Truncated
        <3>4. ListedBut(log', Truncated(restoring[c].keep)', {})
            BY <3>2, <3>3
        <3>5. CASE d = c
            BY <2>4, <3>4, <3>5 DEF Matched, Opening
        <3>6. CASE d # c
            BY <2>4, <3>6 DEF Matched, Opening
        <3> QED
            BY <3>5, <3>6
    <2>8. Halfway(c)'
        BY <2>4 DEF Halfway
    <2> QED
        BY <1>1, <2>6, <2>7, <2>8 DEF ListInv
<1> QED
    BY <1>2, <1>3

\* The list is cut as the log was.
LEMMA ListTruncate ==
    ASSUME GateInv, ListInv, NEW c \in Callers, Truncate(c) PROVE ListInv'
<1>1. /\ phase[c] = "rolled back" /\ checkpoints' = Truncated(restoring[c].keep)
      /\ Go(c, "idle") \/ Go(c, "restoring")
      /\ UNCHANGED <<log, dropped>>
    <2>1. phase[c] = "rolled back" /\ checkpoints' = Truncated(restoring[c].keep)
        BY DEF Truncate
    <2>2. Go(c, "idle") \/ Go(c, "restoring")
        BY Zenon DEF Truncate, EndRewind
    <2>3. UNCHANGED <<log, dropped>>
        BY DEF Truncate
    <2> QED
        BY <2>1, <2>2, <2>3
<1>2. \A d \in Callers : phase'[d] \in {"idle", "restoring"}
    <2>1. \A d \in Callers \ {c} : phase[d] = "idle"
        BY <1>1, OthersIdle
    <2>2. DOMAIN phase = Callers
        BY DEF GateInv, Typed
    <2> QED
        BY <1>1, <2>1, <2>2 DEF Go
<1>3. \A d \in Callers : Matched(d)'
    BY <1>2 DEF Matched, Opening
<1>4. ~dropped' => ListedBut(log', checkpoints', {})
    BY <1>1 DEF ListInv, Matched
<1> QED
    BY <1>1, <1>3, <1>4 DEF ListInv

\* A request that is dropped half way leaves a mark.
LEMMA ListDrop ==
    ASSUME GateInv, ListInv, NEW c \in Callers, Drop(c) PROVE ListInv'
<1>1. /\ phase[c] # "idle" /\ phase' = [phase EXCEPT ![c] = "idle"]
      /\ dropped' = (dropped \/ Halfway(c))
      /\ UNCHANGED <<log, checkpoints>>
    BY DEF Drop, Go, Halfway, Opening
<1>2. \A d \in Callers : phase'[d] = "idle"
    BY <1>1, OthersIdle DEF GateInv, Typed
<1>3. \A d \in Callers : Matched(d)'
    BY <1>2 DEF Matched, Opening
<1>4. ~dropped' => \A d \in Callers : ~Halfway(d)
    BY <1>1, OthersIdle DEF Halfway, Opening
<1>5. dropped' \in BOOLEAN /\ (~dropped' => ~dropped)
    BY <1>1 DEF ListInv
<1> QED
    BY <1>1, <1>3, <1>4, <1>5 DEF ListInv

\* A restart lists the log anew.
LEMMA ListRestart ==
    ASSUME GateInv, SnapInv, ListInv, Restart PROVE ListInv'
<1>1. /\ phase' = [c \in Callers |-> "idle"] /\ dropped' = FALSE /\ log' = log
    BY DEF Restart
<1>2. PICK f \in [DOMAIN checkpoints' -> DOMAIN log] :
          /\ \A k \in DOMAIN checkpoints' : log[f[k]] = Checkpoint(checkpoints'[k].id)
          /\ \A i \in DOMAIN log : log[i].kind = "checkpoint" =>
                 \E k \in DOMAIN checkpoints' : f[k] = i
          /\ \A j, k \in DOMAIN checkpoints' : j < k => f[j] < f[k]
    BY Rebuilt
<1>3. PICK list : list = checkpoints'
    OBVIOUS
<1>4. \A k \in DOMAIN list : f[k] \in DOMAIN log /\ log[f[k]] = Checkpoint(list[k].id)
                             /\ log[f[k]].turn = list[k].id
    BY <1>2, <1>3, AsCheckpoint
<1>5. \A i \in DOMAIN log : i \in Nat /\ log[i].turn \in Nat
    BY TurnOfEntry DEF GateInv, Typed
<1>6. \A j, k \in DOMAIN list : j < k => list[j].id < list[k].id
    <2> SUFFICES ASSUME NEW j \in DOMAIN list, NEW k \in DOMAIN list, j < k
                 PROVE  list[j].id < list[k].id
        OBVIOUS
    <2>1. f[j] \in DOMAIN log /\ f[k] \in DOMAIN log /\ f[j] < f[k]
        BY <1>2, <1>3, <1>4
    <2>2. log[f[j]].turn <= log[f[k]].turn
        <3>1. f[j] \in 1..f[k]
            BY <2>1 DEF GateInv, Typed
        <3> QED
            BY <2>1, <3>1 DEF GateInv, TurnsDoNotInterleave
    <2>3. list[j].id # list[k].id
        <3>1. log[f[j]].kind = "checkpoint"
            BY <1>4, AsCheckpoint
        <3>2. log[f[j]] # log[f[k]]
            BY <1>5, <2>1, <3>1 DEF ListInv, Once
        <3> QED
            BY <1>4, <3>2
    <2> QED
        BY <1>4, <1>5, <2>1, <2>2, <2>3
<1>7. ListedBut(log, list, {})
    <2>1. \A i \in DOMAIN log : log[i].kind = "checkpoint" =>
              \E k \in DOMAIN list : list[k].id = log[i].turn
        BY <1>2, <1>3, <1>4
    <2> QED
        BY <1>4, <1>6, <2>1 DEF ListedBut, Begins
<1>8. \A c \in Callers : Matched(c)'
    BY <1>1 DEF Matched, Opening
<1> QED
    BY <1>1, <1>3, <1>7, <1>8 DEF ListInv

\* The list and the log go together at every step.
THEOREM ListNext == GateInv /\ SnapInv /\ ListInv /\ [Next]_vars => ListInv'
<1> SUFFICES ASSUME GateInv, SnapInv, ListInv, [Next]_vars PROVE ListInv'
    OBVIOUS
<1>1. CASE Restart
    BY <1>1, ListRestart
<1>2. ASSUME NEW c \in Callers,
             \/ PublishMessage(c) \/ Write(c) \/ CycleEnds(c) \/ HearCancel(c) \/ Stop(c)
             \/ RestorePath(c) \/ RestoreFails(c) \/ RestoreEnds(c)
      PROVE  ListInv'
    BY <1>2, ListAsideSteps
<1>3. CASE Cancel \/ Edit \/ UNCHANGED vars
    BY <1>3, ListAsideSteps
<1>4. ASSUME NEW c \in Callers,
             PromptTurn(c) \/ Capture(c) \/ Rewind(c) \/ Truncate(c) \/ Drop(c)
      PROVE  ListInv'
    BY <1>4, ListPrompt, ListCapture, ListRewind, ListTruncate, ListDrop
<1> QED
    BY <1>1, <1>2, <1>3, <1>4 DEF Next

\* The list goes with the log in every state a session can reach.
THEOREM ListInvariant == Spec => []ListInv
<1> QED
    BY GateInvariant, SnapInvariant, ListInit, ListNext, PTL DEF Spec

\* Between prompts and rewinds the list has the turns of the log, each once and in order,
\* unless a request was dropped half way.
THEOREM CheckpointsAreTheLog == Spec => []CheckpointsMatch
<1>1. ListInv => CheckpointsMatch
    <2> SUFFICES ASSUME ListInv, ~dropped,
                        \A c \in Callers : phase[c] \in {"idle", "cycling", "stopping"}
                 PROVE  Listed(checkpoints)
        BY DEF CheckpointsMatch
    <2>1. ListedBut(log, checkpoints, {})
        BY DEF ListInv, Halfway, Opening
    <2> QED
        BY <2>1 DEF ListedBut, Listed, Begins, OnLog
<1> QED
    BY <1>1, ListInvariant, PTL

=============================================================================
