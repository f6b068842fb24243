---------------------------- MODULE CodingSession ----------------------------
(***************************************************************************)
(* A session of the coding agent (example-coding-agent/src/agent.rs) over  *)
(* the files it works on (snapshot.rs): prompts, cancellation, rewinds and *)
(* resumption, called by clients that may give up at any await.            *)
(*                                                                         *)
(* A turn is known by its checkpoint event. The log holds the checkpoint,  *)
(* the user's message, and one event for each result that names a file it  *)
(* wrote; the tombstone of a rewind and the wording of notices are left    *)
(* out. What a file holds is a small number, 0 when there is no such file. *)
(* What a cycle does besides writing files is ToolCycle.                   *)
(*                                                                         *)
(* A definition marked "Slip" is not part of the model: it is a way to get *)
(* the definition after it wrong, kept to show that a property notices.    *)
(***************************************************************************)
EXTENDS Integers, Sequences, FiniteSets, SequencesExt, Filtering

CONSTANTS
    Callers,      \* the requests that may be under way at once
    Files,        \* the files of the workspace that git does not ignore
    MaxContent,   \* bound: the contents a file may have
    Starts,       \* the trees a session may start on
    MaxTurns,     \* bound: prompts
    MaxWrites,    \* bound: writes, the user's and the agent's
    MaxRewinds,   \* bound: rewinds
    MaxMishaps    \* bound: requests dropped, git commands and removals that fail, restarts

ASSUME BoundsAssumption ==
    /\ {MaxContent, MaxTurns, MaxWrites, MaxRewinds, MaxMishaps} \subseteq Nat
    /\ Starts \subseteq [Files -> 0..MaxContent]

Contents == 0..MaxContent
NoTree == <<>>
NoNotice == [how |-> "none", of |-> 0, left |-> {}]

VARIABLES
    log,          \* the session's bus
    checkpoints,  \* CodingSession::checkpoints
    tree,         \* the working tree
    head,         \* what the files are in the commit HEAD
    phase,        \* where each request is
    turn,         \* the checkpoint of the turn each request runs or goes back to
    restoring,    \* what a rewind keeps and puts back, and the paths still to do
    cancelled,    \* CodingSession::cancelled
    signal,       \* the cycle's receiver has a change it has not seen
    used,         \* how much of each bound is used up
    was,          \* history: the tree at each turn's checkpoint
    asked,        \* history: cancel was called in this turn's cycle
    notice,       \* history: how the last rewind ended, to which turn it went back, and
                  \* which files it could not remove
    dropped       \* history: a prompt or a rewind was dropped half way since the start

vars == <<log, checkpoints, tree, head, phase, turn, restoring, cancelled, signal, used,
          was, asked, notice, dropped>>

-----------------------------------------------------------------------------
Checkpoint(id) == [kind |-> "checkpoint", turn |-> id]
UserMessage(id) == [kind |-> "user.message", turn |-> id]
Written(id, f) == [kind |-> "tool.result", turn |-> id, path |-> f]
Stopped(id) == [kind |-> "system.message", turn |-> id]

Publish(e) == log' = Append(log, e)
OnLog(id) == \E i \in DOMAIN log : log[i] = Checkpoint(id)
Use(what) == used' = [used EXCEPT ![what] = @ + 1]
Mishap == used.mishaps < MaxMishaps /\ Use("mishaps")

\* turn_gate: held from the first step of a turn or a rewind to its last.
\* Slip: only a running cycle is in the way.
Free_BetweenHalves == \A c \in Callers : phase[c] # "cycling"
Free == \A c \in Callers : phase[c] = "idle"

Go(c, where) == phase' = [phase EXCEPT ![c] = where]

-----------------------------------------------------------------------------
(* submit_prompt and cycle_locked, under the gate prompt_turn holds.       *)

\* The flag is cleared and the channel told so; then the checkpoint is published.
PromptTurn(c) ==
    /\ phase[c] = "idle"
    /\ Free
    /\ used.turns < MaxTurns
    /\ Use("turns")
    /\ cancelled' = FALSE
    /\ signal' = [d \in Callers |-> signal[d] \/ phase[d] = "cycling"]
    /\ LET id == used.turns + 1 IN
       /\ turn' = [turn EXCEPT ![c] = id]
       /\ Publish(Checkpoint(id))
    /\ Go(c, "opened")
    /\ was' = [was EXCEPT ![used.turns + 1] = tree]
    /\ notice' = NoNotice
    /\ UNCHANGED <<checkpoints, tree, head, restoring, asked, dropped>>

PublishMessage(c) ==
    /\ phase[c] = "opened"
    /\ Publish(UserMessage(turn[c]))
    /\ Go(c, "published")
    /\ UNCHANGED <<checkpoints, tree, head, turn, restoring, cancelled, signal, used, was,
                   asked, notice, dropped>>

\* snapshot::capture, or no snapshot; the checkpoint is recorded and the cycle begins:
\* what the channel holds by now counts as seen.
Capture(c) ==
    /\ phase[c] = "published"
    /\ \/ /\ checkpoints' = Append(checkpoints, [id |-> turn[c], tree |-> tree])
          /\ UNCHANGED used
       \/ /\ Mishap
          /\ checkpoints' = Append(checkpoints, [id |-> turn[c], tree |-> NoTree])
    /\ signal' = [signal EXCEPT ![c] = FALSE]
    /\ was' = [was EXCEPT ![turn[c]] = tree]
    /\ Go(c, "cycling")
    /\ UNCHANGED <<log, tree, head, turn, restoring, cancelled, asked, notice, dropped>>

\* An editing tool publishes what it wrote; a command does not say, and no more does a tool
\* dropped before its result.
Write(c) ==
    /\ phase[c] = "cycling"
    /\ used.writes < MaxWrites
    /\ Use("writes")
    /\ \E f \in Files, v \in Contents :
           /\ tree' = [tree EXCEPT ![f] = v]
           /\ Publish(Written(turn[c], f)) \/ UNCHANGED log
    /\ UNCHANGED <<checkpoints, head, phase, turn, restoring, cancelled, signal, was, asked,
                   notice, dropped>>

CycleEnds(c) ==
    /\ phase[c] = "cycling"
    /\ Go(c, "idle")
    /\ asked' = [asked EXCEPT ![c] = FALSE]
    /\ UNCHANGED <<log, checkpoints, tree, head, turn, restoring, cancelled, signal, used,
                   was, notice, dropped>>

\* The select takes the other branch: the cycle is dropped.
HearCancel(c) ==
    /\ phase[c] = "cycling"
    /\ signal[c]
    /\ Go(c, "stopping")
    /\ UNCHANGED <<log, checkpoints, tree, head, turn, restoring, cancelled, signal, used,
                   was, asked, notice, dropped>>

\* reconcile_interrupted_tools, and the message that says so.
Stop(c) ==
    /\ phase[c] = "stopping"
    /\ Publish(Stopped(turn[c]))
    /\ Go(c, "idle")
    /\ asked' = [asked EXCEPT ![c] = FALSE]
    /\ UNCHANGED <<checkpoints, tree, head, turn, restoring, cancelled, signal, used, was,
                   notice, dropped>>

\* Slip: the flag alone, which is what it used to be.
Cancel_FlagOnly ==
    /\ ~cancelled
    /\ cancelled' = TRUE
    /\ asked' = [c \in Callers |-> phase[c] = "cycling"]
    /\ UNCHANGED <<log, checkpoints, tree, head, phase, turn, restoring, signal, used, was,
                   notice, dropped>>
Cancel ==
    /\ ~cancelled
    /\ cancelled' = TRUE
    /\ signal' = [c \in Callers |-> signal[c] \/ phase[c] = "cycling"]
    /\ asked' = [c \in Callers |-> phase[c] = "cycling"]
    /\ UNCHANGED <<log, checkpoints, tree, head, phase, turn, restoring, used, was, notice,
                   dropped>>

-----------------------------------------------------------------------------
(* rewind and rewind_to, which differ in how the target is named.          *)

From(id) == CHOOSE i \in DOMAIN log : log[i] = Checkpoint(id)
Touched(id) ==
    {log[i].path : i \in {j \in DOMAIN log : log[j].kind = "tool.result" /\ j > From(id)}}

\* git diff --name-status of the snapshot and what stands for the tree as it is.
Diff(from, to) == {f \in Files : from[f] # to[f]}

\* The log is rolled back; a target that is on no path is an error, and nothing is done.
Rewind(c) ==
    /\ phase[c] = "idle"
    /\ Free
    /\ used.rewinds < MaxRewinds
    /\ Use("rewinds")
    /\ \E i \in DOMAIN checkpoints : LET target == checkpoints[i] IN
           IF OnLog(target.id)
             THEN /\ log' = SubSeq(log, 1, From(target.id) - 1)
                  /\ turn' = [turn EXCEPT ![c] = target.id]
                  /\ restoring' = [restoring EXCEPT ![c] =
                         [target |-> target, keep |-> i - 1,
                          touched |-> Touched(target.id), todo |-> {}]]
                  /\ Go(c, "rolled back")
             ELSE UNCHANGED <<log, turn, restoring, phase>>
    /\ notice' = NoNotice
    /\ UNCHANGED <<checkpoints, tree, head, cancelled, signal, was, asked, dropped>>

\* Slip: the turn that is undone stays in the list.
Truncated_OneMore(keep) == SubSeq(checkpoints, 1, keep + 1)
Truncated(keep) == SubSeq(checkpoints, 1, keep)

EndRewind(c, how) ==
    /\ Go(c, "idle")
    /\ notice' = [how |-> how, of |-> turn[c], left |-> notice.left]
    /\ restoring' = [restoring EXCEPT ![c] = <<>>]

\* The list is cut, and restore_working_tree begins. restore takes a snapshot of the tree as
\* it is; when that fails it compares with HEAD in its place.
Truncate(c) ==
    LET job == restoring[c] IN
    /\ phase[c] = "rolled back"
    /\ checkpoints' = Truncated(job.keep)
    /\ \/ /\ job.target.tree = NoTree
          /\ EndRewind(c, IF job.touched = {} THEN "silent" ELSE "told")
          /\ UNCHANGED used
       \/ /\ job.target.tree # NoTree
          /\ \/ /\ restoring' = [restoring EXCEPT ![c].todo = Diff(job.target.tree, tree)]
                /\ UNCHANGED <<used, notice>>
             \/ /\ Mishap
                /\ restoring' = [restoring EXCEPT ![c].todo = Diff(job.target.tree, head)]
                /\ notice' = [how |-> "blind", of |-> turn[c], left |-> {}]
          /\ Go(c, "restoring")
    /\ UNCHANGED <<log, tree, head, turn, cancelled, signal, was, asked, dropped>>

\* A path the snapshot does not have is removed, any other written back. Nobody looks
\* whether the removal fails: the path counts as put back.
\* Slip: what the turns created stays.
RestorePath_KeepsNew(c) ==
    /\ phase[c] = "restoring"
    /\ \E f \in restoring[c].todo :
           /\ tree' = [tree EXCEPT ![f] = IF restoring[c].target.tree[f] = 0 THEN @
                                          ELSE restoring[c].target.tree[f]]
           /\ restoring' = [restoring EXCEPT ![c].todo = @ \ {f}]
    /\ UNCHANGED <<log, checkpoints, head, phase, turn, cancelled, signal, used, was, asked,
                   notice, dropped>>
RestorePath(c) ==
    /\ phase[c] = "restoring"
    /\ \E f \in restoring[c].todo :
           /\ \/ /\ tree' = [tree EXCEPT ![f] = restoring[c].target.tree[f]]
                 /\ UNCHANGED <<notice, used>>
              \/ /\ restoring[c].target.tree[f] = 0
                 /\ Mishap
                 /\ notice' = [how |-> notice.how, of |-> notice.of,
                               left |-> notice.left \cup {f}]
                 /\ UNCHANGED tree
           /\ restoring' = [restoring EXCEPT ![c].todo = @ \ {f}]
    /\ UNCHANGED <<log, checkpoints, head, phase, turn, cancelled, signal, was, asked, dropped>>

\* A blob cannot be read or a path not written, which ends it: what is done stays done.
RestoreFails(c) ==
    /\ phase[c] = "restoring"
    /\ restoring[c].todo # {}
    /\ Mishap
    /\ EndRewind(c, "told")
    /\ UNCHANGED <<log, checkpoints, tree, head, turn, cancelled, signal, was, asked, dropped>>

RestoreEnds(c) ==
    /\ phase[c] = "restoring"
    /\ restoring[c].todo = {}
    /\ EndRewind(c, IF notice.how = "blind" THEN "blind" ELSE "restored")
    /\ UNCHANGED <<log, checkpoints, tree, head, turn, cancelled, signal, used, was, asked,
                   dropped>>

-----------------------------------------------------------------------------
(* What else happens.                                                      *)

\* The user edits or commits, not while files are put back.
Edit ==
    /\ \A c \in Callers : phase[c] # "restoring"
    /\ used.writes < MaxWrites
    /\ Use("writes")
    /\ \/ \E f \in Files, v \in Contents :
              tree' = [tree EXCEPT ![f] = v] /\ notice' = NoNotice /\ UNCHANGED head
       \/ head' = tree /\ UNCHANGED <<tree, notice>>
    /\ UNCHANGED <<log, checkpoints, phase, turn, restoring, cancelled, signal, was, asked,
                   dropped>>

\* A request's future is dropped at an await: its client has gone, or aborts it.
Drop(c) ==
    /\ phase[c] # "idle"
    /\ Mishap
    /\ dropped' = (dropped \/ phase[c] \in {"opened", "published", "rolled back"})
    /\ Go(c, "idle")
    /\ notice' = NoNotice
    /\ restoring' = [restoring EXCEPT ![c] = <<>>]
    /\ asked' = [asked EXCEPT ![c] = FALSE]
    /\ UNCHANGED <<log, checkpoints, tree, head, turn, cancelled, signal, was>>

\* The process dies and the session is resumed: the list is rebuilt from the log, without
\* snapshots.
Restart ==
    /\ Mishap
    /\ \E turns \in Filtered(log, {i \in DOMAIN log : log[i].kind = "checkpoint"}) :
           checkpoints' = [i \in DOMAIN turns |-> [id |-> turns[i].turn, tree |-> NoTree]]
    /\ phase' = [c \in Callers |-> "idle"]
    /\ restoring' = [c \in Callers |-> <<>>]
    /\ cancelled' = FALSE
    /\ notice' = NoNotice
    /\ dropped' = FALSE
    /\ asked' = [c \in Callers |-> FALSE]
    /\ UNCHANGED <<log, tree, head, turn, signal, was>>

-----------------------------------------------------------------------------
Init ==
    /\ log = <<>>
    /\ checkpoints = <<>>
    /\ tree \in Starts
    /\ head = tree
    /\ phase = [c \in Callers |-> "idle"]
    /\ turn = [c \in Callers |-> 0]
    /\ restoring = [c \in Callers |-> <<>>]
    /\ cancelled = FALSE
    /\ signal = [c \in Callers |-> FALSE]
    /\ used = [turns |-> 0, writes |-> 0, rewinds |-> 0, mishaps |-> 0]
    /\ was = [id \in 1..MaxTurns |-> NoTree]
    /\ asked = [c \in Callers |-> FALSE]
    /\ notice = NoNotice
    /\ dropped = FALSE

Next ==
    \/ Cancel \/ Edit \/ Restart
    \/ \E c \in Callers :
        \/ PromptTurn(c) \/ PublishMessage(c) \/ Capture(c) \/ Write(c) \/ CycleEnds(c)
        \/ HearCancel(c) \/ Stop(c) \/ Drop(c)
        \/ Rewind(c) \/ Truncate(c) \/ RestorePath(c) \/ RestoreFails(c) \/ RestoreEnds(c)

\* A select that has a branch ready takes one. Nothing makes a cycle end: a provider may
\* take as long as it likes.
Fairness == \A c \in Callers : WF_vars(HearCancel(c)) /\ WF_vars(Stop(c))

Spec == Init /\ [][Next]_vars /\ Fairness

-----------------------------------------------------------------------------
(* Properties.                                                             *)

\* One turn at a time: on the log no event of one turn comes after one of a later turn, and
\* none of a turn whose checkpoint has been rolled away, whoever prompts, cancels and
\* rewinds at once (agent.rs run_cycle, prompt_turn and rewind).
TurnsDoNotInterleave ==
    \A i \in DOMAIN log :
        /\ \E j \in 1..i : log[j] = Checkpoint(log[i].turn)
        /\ \A j \in 1..i : log[j].turn <= log[i].turn

\* The list a user rewinds with has the turns of the log, each once and in order, after any
\* rewinds, cancellations and restarts: counting back n turns undoes n turns. It does not
\* hold once a request has been dropped half way through a prompt or a rewind.
Listed(list) ==
    /\ \A k \in DOMAIN list : OnLog(list[k].id)
    /\ \A i \in DOMAIN log :
           log[i].kind = "checkpoint" => \E k \in DOMAIN list : list[k].id = log[i].turn
    /\ \A j, k \in DOMAIN list : j < k => list[j].id < list[k].id
CheckpointsMatch ==
    ~dropped /\ (\A c \in Callers : phase[c] \in {"idle", "cycling", "stopping"})
        => Listed(checkpoints)

\* A file is as it was when a turn began, or was not there and could not be removed.
IsBack(id, f) ==
    \/ tree[f] = was[id][f]
    \/ f \in notice.left /\ was[id][f] = 0

\* A rewind that says the files are restored has put every one of them back as it was when
\* the oldest undone turn began, what the user had not committed by then included, and what
\* the turns created is gone, but for files whose removal failed (snapshot.rs restore).
RewindPutsBack ==
    Free /\ notice.how = "restored" => \A f \in Files : IsBack(notice.of, f)

\* A cancel that comes while the cycle runs ends the turn, whatever the provider does.
CancelStops == \A c \in Callers : asked[c] ~> phase[c] = "idle"

\* agent.rs run_cycle: "Cancellation actually cancels": a turn whose session is cancelled
\* has the cancellation before it. It has not when the cancel came between the clearing of
\* the flag and the cycle: what the channel holds by then is marked as seen.
CancelIsHeard == \A c \in Callers : phase[c] = "cycling" /\ cancelled => signal[c]

-----------------------------------------------------------------------------
(* What does not hold; no configuration checks it. See the README.         *)

\* What the notice says: "the working tree was put back as it was before these turns". A
\* file that could not be removed is still there.
RestoredIsAsItWas ==
    Free /\ notice.how = "restored" => tree = was[notice.of]

=============================================================================
