--------------------------- MODULE ContextAssembly ---------------------------
(***************************************************************************)
(* What the model is shown: the stack of context assemblers of a session   *)
(* (agent/context.rs, context_edit.rs, summarizing.rs), over a log that    *)
(* grows while a turn runs and that a rewind makes shorter.                *)
(*                                                                         *)
(* DefaultContextAssembler renders the log into messages and remembers the *)
(* rendering; ToolResultClearingAssembler blanks large tool results and    *)
(* remembers which, by ordinal; SummarizingContextAssembler folds the head *)
(* of the conversation into a summary, which is an event of the log.       *)
(*                                                                         *)
(* One agent works on the log, but not alone: other clients, agents on      *)
(* other buses, bridges and guards publish messages to it at any time.     *)
(*                                                                         *)
(* How long a message is, how many tokens are left and how the estimate is *)
(* calibrated are left out: any assembly may be over its budget or under   *)
(* it, a result may be large enough to blank or not, and the budget may    *)
(* run out at any message.                                                 *)
(*                                                                         *)
(* A definition marked "Slip" is not part of the model: it is a way to get *)
(* the definition after it wrong, kept to show that a property notices.    *)
(***************************************************************************)
EXTENDS Integers, Sequences, FiniteSets, SequencesExt, FiniteSetsExt

CONSTANTS
    Hosts,         \* whether the program around the agent repairs what a dropped
                   \* cycle left behind: a subset of BOOLEAN
    Asides,        \* the kinds of the messages that come from elsewhere, at any time
    MaxCalls,      \* bound: the calls of one assistant message
    Images,        \* whether a tool may return an image: a subset of BOOLEAN
    KeepResults,   \* ToolResultClearingAssembler::keep_recent
    KeepMessages,  \* SummarizingContextAssembler::keep_recent
    MaxEvents      \* bound: how many events are ever published

\* What is shown to the model as a message of the user.
MessageKinds == {"user.message", "agent.message", "system.message", "agent.stuck"}

ASSUME BoundsAssumption ==
    /\ Asides \subseteq MessageKinds \ {"user.message"}
    /\ Hosts \subseteq BOOLEAN
    /\ MaxCalls \in Nat \ {0}
    /\ Images \subseteq BOOLEAN
    /\ KeepResults \in Nat
    /\ KeepMessages \in Nat
    /\ MaxEvents \in Nat

VARIABLES
    repairs,  \* which of Hosts this program is
    log,      \* the events the session's bus holds
    next,     \* the name of the next event
    phase,    \* where the agent is in its cycle
    todo,     \* the calls of the last assistant message still to be answered
    cache,    \* DefaultContextAssembler::cache
    cleared,  \* ToolResultClearingAssembler::cleared
    conv,     \* the conversation the current `assemble` works on
    summary   \* SummaryState, a local of `assemble`

vars == <<repairs, log, next, phase, todo, cache, cleared, conv, summary>>

-----------------------------------------------------------------------------
(* Events and messages.                                                    *)

\* A call is named by the event that carries it and its place in it.
Call == (1..MaxEvents) \X (1..MaxCalls)
NoCall == <<0, 0>>

\* What became of a message is told by the event it was rendered from; a result
\* that was made up has none.
Message == [role : {"user", "assistant", "tool"}, of : 0..MaxEvents,
            calls : Seq(Call), call : Call \cup {NoCall}]

UserMessage(id) == [role |-> "user", of |-> id, calls |-> <<>>, call |-> NoCall]
AssistantMessage(id, calls) ==
    [role |-> "assistant", of |-> id, calls |-> calls, call |-> NoCall]
ToolMessage(id, call) == [role |-> "tool", of |-> id, calls |-> <<>>, call |-> call]

NoSummary == [count |-> 0, folded |-> <<>>]

\* `count` is the payload's `summarized_count`; `folded` is what the summariser
\* had been given, in all, when it wrote the text.
Said(kind, id) == [kind |-> kind, id |-> id]
Assistant(id, n) ==
    [kind |-> "assistant.message", id |-> id, calls |-> [k \in 1..n |-> <<id, k>>]]
Result(id, call, image) ==
    [kind |-> "tool.result", id |-> id, call |-> call, image |-> image]
Summarized(id, s) == [kind |-> "agent.context.summarized", id |-> id, summary |-> s]
Tombstone(id) == [kind |-> "system.rollback", id |-> id]

-----------------------------------------------------------------------------
(* Rendering.                                                              *)

\* An image goes to the model as a user message after the result it came with.
MessagesOf(e) ==
    CASE e.kind \in MessageKinds      -> <<UserMessage(e.id)>>
      [] e.kind = "assistant.message" -> <<AssistantMessage(e.id, e.calls)>>
      [] e.kind = "tool.result"       ->
           <<ToolMessage(e.id, e.call)>>
             \o (IF e.image THEN <<UserMessage(e.id)>> ELSE <<>>)
      [] OTHER                        -> <<>>

Raw(events) == FlattenSeq([i \in DOMAIN events |-> MessagesOf(events[i])])

AnsweredIn(ms) == {ms[i].call : i \in {j \in DOMAIN ms : ms[j].role = "tool"}}

\* repair_tool_results: a call with no result anywhere is given one, right
\* after the message that made it.
MadeUp(calls, answered) ==
    FlattenSeq([k \in DOMAIN calls |->
                   IF calls[k] \in answered THEN <<>> ELSE <<ToolMessage(0, calls[k])>>])
Patched(m, answered) == <<m>> \o MadeUp(m.calls, answered)
Repair(ms) == FlattenSeq([i \in DOMAIN ms |-> Patched(ms[i], AnsweredIn(ms))])

\* events_to_messages.
Render(events) == Repair(Raw(events))

-----------------------------------------------------------------------------
(* The cache of the rendering.                                             *)

NoCache == [last |-> 0, count |-> 0, messages |-> <<>>]

CacheOf(events, messages) ==
    IF events = <<>> THEN NoCache
    ELSE [last |-> Last(events).id, count |-> Len(events), messages |-> messages]

\* Slip: a log that is not shorter is taken for one that has grown.
Extends_ByLength(c, events) == c.count > 0 /\ Len(events) >= c.count

\* What was rendered is still the head of the log.
Extends(c, events) ==
    /\ c.count > 0
    /\ Len(events) >= c.count
    /\ events[c.count].id = c.last

\* build_with_cache: only what is new is rendered, or else everything.
BuildWithCache(c, events) ==
    IF Extends(c, events)
    THEN c.messages \o Render(SubSeq(events, c.count + 1, Len(events)))
    ELSE Render(events)

-----------------------------------------------------------------------------
(* Clearing.                                                               *)

Results(ms) == Len(SelectSeq(ms, LAMBDA m : m.role = "tool"))

\* Ordinals, from zero, of the results a clearing pass may choose from; which of
\* them are large enough, and how many it takes, is open.
Clearable(ms) == {o \in 0..(Results(ms) - 1) : o < Results(ms) - KeepResults} \ cleared

-----------------------------------------------------------------------------
(* Summarizing.                                                            *)

\* summary_from_log: the newest summary is the one that counts.
SummaryFromLog(events) ==
    LET at == {i \in DOMAIN events : events[i].kind = "agent.context.summarized"}
    IN  IF at = {} THEN NoSummary ELSE events[Max(at)].summary

Ceiling(ms) == Len(ms) - Max({KeepMessages, 1})  \* saturating in the code

TurnStart(ms, i) == ms[i + 1].role = "user"
StartsClean(ms, i) == ms[i + 1].role # "tool"

\* Slip: the messages are cut where the budget runs out.
ChooseCutoff_AtBudget(ms, already, raw) == raw

\* choose_cutoff, `raw` being where the budget runs out: the first turn start
\* that keeps no more than that, or the last one that keeps more; failing both,
\* the same for a message that is no tool result.
ChooseCutoff(ms, already, raw) ==
    LET tighter == raw..Ceiling(ms)
        looser  == already..raw
        turnsAfter  == {i \in tighter : TurnStart(ms, i)}
        turnsBefore == {i \in looser : i > already /\ TurnStart(ms, i)}
        cleanAfter  == {i \in tighter : StartsClean(ms, i)}
        cleanBefore == {i \in looser : StartsClean(ms, i)}
    IN  CASE turnsAfter # {}  -> Min(turnsAfter)
          [] turnsAfter = {} /\ turnsBefore # {} -> Max(turnsBefore)
          [] turnsAfter \cup turnsBefore = {} /\ cleanAfter # {} -> Min(cleanAfter)
          [] turnsAfter \cup turnsBefore \cup cleanAfter = {} /\ cleanBefore # {}
               -> Max(cleanBefore)
          [] OTHER -> already

\* build_candidate without the system messages.
Tail1(ms, s) == SubSeq(ms, s.count + 1, Len(ms))

-----------------------------------------------------------------------------
(* The agent's cycle.                                                      *)

Room(n) == next + n - 1 <= MaxEvents

Publish(events) ==
    /\ Room(Len(events))
    /\ UNCHANGED repairs
    /\ log' = log \o events
    /\ next' = next + Len(events)

Prompt ==
    /\ phase = "idle"
    /\ Publish(<<Said("user.message", next)>>)
    /\ phase' = "step"
    /\ UNCHANGED <<todo, cache, cleared, conv, summary>>

\* A message from elsewhere: the bus takes it whatever the agent is doing, also
\* between the calls of a batch and their results, and an idle agent may wake by it.
\* One that a client sends as a user's in the midst of a turn is shown the same way,
\* and is counted here as an agent's.
Hear(kind) ==
    /\ Publish(<<Said(kind, next)>>)
    /\ phase' \in IF phase = "idle" THEN {"idle", "step"} ELSE {phase}
    /\ UNCHANGED <<todo, cache, cleared, conv, summary>>

\* The top of SummarizingContextAssembler::assemble, through both assemblers
\* beneath it; nothing of it waits for anything.
Assemble ==
    /\ phase = "step"
    /\ LET ms == BuildWithCache(cache, log)
       IN  /\ cache' = CacheOf(log, ms)
           /\ conv' = ms
           /\ \E blanked \in SUBSET Clearable(ms) : cleared' = cleared \cup blanked
    /\ summary' = SummaryFromLog(log)
    /\ phase' = "fitting"
    /\ UNCHANGED <<repairs, log, next, todo>>

\* Over budget, and there is more to fold.  A summariser that fails leaves the
\* text of the summary as it was, and the count moves on all the same.
Fold(raw) ==
    /\ phase = "fitting"
    /\ Ceiling(conv) > summary.count
    /\ LET cutoff == ChooseCutoff(conv, summary.count, raw)
           more == SubSeq(conv, summary.count + 1, cutoff)
       IN  /\ cutoff > summary.count
           /\ summary' = [count |-> cutoff, folded |-> summary.folded \o more]
           /\ Publish(<<Summarized(next, summary')>>)
    /\ UNCHANGED <<phase, todo, cache, cleared, conv>>

\* Under budget, or nothing more to fold: the request goes out.
Send ==
    /\ phase = "fitting"
    /\ phase' = "asking"
    /\ UNCHANGED <<repairs, log, next, todo, cache, cleared, conv, summary>>

\* The locals of `assemble` and of the request are gone.
Done(p) ==
    /\ phase' = p
    /\ conv' = <<>>
    /\ summary' = NoSummary

\* The model's answer ends the cycle or calls tools.
Respond(n) ==
    /\ phase = "asking"
    /\ Publish(<<Assistant(next, n)>>)
    /\ todo' = [k \in 1..n |-> <<next, k>>]
    /\ Done(IF n = 0 THEN "idle" ELSE "tools")
    /\ UNCHANGED <<cache, cleared>>

\* execute_tools publishes the results in the order of the calls.
Answer(image) ==
    /\ phase = "tools"
    /\ Publish(<<Result(next, Head(todo), image)>>)
    /\ todo' = Tail(todo)
    /\ phase' = IF Len(todo) = 1 THEN "step" ELSE "tools"
    /\ UNCHANGED <<cache, cleared, conv, summary>>

\* reconcile_interrupted_tools gives a result to each call without one, before
\* anything else happens; a program built on Session does not call it.
Reconciled ==
    IF repairs THEN [k \in DOMAIN todo |-> Result(next + k - 1, todo[k], FALSE)]
               ELSE <<>>

\* The cycle is dropped, wherever it is: the user cancels, or stops waiting.
Drop ==
    /\ phase # "idle"
    /\ Publish(Reconciled)
    /\ todo' = <<>>
    /\ Done("idle")
    /\ UNCHANGED <<cache, cleared>>

\* The process stops and the session is opened again: the log is what is left.
Restart ==
    /\ Publish(Reconciled)
    /\ todo' = <<>>
    /\ Done("idle")
    /\ cache' = NoCache
    /\ cleared' = {}

\* CodingSession::rewind: the log is cut back to the start of a turn and carries
\* a tombstone for what it lost.
Rewind(pos) ==
    /\ phase = "idle"
    /\ Room(1)
    /\ log[pos].kind = "user.message"
    /\ log' = Append(SubSeq(log, 1, pos - 1), Tombstone(next))
    /\ next' = next + 1
    /\ UNCHANGED <<repairs, phase, todo, cache, cleared, conv, summary>>

-----------------------------------------------------------------------------

Init ==
    /\ repairs \in Hosts
    /\ log = <<>>
    /\ next = 1
    /\ phase = "idle"
    /\ todo = <<>>
    /\ cache = NoCache
    /\ cleared = {}
    /\ conv = <<>>
    /\ summary = NoSummary

Next ==
    \/ Prompt
    \/ \E kind \in Asides : Hear(kind)
    \/ Assemble
    \/ \E raw \in summary.count..Ceiling(conv) : Fold(raw)
    \/ Send
    \/ \E n \in 0..MaxCalls : Respond(n)
    \/ \E image \in Images : Answer(image)
    \/ Drop
    \/ Restart
    \/ \E pos \in DOMAIN log : Rewind(pos)

Spec == Init /\ [][Next]_vars

-----------------------------------------------------------------------------
(* Properties.                                                             *)

Request == Tail1(conv, summary)

\* The types, and: only a cycle has a conversation in hand, only a batch of
\* tools has calls to answer.
TypeOK ==
    /\ repairs \in Hosts
    /\ next \in 1..(MaxEvents + 1)
    /\ \A i \in DOMAIN log : log[i].id < next
    /\ phase \in {"idle", "step", "fitting", "asking", "tools"}
    /\ todo \in Seq(Call) /\ (todo # <<>> <=> phase = "tools")
    /\ cache.count \in 0..MaxEvents /\ cache.messages \in Seq(Message)
    /\ cleared \subseteq 0..MaxEvents
    /\ conv \in Seq(Message) /\ (conv # <<>> => phase \in {"fitting", "asking"})
    /\ summary.count \in 0..Len(conv)

\* Wherever the conversation was cut, cancelled, interrupted or rewound: each call
\* in a request has one result, later on, and each result its call before it, or
\* folded away with a message of the user's between the two. A cut never goes
\* through a batch into which nobody has spoken.
OnlyDividedBatchesAreCut ==
    phase = "asking" =>
        /\ \A i \in (summary.count + 1)..Len(conv) : \A c \in Range(conv[i].calls) :
             \E j \in (i + 1)..Len(conv) : {k \in DOMAIN conv : conv[k].call = c} = {j}
        /\ \A j \in (summary.count + 1)..Len(conv) : conv[j].role = "tool" =>
             \E i \in 1..(j - 1) :
                /\ conv[j].call \in Range(conv[i].calls)
                /\ i <= summary.count => \E k \in (i + 1)..(j - 1) : conv[k].role = "user"

\* What the model is shown is the conversation of the log as it was when the
\* request was assembled, all of it: each message was given to the summariser, or
\* is in the request, in order, once; and what is younger was said elsewhere.
\* A cached rendering or a count of messages that has outlived a rewind or a
\* restart would drop messages without a trace, or bring rewound ones back.
NothingSkipped ==
    phase = "asking" =>
        /\ summary.folded \o Request = Render(SubSeq(log, 1, cache.count))
        /\ \A i \in (cache.count + 1)..Len(log) :
             log[i].kind \in Asides \cup {"agent.context.summarized"}

-----------------------------------------------------------------------------
(* What does not hold; no configuration checks it. See the README.         *)

\* A provider takes a request only if every call in it is answered once, later
\* on, and every result in it has its call before it: choose_cutoff is there to
\* strand no result from its call, and takes a message between the two for a turn's start.
RequestIsValid ==
    phase = "asking" =>
        /\ \A i \in DOMAIN Request : \A c \in Range(Request[i].calls) :
             Cardinality({j \in DOMAIN Request : Request[j].call = c}) = 1
        /\ \A j \in DOMAIN Request : Request[j].role = "tool" =>
             \E i \in 1..(j - 1) : Request[j].call \in Range(Request[i].calls)

\* The results the model is working from are shown to it in full, as the doc of
\* `keep_recent` says ("Number of most-recent tool results never cleared"). After a rewind
\* or a compaction the ordinals that were cleared are those of later results.
RecentResultsShown ==
    phase = "asking" => \A o \in cleared : o < Results(conv) - KeepResults

=============================================================================
