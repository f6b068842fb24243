------------------------------- MODULE ToolCycle -------------------------------
(***************************************************************************)
(* One turn of an agent, and what becomes of its tool calls: the ReAct     *)
(* loop and `execute_tools` of src/agent/strategy.rs, the hooks it asks    *)
(* (src/agent/permission.rs, src/agent/budget.rs), a turn that is          *)
(* cancelled, a process that stops, and the repair of src/agent/recovery.rs*)
(* that both of them call for.                                             *)
(*                                                                         *)
(* `execute_tools` proposes the calls one by one and asks the hooks about  *)
(* each; then it runs those that were not vetoed, so many at a time; then  *)
(* it publishes the results in the order of the calls.  A turn may be      *)
(* dropped at every await between two of these steps, and the process may  *)
(* stop there, keeping of the log what the observer had written.           *)
(*                                                                         *)
(* A call is named by the order in which models asked for them, as its     *)
(* `tool_call_id` is unique.  The log holds the events these modules read  *)
(* back: messages, proposals and results.  A response costs one token.     *)
(* What a hook, an argument check or a refusal says to the model is left   *)
(* out: all of them are the veto "denied".                                 *)
(*                                                                         *)
(* A definition marked "Slip" is a way to get the one after it wrong.      *)
(***************************************************************************)
EXTENDS Integers, Sequences, FiniteSets

CONSTANTS
    Tools,
    Terminal,       \* Tool::is_terminal
    Verdict,        \* what the hooks say of a tool: "allow", "deny", "ask", "abort"
    Policy,         \* ToolRecovery::policy_for: "report", "replay", "fail"
    MaxSteps,       \* ReactStrategy::max_steps
    MaxConcurrent,  \* ReactStrategy::max_concurrent_tools
    Finalize,       \* ReactStrategy::finalize_on_max_steps
    MaxTokens,      \* TokenBudgetHook::max_tokens
    MaxCalls,       \* bound: tool calls the model ever asks for
    MaxBatch,       \* bound: tool calls in one response
    MaxTurns,       \* bound: user messages in the log
    MaxCancels,     \* bound: turns that are cancelled
    MaxRestarts     \* bound: times the process stops

ASSUME ToolsAssumption ==
    /\ Terminal \subseteq Tools
    /\ Verdict \in [Tools -> {"allow", "deny", "ask", "abort"}]
    /\ Policy \in [Tools -> {"report", "replay", "fail"}]
    /\ Finalize \in BOOLEAN
ASSUME BoundsAssumption ==
    \A n \in {MaxSteps, MaxConcurrent, MaxTokens, MaxCalls, MaxBatch, MaxTurns,
              MaxCancels, MaxRestarts} : n \in Nat

VARIABLES
    log,         \* EventBus::log
    tool,        \* the tool of every call a model has asked for
    cycle,       \* the locals of the turn that runs
    task,        \* the tool tasks of `execute_tools`
    rec,         \* the locals of `reconcile_interrupted_tools`
    session,     \* whether the session is open
    cancelling,  \* a cancellation the turn has not noticed yet
    asked,       \* the calls whose permission was requested
    approved,    \* the calls somebody published an approval of
    runs,        \* how often the execution of each call was begun
    saved,       \* how much of the log is on file for certain
    stops        \* cancellations and restarts so far

tvars == <<log, tool, cycle, task, rec, session, cancelling, asked, approved,
           runs, saved, stops>>

-----------------------------------------------------------------------------
(* Events, calls and turns.                                                *)

CallId == 1..MaxCalls

Event(kind, calls, outcome) == [kind |-> kind, calls |-> calls, outcome |-> outcome]
User == Event("user.message", <<>>, "none")
Assistant(calls) == Event("assistant.message", calls, "none")
Proposed(c) == Event("tool.call.proposed", <<c>>, "none")
Result(c, outcome) == Event("tool.result", <<c>>, outcome)

\* Where the events of a kind are in the log, and the call a proposal or a
\* result is about.
Where(kind) == {i \in DOMAIN log : log[i].kind = kind}
About(i) == log[i].calls[1]

Answered == {About(i) : i \in Where("tool.result")}

\* The locals of a cycle: `at` counts through `calls`, `veto` has an entry for
\* every call planned so far.
Idle == [pc |-> "idle", step |-> 0, calls |-> <<>>, at |-> 1, veto |-> <<>>,
         aborted |-> FALSE, terminal |-> FALSE]

NoTasks == [c \in CallId |-> "none"]

Off == [pc |-> "off", todo |-> {}]

Current == cycle.calls[cycle.at]
At(pc) == cycle.pc = pc

\* Leaving the cycle: the turn is over and its cancellation with it.
EndCycle == cycle' = Idle /\ cancelling' = FALSE

Elsewhere == UNCHANGED <<rec, session, saved, stops>>

-----------------------------------------------------------------------------
(* The ReAct loop.                                                         *)

Submit ==
    /\ session = "open" /\ At("idle") /\ rec = Off
    /\ Cardinality(Where("user.message")) < MaxTurns
    /\ log' = Append(log, User)
    /\ cycle' = [Idle EXCEPT !.pc = "step"]
    /\ UNCHANGED <<tool, task, cancelling, asked, approved, runs>> /\ Elsewhere

Used == Cardinality(Where("assistant.message"))

Exhausted == Used >= MaxTokens

\* The step limit, and the hooks before the request.
BeginStep ==
    /\ At("step")
    /\ LET step == cycle.step + 1
           over == step > MaxSteps
       IN  IF (over /\ ~Finalize) \/ (~over /\ Exhausted)
           THEN EndCycle
           ELSE /\ cycle' = IF over THEN [cycle EXCEPT !.pc = "wrapup"]
                                    ELSE [Idle EXCEPT !.pc = "llm", !.step = step]
                /\ UNCHANGED cancelling
    /\ UNCHANGED <<log, tool, task, asked, approved, runs>> /\ Elsewhere

\* The model answers, and its message is published with the calls it makes.
Responds(batch) ==
    /\ Len(tool) + Len(batch) <= MaxCalls
    /\ tool' = tool \o batch
    /\ log' = Append(log, Assistant([i \in DOMAIN batch |-> Len(tool) + i]))

Batches == UNION {[1..n -> Tools] : n \in 0..MaxBatch}

LlmAnswers(batch) ==
    /\ At("llm")
    /\ Responds(batch)
    /\ IF batch = <<>>
       THEN EndCycle
       ELSE /\ cycle' = [cycle EXCEPT !.pc = "propose",
                                      !.calls = [i \in DOMAIN batch |-> Len(tool) + i]]
            /\ UNCHANGED cancelling
    /\ UNCHANGED <<task, asked, approved, runs>> /\ Elsewhere

\* `finalize`: calls that slip through are recorded and not executed.
WrapUp(batch) ==
    /\ At("wrapup")
    /\ Responds(batch)
    /\ EndCycle
    /\ UNCHANGED <<task, asked, approved, runs>> /\ Elsewhere

LlmFails ==
    /\ At("llm") \/ At("wrapup")
    /\ EndCycle
    /\ UNCHANGED <<log, tool, task, asked, approved, runs>> /\ Elsewhere

-----------------------------------------------------------------------------
(* execute_tools: the calls are planned.                                   *)

Propose ==
    /\ At("propose")
    /\ log' = Append(log, Proposed(Current))
    /\ cycle' = [cycle EXCEPT !.pc = "hook"]
    /\ UNCHANGED <<tool, task, cancelling, asked, approved, runs>> /\ Elsewhere

\* Once a hook has aborted, nothing that follows runs.
VetoOf(v) == IF v = "none" /\ cycle.aborted THEN "aborted" ELSE v

\* The call is planned; after the last one the tasks are spawned.
Plan(v) ==
    LET veto == Append(cycle.veto, VetoOf(v))
        last == cycle.at = Len(cycle.calls)
    IN  /\ cycle' = [cycle EXCEPT !.pc = IF last THEN "running" ELSE "propose",
                                  !.at = IF last THEN 1 ELSE @ + 1,
                                  !.veto = veto,
                                  !.aborted = @ \/ VetoOf(v) = "aborted"]
        /\ task' = IF last
                   THEN [c \in CallId |->
                           IF \E i \in DOMAIN veto :
                                 cycle.calls[i] = c /\ veto[i] = "none"
                           THEN "waiting" ELSE "none"]
                   ELSE task

\* Arguments that do not parse or do not fit the schema never reach the hooks.
BadArguments ==
    /\ At("hook")
    /\ Plan("denied")
    /\ UNCHANGED <<log, tool, cancelling, asked, approved, runs>> /\ Elsewhere

Hook ==
    /\ At("hook")
    /\ LET verdict == Verdict[tool[Current]]
       IN  \/ verdict = "allow" /\ Plan("none") /\ UNCHANGED asked
           \/ verdict = "deny" /\ Plan("denied") /\ UNCHANGED asked
           \/ verdict = "abort" /\ Plan("aborted") /\ UNCHANGED asked
           \/ /\ verdict = "ask"
              /\ asked' = asked \cup {Current}
              /\ cycle' = [cycle EXCEPT !.pc = "asking"]
              /\ UNCHANGED task
    /\ UNCHANGED <<log, tool, cancelling, approved, runs>> /\ Elsewhere

\* Slip: any decision is taken for the one that is awaited.
Awaits_Any(c) == At("asking")

Awaits(c) == At("asking") /\ Current = c

\* Somebody publishes a decision about a request; the turn that asked may have
\* stopped waiting for it.
Decide(c, approve) ==
    /\ c \in asked
    /\ approved' = IF approve THEN approved \cup {c} ELSE approved
    /\ IF Awaits(c)
       THEN Plan(IF approve THEN "none" ELSE "denied")
       ELSE UNCHANGED <<cycle, task>>
    /\ UNCHANGED <<log, tool, cancelling, asked, runs>> /\ Elsewhere

AskTimesOut ==
    /\ At("asking")
    /\ Plan("denied")
    /\ UNCHANGED <<log, tool, cancelling, asked, approved, runs>> /\ Elsewhere

-----------------------------------------------------------------------------
(* execute_tools: the calls are run and their results published.           *)

\* Slip: a limit of zero is taken at its word.
Permits_AsGiven == MaxConcurrent

Permits == IF MaxConcurrent = 0 THEN 1 ELSE MaxConcurrent

Start(c) ==
    /\ task[c] = "waiting"
    /\ Cardinality({d \in CallId : task[d] = "running"}) < Permits
    /\ task' = [task EXCEPT ![c] = "running"]
    /\ runs' = [runs EXCEPT ![c] = @ + 1]
    /\ UNCHANGED <<log, tool, cycle, cancelling, asked, approved>> /\ Elsewhere

\* It returns, fails or runs out of time, or it panics.
Finish(c, outcome) ==
    /\ task[c] = "running"
    /\ task' = [task EXCEPT ![c] = outcome]
    /\ UNCHANGED <<log, tool, cycle, cancelling, asked, approved, runs>> /\ Elsewhere

\* Slip: whatever has a result by now is enough.
Joined_First == \E c \in CallId : task[c] \in {"ok", "error", "panic"}

Joined == \A c \in CallId : task[c] \notin {"waiting", "running"}

Collect ==
    /\ At("running")
    /\ Joined
    /\ cycle' = [cycle EXCEPT !.pc = "publish"]
    /\ UNCHANGED <<log, tool, task, cancelling, asked, approved, runs>> /\ Elsewhere

\* An error is made up for a call whose task panicked.
OutcomeOf(i) ==
    IF cycle.veto[i] # "none" THEN cycle.veto[i]
    ELSE IF task[cycle.calls[i]] = "ok" THEN "ok" ELSE "error"

\* After the last result the step is over: it ends the cycle if a terminal tool
\* ran, whatever came of it, or if a hook aborted.
PublishResult ==
    /\ At("publish")
    /\ log' = Append(log, Result(Current, OutcomeOf(cycle.at)))
    /\ LET terminal == \/ cycle.terminal
                       \/ cycle.veto[cycle.at] = "none" /\ tool[Current] \in Terminal
       IN  \/ /\ cycle.at < Len(cycle.calls)
              /\ cycle' = [cycle EXCEPT !.at = @ + 1, !.terminal = terminal]
              /\ UNCHANGED <<task, cancelling>>
           \/ /\ cycle.at = Len(cycle.calls)
              /\ task' = NoTasks
              /\ IF terminal \/ cycle.aborted
                 THEN EndCycle
                 ELSE /\ cycle' = [Idle EXCEPT !.pc = "step", !.step = cycle.step]
                      /\ UNCHANGED cancelling
    /\ UNCHANGED <<tool, asked, approved, runs>> /\ Elsewhere

-----------------------------------------------------------------------------
(* A turn is cancelled, or the process stops.                              *)

\* `cancel` only says so; the turn notices at an await.
Cancel ==
    /\ ~At("idle") /\ ~cancelling
    /\ stops.cancels < MaxCancels
    /\ cancelling' = TRUE
    /\ stops' = [stops EXCEPT !.cancels = @ + 1]
    /\ UNCHANGED <<log, tool, cycle, task, rec, session, asked, approved, runs, saved>>

\* Dropping the cycle drops the tasks it spawned, and the pending request.
Dropped ==
    /\ cycle' = Idle
    /\ task' = NoTasks
    /\ cancelling' = FALSE

\* The session drops the cycle and closes out its calls.
NoticeCancel ==
    /\ cancelling
    /\ Dropped
    /\ rec' = [Off EXCEPT !.pc = "scan"]
    /\ UNCHANGED <<log, tool, session, asked, approved, runs, saved, stops>>

\* The process stops, and the session is opened again from what the observer
\* had written: all of the log or less, and no less than was read before.
Crash(kept) ==
    /\ stops.restarts < MaxRestarts
    /\ log' = SubSeq(log, 1, kept)
    /\ saved' = kept
    /\ Dropped
    /\ rec' = [Off EXCEPT !.pc = "scan"]
    /\ session' = "opening"
    /\ asked' = {}
    /\ stops' = [stops EXCEPT !.restarts = @ + 1]
    /\ UNCHANGED <<tool, approved, runs>>

-----------------------------------------------------------------------------
(* reconcile_interrupted_tools.                                            *)

\* Slip: the last proposal is looked at, and no other.
Orphans_LastOnly ==
    {i \in Where("tool.call.proposed") :
        /\ About(i) \notin Answered
        /\ \A j \in Where("tool.call.proposed") : j <= i}

\* Slip: every proposal is taken for an orphan.
Orphans_Answered == Where("tool.call.proposed")

\* find_orphaned_tool_calls: where the proposals with no result are.
Orphans == {i \in Where("tool.call.proposed") : About(i) \notin Answered}

\* The orphan whose turn it is: they are gone through in the order of the log.
First == CHOOSE i \in rec.todo : \A j \in rec.todo : i <= j
Orphan == About(First)

\* A turn that was cancelled is closed out with the default policy and without
\* the registry; a session that opens has both.
PolicyFor(c) == IF session = "opening" THEN Policy[tool[c]] ELSE "report"

Bystanders == UNCHANGED <<tool, cycle, task, cancelling, asked, approved, saved, stops>>

Scan ==
    /\ rec.pc = "scan"
    /\ rec' = [pc |-> "decide", todo |-> Orphans]
    /\ UNCHANGED <<log, session, runs>> /\ Bystanders

\* One orphan is answered: at once, or after its tool has run again.
Answer(outcome) ==
    /\ log' = Append(log, Result(Orphan, outcome))
    /\ rec' = [pc |-> "decide", todo |-> rec.todo \ {First}]

Report ==
    /\ rec.pc = "decide" /\ rec.todo # {}
    /\ PolicyFor(Orphan) = "report"
    /\ Answer("interrupted")
    /\ UNCHANGED <<session, runs>> /\ Bystanders

Replay ==
    /\ rec.pc = "decide" /\ rec.todo # {}
    /\ PolicyFor(Orphan) = "replay"
    /\ runs' = [runs EXCEPT ![Orphan] = @ + 1]
    /\ rec' = [rec EXCEPT !.pc = "replay"]
    /\ UNCHANGED <<log, session>> /\ Bystanders

Replayed ==
    /\ rec.pc = "replay"
    /\ Answer("replayed")
    /\ UNCHANGED <<session, runs>> /\ Bystanders

\* The session is not opened; what was answered before stays answered.
Refuse ==
    /\ rec.pc = "decide" /\ rec.todo # {}
    /\ PolicyFor(Orphan) = "fail"
    /\ session' = "refused"
    /\ rec' = Off
    /\ UNCHANGED <<log, runs>> /\ Bystanders

Reconciled ==
    /\ rec.pc = "decide" /\ rec.todo = {}
    /\ session' = "open"
    /\ rec' = Off
    /\ UNCHANGED <<log, runs>> /\ Bystanders

-----------------------------------------------------------------------------

TInit ==
    /\ log = <<>> /\ tool = <<>>
    /\ cycle = Idle /\ task = NoTasks
    /\ rec = Off
    /\ session = "open" /\ cancelling = FALSE
    /\ asked = {} /\ approved = {}
    /\ runs = [c \in CallId |-> 0]
    /\ saved = 0
    /\ stops = [cancels |-> 0, restarts |-> 0]

\* What the harness and its tools do by themselves.
Turn ==
    \/ BeginStep
    \/ \E batch \in Batches : LlmAnswers(batch) \/ WrapUp(batch)
    \/ LlmFails
    \/ Propose \/ BadArguments \/ Hook \/ AskTimesOut
    \/ \E c \in CallId :
         Start(c) \/ \E outcome \in {"ok", "error", "panic"} : Finish(c, outcome)
    \/ Collect \/ PublishResult
    \/ NoticeCancel

Reconcile == Scan \/ Report \/ Replay \/ Replayed \/ Refuse \/ Reconciled

TNext ==
    \/ Submit \/ Turn
    \/ \E c \in CallId, approve \in BOOLEAN : Decide(c, approve)
    \/ Cancel
    \/ \E kept \in saved..Len(log) : Crash(kept)
    \/ Reconcile

TSpec == TInit /\ [][TNext]_tvars

\* The runtime runs every task that is ready; a request to the model and a tool
\* come to an end, tools because of their timeout and requests because of the
\* provider's; a permission that nobody answers times out.  Nobody need submit,
\* decide, cancel or crash.
TFairSpec == TSpec /\ WF_tvars(Turn) /\ WF_tvars(Reconcile)

-----------------------------------------------------------------------------
(* Properties.                                                             *)

Outcomes == {"ok", "error", "denied", "aborted", "interrupted", "replayed"}

EventType ==
    {e \in [kind    : {"user.message", "assistant.message", "tool.call.proposed",
                       "tool.result"},
            calls   : Seq(CallId),
            outcome : Outcomes \cup {"none"}] :
        e.kind \in {"tool.call.proposed", "tool.result"} => Len(e.calls) = 1}

CycleType == [pc       : {"idle", "step", "llm", "wrapup", "propose", "hook",
                          "asking", "running", "publish"},
              step     : 0..MaxSteps,
              calls    : Seq(CallId),
              at       : Nat \ {0},
              veto     : Seq({"none", "denied", "aborted"}),
              aborted  : BOOLEAN,
              terminal : BOOLEAN]

\* Every variable has its type.
TTypeOK ==
    /\ log \in Seq(EventType)
    /\ tool \in Seq(Tools) /\ Len(tool) <= MaxCalls
    /\ cycle \in CycleType
    /\ task \in [CallId -> {"none", "waiting", "running", "ok", "error", "panic"}]
    /\ rec \in [pc : {"off", "scan", "decide", "replay"}, todo : SUBSET (1..Len(log))]
    /\ session \in {"open", "opening", "refused"}
    /\ cancelling \in BOOLEAN
    /\ asked \subseteq CallId /\ approved \subseteq CallId
    /\ runs \in [CallId -> Nat]
    /\ saved \in 0..Len(log)
    /\ stops \in [cancels : 0..MaxCancels, restarts : 0..MaxRestarts]

\* A call has one result, after its proposal, and results come in the order in
\* which the model made the calls, whatever order they ended in and wherever
\* the turn was cut off: providers refuse a history that has it otherwise.
ResultsMatchCalls ==
    \A j \in Where("tool.result") :
        /\ \A i \in Where("tool.result") : i < j => About(i) < About(j)
        /\ \E i \in 1..(j - 1) : log[i] = Proposed(About(j))

\* When the model is asked, every call that was ever proposed has its result,
\* also those of turns that were cancelled and of processes that stopped.
AnsweredBeforeRequest ==
    At("llm") \/ At("wrapup") =>
        \A i \in Where("tool.call.proposed") : About(i) \in Answered

\* What a result says of the execution is so: a call said to be vetoed has never
\* been run, one said to have run has been, one that nobody may replay has been
\* run once at most, and none runs on after its result is published.
ResultsAreTrue ==
    /\ \A c \in CallId : runs[c] > 1 => Policy[tool[c]] = "replay"
    /\ \A j \in Where("tool.result") :
         LET c == About(j)
         IN  /\ log[j].outcome \in {"denied", "aborted"} => runs[c] = 0
             /\ log[j].outcome \in {"ok", "replayed"} => runs[c] > 0
             /\ log[j].outcome = "ok" => runs[c] = 1
             /\ task[c] \notin {"waiting", "running"}

\* "Publish a `permission.request` and wait for a `permission.decision` before
\* executing": a call its policy asks about runs only if that call was approved. A
\* repair replays one that is on file and was not, if its recovery policy says so.
RunsOnlyIfApproved ==
    \A c \in CallId : runs[c] > 0 /\ Verdict[tool[c]] = "ask" => c \in approved

\* A call its policy asks about is in no turn's execution before that call was
\* approved, whatever is decided about others, late or by the clock.  What runs it
\* unapproved is the repair alone: a replayable one, once for each restart at most.
TurnsRunOnlyApproved ==
    \A c \in DOMAIN tool : Verdict[tool[c]] = "ask" /\ c \notin approved =>
        /\ task[c] = "none"
        /\ runs[c] <= IF Policy[tool[c]] = "replay" THEN stops.restarts ELSE 0

\* Every turn comes to an end, and so does every repair, however tools behave,
\* permissions are left open and limits are set.
TurnEnds == ~At("idle") \/ rec # Off ~> At("idle") /\ rec = Off

-----------------------------------------------------------------------------
(* What does not hold; no configuration checks it. See the README.         *)

\* The calls after one of the same response that has "aborted" for its result.
AfterAbort ==
    {c \in CallId :
        \E m, n \in DOMAIN log :
            /\ log[m].kind = "assistant.message"
            /\ \E i, k \in DOMAIN log[m].calls :
                 /\ i < k /\ log[m].calls[k] = c
                 /\ log[n] = Result(log[m].calls[i], "aborted")}

\* "Once a hook has aborted, nothing further runs", with no exception made for
\* the repair when the session is opened again, which finds the proposal on file and
\* no veto.
AbortIsFinal == \A c \in AfterAbort : runs[c] = 0

\* Crossing the budget "aborts the cycle before the next LLM call".
BudgetIsCeiling == At("llm") \/ At("wrapup") => Used < MaxTokens
=============================================================================
