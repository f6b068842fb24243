# Formal models of eventage

Eventage (this repository) is a Rust framework for agents built around one idea:
every message, model reply, tool call and tool result is an event on a shared
bus, and everything else (agents, tools, guards, persistence, user interfaces)
publishes to the bus or subscribes to it. This directory holds TLA+ models of
it and of the coding agent built with it, the TLC configurations that check
them, and theorems that TLAPS proves about them.

`PROJECT.json` holds the details this file does not repeat: the source lines
behind each definition, the hazards with their lines, and for every property a
way to break the model (a definition marked "Slip") that the property notices.
Paths below are relative to the crate: `src/bus.rs`, `crates/example-coding-agent`.

## The system

| part | source | state it keeps | who touches it |
|---|---|---|---|
| event bus | `src/bus.rs`, `src/event.rs` | registry, active path, rejected branches, subscriber channels | everything |
| persistence | `src/observability/` (`observer.rs`, `exporter.rs`, `jsonl.rs`), `src/sqlite.rs`, `bus.rs` `restore_from` | an append-only file, a failure count | one subscriber of the bus |
| component host | `src/component.rs` | components and their contexts, tool and service registries | plugins, the application |
| ReAct cycle | `src/agent/strategy.rs`, `hook.rs`, `tool.rs` | the cycle's locals: the step, pending calls, outcomes | one task per agent, one task per concurrent tool |
| guards | `src/agent/budget.rs`, `permission.rs`, `stuck.rs` | budgets and allow-lists read off the bus | called inside the cycle |
| tool recovery | `src/agent/recovery.rs` | none: it reads the log and appends to it | a session that opens, a turn that was cancelled |
| agent loop, agent sets | `src/agent/core.rs`, `multi.rs`, `worker.rs`, `session.rs` | a pause after errors, a limit on concurrent cycles | one task per agent |
| context assembly | `src/agent/context.rs`, `context_edit.rs`, `summarizing.rs`, `tokens.rs` | a cache of the rendering, which results are blanked, a summary on the log | the cycle, before each request |
| heartbeat | `src/scheduler.rs` | a bookmark into the log | a task of its own |
| distributed bus, bridges | `src/distributed.rs`, `src/bridge.rs` | a bounded memory of events seen, connections | two tasks per node, one per bridge |
| epitaphs | `src/eviction.rs` | none; one summary per evicted branch | the bus, inside `rollback` |
| LLM providers, retry | `src/llm/` | a token bucket | the cycle |
| MCP client, plugins, sandboxes | `src/mcp/`, `src/plugin/`, `src/sandbox/` | pending requests, loaded plugins | tools |
| coding agent session | `crates/example-coding-agent/src/agent.rs`, `snapshot.rs` | the list of checkpoints, a gate, a cancellation, the working tree | requests of several clients |
| coding agent subagents | `crates/example-coding-agent/src/tools/task.rs` | a registry of subagents, their buses, relays and checkouts | calls of the `task` tool |
| cowork, clang agent, studio | the other directories of `crates/` | sessions, subscriptions | user interfaces |

How they meet. Agents, tools and clients call `publish`; agents wake on their receiver
and read `log()`, the active path. The observer is a subscriber and writes what it
receives. A rollback cuts the path, hands evicted branches to `on_evict`, and tells
subscribers by events. A component's `start` registers tools in the registry the
agent's cycle reads at each step. A cycle asks the context assemblers for what the
model is shown, the hooks for what may run, and publishes calls and results. Reopening
a session calls `restore_from` with the file, then attaches the observer, which so
writes what recovery publishes next. The coding session puts prompts, rewinds (a
rollback and the files put back) and cancellations in order by a gate; its `task` tool
runs subagents that have a bus of their own and whose permission requests a relay
carries to the session's bus.

What is hard about it, and what makes each part correct:

* **Bus.** `rollback` gives the store lock up three times, so publishes, other
  rollbacks and the drop of its own future come in between. Correct means that
  no event is lost or held twice, that the registry keeps whatever the path and
  the branches name, that the links carried by events agree with where they are,
  and that its readers see a log that grows and is cut and nothing else.
* **Persistence.** What is on file is only what was received, and a tombstone is
  published later than the branch it records. Correct means that a restart
  rebuilds the path and the branches.
* **Component host.** Each method takes its locks one at a time and awaits
  foreign code in between. Correct means that no effect outlives its component,
  that nothing runs without what it requires, and that calls come back.
* **ReAct cycle, guards, recovery.** Tools run concurrently; a cancellation or a
  crash may come between a call and its result. Correct means that every call has
  one result that is true, in the order the model asked, before the model is
  asked again, that approvals hold, and that turns end.
* **Context.** Caches, ordinals and summaries are kept over a log that a rewind
  makes shorter. Correct means that every request is one a provider takes and is
  the conversation of the log, whole.
* **Agent loop, heartbeat.** Correct means that no message is lost between
  subscribing, looking at the log and waiting for a permit; that a set of agents
  comes to an end; that a beat is skipped only if nothing happened.
* **Distributed bus.** Correct means that an event comes to each bus once and in
  order, does not circulate, and comes to every connected node.
* **Coding session and subagents.** Correct means that turns of several clients
  stay apart, that the list one rewinds with is that of the log, that a rewind
  puts the files back, that a cancel is heard; that subagents hold one
  conversation at a time, hear the answers to their own requests, and have their
  checkout as long as they live and no longer.

## Modules

The composition follows `EXTENDS`: `BusPersistence` is the bus with its observer
and its process; `EventBus` is set against `BusLog` by the mapping `Promise` at its
end. The others model the bus by what `BusLog` promises, a sequence that grows and
is cut, and each leaves to another module what that one models. `Filtering` is
shared: what `retain` and a filter leave of a list, said by places, as the
candidates of `reconcile`, the order after `remove` and the checkpoints of a resumed
session need it. The modules named `...Proofs` hold theorems only.

### EventBus — `src/bus.rs`

An event is named by its position in `history`, the sequence of all that was
ever published: a fresh name, as the UUIDs of the code are.

| model | code |
|---|---|
| `nodes`, `active_path`, `rejected_branches` | the fields of `DagStore` |
| `chan[s]` | a sender in `subs` (`open`, `gone` when its receiver was dropped and no fan-out has noticed, `off`) and the receiver's queue |
| `handed` | every event `on_evict` has been given |
| `call[c]` | the locals of `rollback` in the task `c`, and which await it is at |
| `Publish`, `Commit` | `publish`: link, insert, append, fan out, in one critical section |
| `Broadcast` | `broadcast`: fan out, with no store |
| `RollbackSeal`, `RollbackEvict`, `RollbackAnnounce`, `RollbackTombstone` | the four sections of `rollback` |
| `Abort` | the future of a rollback dropped at one of its awaits |
| `Subscribe`, `Recv`, `DropReceiver`, `Close` | the channel's life |

`history`, `handed` and a caller's `aborted` phase are the model's own: they say
what has happened, and no guard reads more of them than the next free name.

### BusLog — what the bus promises

The abstract specification: a log that grows by events nobody has seen before
and is cut back, branches that are kept and forgotten oldest first, tombstones
that are owed. `EventBus` implements it by the mapping `Promise`: `active_path` for
the log, the `ids` of the branches, the `rejected` of a rollback under way for
what its tombstone owes.

### BusPersistence — the bus, its observer and `restore_from`

Extends `EventBus`: `Export` and `ExportFails` are the loop of `BusObserver`,
`Restart` loses the process at any step and opens the session again from the
file. `RestoreFrom` is the loop of `restore_from` over the items of a file, with
`RestoreStep` its body, and `Unroll` what a tombstone does in it. The properties
speak of a stream that is `Whole`: nothing failed to be exported, the exporter is
still attached, and its queue has no limit (with one, the bus drops what does not
fit and tells nobody).

### ComponentHost — `src/component.rs`

`proc[t]` is where task `t` is inside the host, with the locals of its call; a
step is what a task does under one lock or up to one await. A component's
context (`id`, and the list `made` of its undo steps) is in the entry of an
active component or in the locals of the call that is starting or stopping it.
`registry` says which context filled a tool's or a service's slot, `running` which
contexts' hooks and tasks are live. `load` is `Call, CheckDuplicate, Insert`, then
`try_start` (`Lookup` to `TellLoaded`), then `reconcile` (`Reconcile`,
`StartNext` and `try_start` again); `unload`, `remove` and `reload` are `stop`
(`Stop` to `TellUnloaded`) and `cascade` (`Cascade`, `StopNext` and `stop` again).
`Cancel` drops a call at an await and leaves its task free for another; `DropHost` is
the host's `Drop`, which needs the host to itself. A `ComponentContext` has no `Drop`,
and undo steps that are dropped do not run. The history `left` says what dropped calls
left: contexts dropped in the middle of a `start`, services whose coming or going no
cascade has followed, components of which the bus has not heard the last.

### ToolCycle — `src/agent/strategy.rs`, the hooks and `src/agent/recovery.rs`

One agent's turns. `cycle` holds the locals of the ReAct loop and of
`execute_tools`, `task` the spawned tool tasks, `rec` where
`reconcile_interrupted_tools` is and which proposals it still has to answer, `log`
the messages, proposals and results.

| model | code |
|---|---|
| `Submit` | `prompt_turn` of the coding agent: publish the message, run a cycle |
| `BeginStep`, `LlmAnswers`, `LlmFails` | `run_react_step`, with the budget hook before the request |
| `WrapUp` | `finalize` |
| `Propose`, `BadArguments`, `Hook`, `Plan` | phase 1 of `execute_tools` |
| `Decide`, `AskTimesOut` | `ask_for_approval`: a decision, also a late one, or none |
| `Start`, `Finish`, `Collect` | phase 2 |
| `PublishResult` | phase 3, and the end of the step |
| `Cancel`, `NoticeCancel` | `cancel`, and the branch of `cycle_locked` that drops the cycle |
| `Crash` | the process stops; the session opens with what was on file |
| `Scan` to `Reconciled` | `reconcile_interrupted_tools`, one step up to each await |

`runs`, `asked` and `approved` are the model's own record of what has happened.
The file is abstracted to what `BusPersistence` says of it: a part of the log from
its start, and no less than was read the last time.

### ContextAssembly — `src/agent/context.rs`, `context_edit.rs`, `summarizing.rs`

What a request consists of. `Render` is `events_to_messages` with the repair of calls
that have no result; `BuildWithCache` is the incremental rendering; `Assemble` is the
stack of the three assemblers up to the point where the budget is looked at, `Fold`
one pass of `do_summarize` with `ChooseCutoff`, `Send` the request. `Respond` and
`Answer` are the cycle's events; `Drop`, `Restart` and `Rewind` what cuts a cycle or
the log short, with the repair of the coding agent or without one. `Hear` is a message
from elsewhere, of any of the kinds in `Asides`, while the agent does whatever it
does. One agent works on the log: a second one's calls would wait for results while
the first one's requests go out (see below). A message keeps the event it was rendered
from, so that a message that is lost, doubled or stale shows. Lengths and token counts
are left open: any assembly may be over its budget, at any message.

### AgentLoop — `src/agent/core.rs`, `multi.rs`, `src/scheduler.rs`

`stage[a]` is where an agent's task is (`Subscribe` and `CheckPending` before the
loop, `Take`, `Acquire`, `CycleReads` and the ends of a cycle in it), `rx[a]` its
queue of wake events, `pausing` the backoff. `Join` and `Abort` are the set's loop
over `join_next`. The scheduler is `Tick` (activity after the bookmark), the
bookmark and the heartbeat, in that order. `owed` is the history of what an agent
is there to answer and has not read.

### Mesh — `src/distributed.rs`, `src/bridge.rs`

Buses, the nodes among them that run a `DistributedBus`, connections and bridges.
`Outbound` and `Take`/`Inbound` are its two tasks (`held` is the event marked and
not yet published), `Read` the transport's reader, `Lose` a connection lost,
`Stop` the end of a bus, `Forward` a bridge. `log` is what was published on each bus, in
order, not its active path: rollbacks would cut that, and are left out, as are
broadcasts, which are on no path of their own bus and which a `DistributedBus` forwards
all the same, for its peers to publish and keep.

### CodingSession — `crates/example-coding-agent/src/agent.rs`, `snapshot.rs`

Requests of several clients on one session and its working tree. A prompt is
`PromptTurn` (checkpoint), `PublishMessage`, `Capture` (the snapshot), then the cycle,
which ends (`CycleEnds`) or hears a cancel (`HearCancel`, `Stop`). A rewind is
`Rewind` (the rollback), `Truncate` (the list, and the comparison of the snapshot
with the tree), then one `RestorePath` for each file, of which a removal may fail and
nobody hears (`notice.left`) while a write that fails ends the rewind (`RestoreFails`).
`Edit` is the user, `Drop` a request whose client is gone, `Restart` the session resumed.
`was` and `notice` are histories. All requests take the gate, as those of the ACP server
do. The studio does not: it calls `submit_prompt` and, in a task, `run_cycle`
(`local.rs` 444 and 453) and keeps to one turn by a lock of its own; it is not modelled.

### Subagents — `crates/example-coding-agent/src/tools/task.rs`

Calls of the `task` tool: `Start`, `Created`, `Continue`, `Brief`, `EndTurn`, `Insert`
with the retirement from a full registry; the relay: `Fetch`, `Forward`, `Inbound`;
the checkouts: `disk`, and the sweep when a session opens (`Open`). A Live value that is
dropped takes its checkout with it unless git fails (`Dropped`); a call dropped in
`Worktree::create` may leave one that no subagent was given, 0 on `disk`. `Close` is the
session dropped, registry and calls with it; that `CodingSession::close` closed the bus and
wrote the log out a moment before is part of that step. `lost`, `left` and `swept` are
histories: the checkouts a kill, a failure of git or a dropped call left, and those a sweep
took from the living.

## Runs

| run | what it asks | result |
|---|---|---|
| `event_bus` | do the store and the streams stay consistent under two rollbacks, publishes and a subscriber, interleaved and dropped, and do its readers see the log of `BusLog`? | holds |
| `bus_session` | does the exported stream rebuild the session, across a restart at any step, and does it become durable? | holds |
| `component_host` | do components, effects, dependencies and lifecycle events agree under one caller, but for what a dropped call leaves, with a failing start and the drop of the host; do calls return? | holds |
| `tool_cycle` | has every call one true result in its place before the model is asked again, does a turn run only what was approved and do turns end, with cancellation, two process stops and repair? | holds |
| `ask_replayed` | does only what was approved run, replays included? | violated |
| `context` | is every request the whole conversation, with each call and its result together unless somebody spoke between them, with dropped cycles, restarts, rewinds and compactions? | holds |
| `agents` | is no wake event lost and no activity passed over, and does a set of agents return, with errors, panics, a rollback and the close of the bus? | holds |
| `mesh` | do events come to every bus once, in order and without gaps, and to every connected node, with a memory of one event and a connection that is lost? | holds |
| `coding` | do turns stay apart, do rewinds undo what they say and does a cancelled turn end, with two clients, dropped requests, failing git commands and a restart? | holds |
| `cancel_unheard` | has a cycle of a cancelled session the cancellation before it? | violated |
| `subagents` | do conversations, decisions and checkouts follow their subagents, but for the checkouts that a kill, git or a dropped call leaves, with dropped calls, a git that fails and a session closed, killed and reopened? | holds |
| `subagents_swept` | does the sweep of a second session on the repository take no checkout from the living? | violated |

### What the violated ones show

* `ask_replayed`: a proposal is on file as soon as it is published; after a stop the
  repair cannot tell a call that is denied or still waits for approval from an
  interrupted one, and replays it if its tool may be replayed. The coding agent's own
  recovery replays every tool named `lsp_*` (`agent.rs` 774-778), `lsp_rename` with them,
  an edit tool about which the ask mode asks (`config.rs` 91-116). `TurnsRunOnlyApproved`
  states what does hold: a turn never runs a call that is asked about and that nobody
  approved of, and only a repair does, at most once for each restart.
* `cancel_unheard`: `submit_prompt` clears the cancellation, then takes a snapshot,
  which may take seconds; `cycle_locked` clones the receiver after it and marks
  what the channel holds as seen. A cancel in between is not noticed, and the cycle
  runs to its end. `CancelStops` states what does hold: a cancel that comes while the
  cycle runs ends it.
* `subagents_swept`: `build` sweeps every checkout named like a subagent's when it
  opens a session; those of another session's subagents, at work, are among them.
  `CheckoutsFollowOwners` states what does hold: nothing else takes one from the living.

### What does not hold, and how to see it

Properties the code's documentation suggests and that the models refute are kept
at the end of their modules under "What does not hold". No configuration checks
them; to see one fail, add it to the configuration of its module, changed as
said here, as an INVARIANT or, where it says so, as a PROPERTY.

| property | what to change | what TLC shows |
|---|---|---|
| `BusPersistence!RestartNeverResurrects` | `PSpec`, one caller, `MaxFailures` 0, as a PROPERTY | a rollback whose future is dropped between the seal and the tombstone is recorded nowhere, so `restore_from` puts its events back (`bus.rs` 523; 581-583 promises otherwise). `RestoreIsFaithful` states what does hold |
| `EventBus!BoundedRetention` | in `MCBusPersistence.cfg`, one caller, `MaxFailures` 0, `PSpec` | `restore_from` rebuilds every branch on file and evicts none (`bus.rs` 647, 141) |
| `ComponentHost!NothingOutlivesOwner` | as it is | a `load` dropped while `start` is awaited drops the context, which has no `Drop` (`component.rs` 470, 643-648): the tools, hooks and tasks registered by then have nothing left that could undo them (10 and 464 promise otherwise). `OnlyDroppedStartsLeak` states what does hold |
| `ComponentHost!NothingOutlivesOwner` | `Tasks` {t1, t2}, `MaxDrops` 0 | `load` looks for a duplicate under one lock and inserts under another (`component.rs` 398, 406): two loads of one name both insert, and the second entry replaces one whose undo steps are lost |
| `ComponentHost!DependenciesHold` | as it is | an `unload` dropped while it tells of the stop never comes to its `cascade`: what depended on the component runs on (`component.rs` 569; 15 promises otherwise). `OnlyDroppedStopsStrand` states what does hold |
| `ComponentHost!DependenciesHold` | `Tasks` {t1, t2}, `MaxDrops` 0 | `try_start` checks the services, awaits `start` with no lock and looks no second time (`component.rs` 470): a service withdrawn meanwhile leaves the component active, and the `cascade` of the other caller has passed it over |
| `ComponentHost!PendingIsWaiting` | as it is | an unloaded component waits for nothing and is pending, so the next `load` of another starts it again (`component.rs` 556, 318) |
| `ToolCycle!AbortIsFinal` | as it is | a hook's abort is published with the results, the proposals at once: after a stop in between the repair replays what was not to run (`recovery.rs` 211; `strategy.rs` 307: "Once a hook has aborted, nothing further runs") |
| `ToolCycle!BudgetIsCeiling` | `MaxTokens` 2, `MaxRestarts` 1 | `finalize` asks the model without the `before_llm` hook (`strategy.rs` 786, `budget.rs` 10) |
| `AgentLoop!NextMessageIsTaken` | as a PROPERTY | an agent says "Ready for your next message" after an error and drops the message if it comes in the pause (`core.rs` 150-154 mean it so) |
| `AgentLoop!ActivityIsHeard` | as it is | a rollback moves the log under the scheduler's bookmark, and activity below it is passed over |
| `ContextAssembly!RequestIsValid` | as it is | the bus takes messages while a batch of tools runs, and agents, bridges and guards publish some; between the calls and their results they are shown as a user's (`context.rs` 237-263), and `choose_cutoff` takes that for the start of a turn (`summarizing.rs` 735): the request opens on results whose calls are folded away (680-683 promise otherwise). With `Images` {TRUE} and `Asides` {} an image does the same, which follows its result as a user message. `OnlyDividedBatchesAreCut` states what does hold |
| `ContextAssembly!RecentResultsShown` | as it is | after a rewind or a compaction the ordinals of blanked results are those of later results |
| `Mesh!Converges` | `Links <- StarLinks`, `Bridges = {}` | a listener passes nothing on from one peer to another (`distributed.rs` 258) |
| `Mesh!NoEcho` | `MaxHops = 2` | bridges in both directions bring an event back to its bus under its own id |
| `CodingSession!RestoredIsAsItWas` | as it is | `restore` discards the error of a removal and counts the path as restored (`snapshot.rs` 186): a file the undone turn had made stays, and the notice says that the tree is as it was (`agent.rs` 1029). `RewindPutsBack` states what does hold |
| `Subagents!OnlyKillsLeaveCheckouts` | as it is | a call dropped in `Worktree::create` has no `Worktree` yet whose drop would remove the checkout, and the git process that makes it goes on (`task.rs` 164); a removal that fails does the same, for `Worktree::drop` discards its result (212-220; 208 and 224 speak of kills only). The next session's sweep finds both. `CheckoutsFollowOwners` states what does hold |
| `Subagents!NamesStayTheirs` | as it is | after a restart the registry counts from one again, and names the transcript gives mean other subagents |

Found while modelling, and outside the models: the studio's `interrupt` (`local.rs`
494) cancels the turn, aborts its task and reconciles without waiting for either, so
that a call may be answered twice (to see it, give `ToolCycle` a second reconciler
that starts with `Cancel`: `ResultsMatchCalls` fails). `has_pending` does not count
messages from agents that were published before the subscription. Under a limit an
error ends the agent and aborts the set, with no look at the log and no pause. A
client that disconnects during the snapshot leaves a message nobody answers, and a
rewind dropped between its rollback and its truncation leaves a checkpoint that no
longer exists on the list (`CheckpointsMatch` excludes both). When the snapshot of the
tree fails during a restore it is compared with HEAD, and the rewind says it is done
(`RewindPutsBack` excludes it). The comment on `rewind` (`agent.rs` 928-935) says that
the working tree is not restored; it is, since there are snapshots (962). Files a
command wrote are not among the touched files. Dropping a subagent's join handles does
not stop its relay (`task.rs` 315 and 398 say it does): relay and bus live until the
session's bus closes. The subagent that is retired is the one with the fewest turns,
not the oldest. The report of a failed turn is the last message of an earlier one. An
MCP client shakes hands before `with_bus` can give it a bus, so that it never declares
the elicitation it then handles (`src/mcp/client.rs` 160 and 246). With two agents on
one bus a cached rendering keeps the result that was made up for a call the other one
was still working on, and the true one comes after it (`context.rs` 400). The notice
of a cancellation has a payload `content`, not `text` (`agent.rs` 1216, `local.rs`
510), so that nothing of it is shown to the model, though it is there "so the model
knows next turn that it was stopped" (`local.rs` 505).

## Bounds, and why they are enough

* `MaxEvents` 5 (bus) and 4 (session): two rollbacks that overlap need a tombstone
  each and something to roll away; with five events a rollback can reject
  another's tombstone, and a third finds the outcome. `MaxRetained` 1 makes the
  second branch evict the first.
* `Callers`: two; a rollback's steps read only the shared store and its own
  locals, so a pair shows any order of two steps.
* `ReplyTo` {2}: one event may be named as an explicit parent, also when it is no
  longer on the path.
* `MaxQueue` 2: broadcasts stop when a queue holds two items; publishes and
  rollbacks deliver regardless. `Capacity` equals `UsizeMax`, the default of
  `BusConfig`, which is the case the stream promises something about.
* `MaxFailures` 1, `MaxRestarts` 1: a failed export makes the file partial once; a
  restart's outcome depends on the file alone.
* Components: a store, an index over it, and a search tool over both give a chain
  and a diamond; the index may fail to start after any of its effects.
  `ContextIds` has one context for every component, every task and every dropped
  call, and one that nobody holds may be named again, so that this is no bound on how
  often components come and go. `MaxDrops` 1: what a dropped call leaves is met by
  every call that follows it. One caller: with two, some of it fails (see above).
* Turns: two calls, in one response or in two, show every order of two results;
  two steps reach the step limit and the wrap-up; three responses cross the
  budget. Five tools have every verdict and every policy between them, among them one
  that is asked about and may be replayed.
  `MaxConcurrent` is zero, which the code reads as one. Two stops allow one in the
  repair that follows the other. The theorems hold for all of these.
* Context: eight events are a turn with a batch of two, a message between its results,
  a compaction, a rewind and the start of a turn over what is left; keeping one
  message and one result puts the limits where a batch is cut.
* Agents: two, with one permit between them or none; two messages, so that one
  comes before and one after any step; one heartbeat, one failure, one rollback.
* Mesh: two nodes and a bridged bus are the smallest mesh with both ways around;
  a memory of one event is full at the second; one connection is lost.
* Coding session: a file that is there at the start and one that is not; two
  prompts, two writes and a rewind give a rewind over two turns; contents 0 to 2
  tell apart what was, what the agent wrote and what the user wrote.
* Subagents: two calls and two subagents with one resident make the second insertion
  retire the first; two decisions may both be on one request, and late. One session: the
  first of two mishaps opens it, the second opens it again or drops a call; removals by
  git may fail without a bound. All subagents have checkouts: one without takes the same
  steps but those about it. Two sessions meet only in the repository, and there only in
  the sweep, which `subagents_swept` is about; the theorem on checkouts is for any
  number of them.

Deadlock is checked in `event_bus` and `bus_session`, where it says little, since the
bus can always be closed once more. It is off elsewhere: a host that is gone has no
step left, and the bounds let the other systems come to rest, as a session nobody
prompts any more. That nobody waits for ever is what the liveness properties say.

## Fairness

`PFairSpec` assumes that the observer's loop receives what is queued and that a
rollback that has begun goes on (tokio runs ready tasks, its mutexes are granted
in order); not that clients publish, that anyone rolls back, or that a process
restarts. `HFairSpec` assumes the same for a task inside the host, and that
`start` of a component returns; not that calls are made or dropped. `TFairSpec`
assumes that a turn and a repair go on: a request to the model ends by the
provider's timeout, a tool by its own, a permission by the hook's; not that
anyone submits, decides, cancels or stops. `AgentLoop` assumes that each agent's
task goes on, cycles included, and that the set takes what `join_next` has; not
that anyone publishes or closes the bus, nor that time passes. `Mesh` assumes that
the tasks of nodes, readers and bridges go on; not that nodes start or
connections hold. `CodingSession` assumes only that a `select` with a branch ready
takes it and that the closing of a cancelled turn goes on; nothing makes a cycle
end.

## Proofs

Every theorem is for all sets and numbers the constants may stand for, from the
assumptions the modules name, and every one but `CutIsClean` of `ContextProofs`, which
is about one function, follows from an inductive invariant: initial states satisfy it,
each action preserves it (one lemma for each or for each group of like ones), and the
property follows. An assumption a theorem makes beyond those of its module is a named
operator in its statement.

**`BusProofs`**, of the bus: `TypeCorrect`, `TopologyInvariant`, and from it
`NodesRetained`, `OnePlace`, `NoEventLost`, `AnchorsResolve`, `ChainIntact`,
`TombstonesHonoured` and `BoundedRetention`. None is inductive alone. That an
eviction leaves every branch its anchor needs the order of things: a branch's
parent is either on the path still or on a branch sealed later, since it was on
the path when the branch was sealed (`AnchorsOrdered`), and branches are evicted
oldest first. That the collector frees nothing it should not needs
`NodesRetained`, and that it loses nothing needs `OnePlace`, for an event of an
evicted branch must not be on another. `TombstonesHonoured` needs to know that
what a rollback under way has rejected is off the path for good
(`RejectsPublished`, with `OnePlace`). Assumed: limits are naturals, a capacity is
not zero, the tasks are finitely many (only `BranchesAreBounded` counts them) and
clients do not publish `system.rollback` themselves.

`SubscribersHearTheLog` proves `StreamMatchesLog`: names grow and a fan-out happens
in the critical section of the publish it belongs to, so a queue that has every
event from some name on is in order and stays so. A receiver takes from the front,
which moves that name and opens no gap.

`BusIsALog` shows that `EventBus` implements `BusLog`, each of
its steps being a step of the log or none, on the invariant above;
`RejectedStaysRejected` carries over what is then proved of the abstract log, that
an event which left it never comes back.

**`BusProofs`**, of persistence: `SessionInvariant`, and from it `RestoresThePath`,
`RestoresTheBranches` and `RestoreDropsNothing`. What a whole stream rebuilds is
known by its elements alone: the path with everything that is being rolled back.
That is enough, since names grow, the path and the branches of the bus and of the
restored store are rising sequences, and a rising sequence is the only one with its
elements (`RisingIsUnique`). So the invariant (`Session`) need not follow the order
in which concurrent rollbacks seal and record: `Recorded` says that each branch of
the bus is among the rebuilt ones or is the one a rollback under way has sealed
(`SealedBy`), with the elements its tombstone will name. When the tombstone
arrives the replay takes exactly these off the path; that they are all still there
needs `Apart`, that two rollbacks never reject one event. A restart begins with no
rollback under way and a stream that is the file, so what it restores is recorded
by definition; what has to be shown is that it is of the right types, each event in
one place (`RestoreSound`, which does not need the stream to be whole).
`RestoreFrom`, `On` and `Off` are recursive functions over a list's places; what they
return is proved by induction over a set of numbers (`Induction`, from the least
element outside it), which needs no theorem with an operator parameter.

**`ContextProofs`**: `CutIsClean` says of `choose_cutoff`, for every conversation
and budget, that it folds nothing twice, keeps the newest messages and leaves no
tail that opens on a tool result. `ContextInvariant`, and from it `AllIsShown`
(`NothingSkipped`), whatever comes from elsewhere. A log is rendered part by part only
if no part answers another one's calls (`RenderJoins`), for the repair looks at all
the results there are. So the invariant says of the cache and of each summary on the
log that no call from before it is answered after it (`ClosedAt`), and of the calls
that wait that they are later than both (`Later`): assistants make calls under new
names, and a cycle that is assembled has none open. A rewind keeps this, since it
shortens the log and a cache is used only where the log still carries the name it
ended on (`Cached`); a summary it cuts away was on what it cuts away (`Folded`).

`ChatInvariant`, and from it `RequestsAreWhole` (`OnlyDividedBatchesAreCut`): in the
log each result comes after its call, and in between the assistant says nothing
(`Linked`), though others may, and a dropped cycle may leave calls without one; the
repair puts those right after their message, so that in what is rendered each call has
its one result before the assistant speaks again (`Paired`). A cut that is clean falls
before a message that is no result, so that if it falls between a call and its result
that message is a user's (`CutKeepsPairs`). Flattening is defined by a recursive
function; where its parts lie (`FlattenPlaces`) is proved by induction over a set of
numbers.

**`ToolCycleProofs`**: `CycleInvariant`, and from it the types,
`ResultsMatchCalls` and `AnsweredBeforeRequest`. The log's order alone is not
inductive: that the next result is larger than all before it needs to know which
calls are open at every step of a turn or a repair. `LogInv` relates proposals and
results to the calls the model has made; `OpenInv` says which proposals have no
result: none between turns and while the model is asked; those of the current
response from `at` on while it is planned, run and published; the set `todo` of
the repair and nothing before it; anything from the last answered one on after a
crash, since what is on file is a beginning of the log.

In the second half of the module, `RunInvariant`, and from it `ResultsAreTrue` and
`TurnsRunOnlyApproved`: `Counted` ties the number of executions of a call to where it
is: none before its task starts, one while it runs or awaits its result, more only
by replays. `Approvals` says that a call that is asked about has no veto in the
plan only if somebody approved of it (`Granted`), and that one nobody approved of
has been replayed once for each restart at most, and not yet for a restart whose
repair may still come to it (`Spared`). Nothing is assumed of the policies.

**`AgentLoopProofs`**: `LoopInvariant`, and from it `NoWakeLost` and
`NothingPassedOver`. What an agent owes is in its queue, except between its
subscription and its look at the log, when it may be in the log instead
(`SeenInLog`): subscribing first is what makes this inductive. Below the
scheduler's bookmark everything is older than the last heartbeat because names
grow and the bookmark is taken before the beat; in between nothing is claimed.

**`CodingProofs`**: `GateInvariant`, and from it `TurnsDoNotInterleave`. One
request at a time is not idle (`Gate`), a new turn is later than all that were
begun (`Begun`), and a turn that still publishes has its checkpoint on the log
with nothing later on it (`Newest`), which no rewind can disturb while it holds
the gate. Restarts and dropped requests leave the log alone.

`SnapInvariant` goes further, to `RewindsRestore` (`RewindPutsBack`). A snapshot that
is kept is the tree its turn began on (`Snapshots`, `Opens`); of a rewind under way
it says that every file it no longer has to put back is as it was (`PutsBack`),
and a notice that says "restored" is true as long as it stands (`Says`), but for files that
were not there and could not be removed (`IsBack`). The agent
cannot write in between because its turn would hold the gate; the user is taken not
to edit while files are put back (`Edit`), and an edit after it takes the notice away.
`ListInvariant` gives `CheckpointsAreTheLog` (`CheckpointsMatch`): each turn is on the
log once, and the list has the turns of the log but for the one a prompt has
published and not yet listed, or those a rewind has cut from the log and not yet
from the list (`Matched`). The list is claimed to match until a request is dropped
half way, as the property says.

**`ComponentHostProofs`**: `HostInvariant`, and from it `OwnersOutlast`
(`OnlyDroppedStartsLeak`), `DependentsStop` (`OnlyDroppedStopsStrand`), `RunningIsWhole`,
`BusIsToldState` and `ReconcileIsThorough`, all the safety properties of
`component_host`. A running component has its list of undo
steps and everything on it stands (`Complete`); what a call has made and not yet
handed over, or taken over and not yet undone, is on the list in its locals
(`Fits`); no two lists have a thing in common (`Apart`), and whatever is in a registry
or running is on one or was made by a dropped start (`Recorded`); what runs is served by
what runs, or was left to nobody, unless a cascade is under way (`Serving`). Calls may be
dropped any number of times. Two assumptions: `OneCaller`, that the calls of the host do
not overlap, which the code does not ask for and which cannot be left out (above,
`NothingOutlivesOwner` and `DependenciesHold` with two tasks); and
`OneProvider`, that no two components fill one slot, since the registries replace
what is under a name without a word and a disposer empties the slot by its name
(`component.rs` 199-273): with two providers the first one's unload would take the
second one's tool. Both are met by the configuration of the run.

**`SubagentsProofs`**: `SubagentInvariant`, and from it `ConversationsAreOne` and
`AnswersArrive`; with `Kept`, also `CheckoutsAreKept`. A subagent is in the registry
of its session, or with one call, or gone (`OnePlace`), and its conversation ends on
a report except while the call it is with runs the cycle (`Turns`). A relay waits
exactly on the requests it has read and found no decision on (`Relayed`), and what
it has passed on is what was decided on them, once (`Hears`). `Kept` says of each
subagent in a checkout that it is on disk or was swept away, and of each checkout that
its subagent is in a registry or with a call, or that a history names it. All three hold
for any number of sessions on one repository; with one, nothing is ever in `swept`, for
no subagent lives when it opens.

**`MeshProofs`**: `MeshInvariant`, and from it `NothingEchoes` (`NoEcho`) and
`HeardInOrder` (`InOrder`), for any number of buses, connections, bridges and events,
any limit on hops and a memory of any length. An event is its maker and its number, so
the invariant speaks of the sets of numbers of one maker that a bus, a connection or a
node holds (`Nums`). Along a connection (`Flow`), what the second bus has published, its
inbound task has marked, its reader has read and the socket carries, and what the first
bus's outbound task has not yet sent, follow one another in this order; together they
have no gap as long as the second node runs, and they reach to the newest as long as
both run and the connection stands. Over a bridge (`Span`) the same holds of what is
passed on and what is not. A lost connection takes the end of its part away and leaves
the rest a beginning, and a node that starts late begins where it starts: neither
makes a gap. The two theorems assume `OneWay`: a map `way` says for each maker and bus
by which mark and after how many bridges its events come there, such that no event is
sent back to its maker or to a bus by two connections or bridges. `MCMesh` has the
map for its configuration (`TheWay`), and TLC evaluates that it is one. With bridges in
both directions and two hops, or where one bus reaches another both by a connection and
by a bridge, there is no such map, and an event may come twice. Under `OneWay` the
memory is never what keeps an event out (`Memories`): the marker and the order do.

What stays with TLC. Liveness (`EventuallyDurable`, `CallsReturn`, `TurnEnds`,
`SetReturns`, `Delivered`, `CancelStops`), which needs `ENABLED`, out of this prover's
reach. Every other property of a passing run is a theorem. The type invariants `TypeOK` of
`EventBus` and `TTypeOK` of `ToolCycle` are proved, and those of the other modules with
theorems are part of the invariants above; `PTypeOK`, `HTypeOK` and `TypeOK` of
`ContextAssembly` can be added to the configurations of their modules.

## Not modelled

Payloads, publish transforms, metadata and timestamps; `export_snapshot` and the
incremental load of a session file; streaming of replies, tool selection, result
caps; token counts; the wording of events. LLM wire formats, the MCP protocol,
process sandboxes, file and editor tools, settings, prompts and user interfaces
keep no shared state of the kind these models are about; cowork, the clang agent
and studio are programs over the library with the shape of the coding agent.
Retry and the rate limit are a loop around one request and real-valued arithmetic
on the clock. `PROJECT.json` gives a reason for every part.

## Plan

Done: the bus, its abstract specification, the refinement and their proofs;
persistence, the component host, the tool cycle with recovery, agents and
heartbeat, the coding session, subagents, the context, the distributed bus and
bridges, each with the proofs of its safety properties.

What is left, in this order: the studio's view of a session (`feed.rs`, `index.rs`)
as a reader of the log; the cowork session's steering messages; the MCP client's
table of waiting requests.
