------------------------------ MODULE AgentLoop ------------------------------
(***************************************************************************)
(* What wakes an agent: the reactive loop of agent/core.rs, the sets of    *)
(* agents of agent/multi.rs, and the heartbeat of scheduler.rs, on one     *)
(* bus.                                                                    *)
(*                                                                         *)
(* An agent takes wake events off its subscription and runs a cycle for    *)
(* each; a set runs several agents, with a limit on how many may be in a   *)
(* cycle or without one; the scheduler publishes a heartbeat when          *)
(* something happened since the last.                                      *)
(*                                                                         *)
(* What a cycle does between its start and its end is ToolCycle and        *)
(* ContextAssembly; here it reads the log once and ends well, with an      *)
(* error or in a panic. The log holds what wakes an agent: what a cycle    *)
(* publishes wakes nobody, is no activity to the scheduler, and moves its  *)
(* bookmark and the log alike. A user's message stands for the system's as *)
(* well, which wakes alike. Time is left out: a pause after errors is over *)
(* at any moment or not yet. Publishing does not fail (EventBus).          *)
(*                                                                         *)
(* A definition marked "Slip" is not part of the model: it is a way to get *)
(* the definition after it wrong, kept to show that a property notices.    *)
(***************************************************************************)
EXTENDS Integers, Sequences, FiniteSets, SequencesExt

CONSTANTS
    Agents,        \* the agents of the set
    Limits,        \* the values AgentSet::max_concurrent may have; 0 is none
    MaxInputs,     \* bound: messages from outside
    MaxBeats,      \* bound: heartbeats
    MaxFailures,   \* bound: cycles that do not end well
    MaxRollbacks   \* bound: rollbacks of the log

ASSUME BoundsAssumption ==
    /\ Limits \subseteq Nat
    /\ {MaxInputs, MaxBeats, MaxFailures, MaxRollbacks} \subseteq Nat

VARIABLES
    limit,      \* max_concurrent of this set
    log,        \* what wakes an agent on the active path of the bus
    next,       \* the name of the next event
    closed,     \* the subscriptions are gone
    stage,      \* where each agent's task is
    rx,         \* each agent's subscription: the wake events still to be taken
    pausing,    \* consecutive_errors > 0 and the pause since the last is not over
    aborting,   \* abort_all was called
    reaped,     \* the tasks join_next has returned
    sched,      \* where the scheduler is in its loop
    bookmark,   \* the scheduler's last_len
    used,       \* how much of each bound is used up
    owed,       \* history: what each agent is there to answer and has not read yet
    beat,       \* history: the name of the last heartbeat
    shortened   \* history: a rollback since the scheduler's last bookmark

agentVars == <<stage, pausing, owed>>
setVars == <<aborting, reaped>>
schedVars == <<sched, bookmark, beat>>
vars == <<limit, log, next, closed, stage, rx, pausing, aborting, reaped, sched,
          bookmark, used, owed, beat, shortened>>

-----------------------------------------------------------------------------
(* The bus.                                                                *)

Kinds == {"user.message", "agent.message", "system.heartbeat"}
Event == [id : Nat, kind : Kinds, to : Agents \cup {"anyone"}]

Of(kind, to) == [id |-> next, kind |-> kind, to |-> to]

Wakes(a, e) ==
    \/ e.kind \in {"user.message", "system.heartbeat"}
    \/ e.kind = "agent.message" /\ e.to \in {a, "anyone"}

Live == {"subscribed", "listening", "acquiring", "starting", "cycling"}
Ended == {"exited", "failed", "panicked", "aborted"}

\* Slip: the log is read before the subscription is made.
Subscribed_AfterTheLog(a) == stage[a] \in Live \ {"subscribed"}
Subscribed(a) == stage[a] \in Live

\* What an agent does not wake for it receives and passes over: it is not queued here.
FanOut(e) ==
    rx' = [a \in Agents |-> IF Subscribed(a) /\ ~closed /\ Wakes(a, e)
                            THEN Append(rx[a], e) ELSE rx[a]]

Publish(kind, to) ==
    /\ log' = Append(log, Of(kind, to))
    /\ next' = next + 1
    /\ FanOut(Of(kind, to))
    /\ owed' = [a \in Agents |-> IF stage[a] \in Live /\ ~closed /\ Wakes(a, Of(kind, to))
                                 THEN owed[a] \cup {next} ELSE owed[a]]

Use(what) == used' = [used EXCEPT ![what] = @ + 1]

\* A user, another program on the bus, or a tool that writes to an agent.
Input ==
    /\ used.inputs < MaxInputs
    /\ Use("inputs")
    /\ \/ Publish("user.message", "anyone")
       \/ \E to \in Agents : Publish("agent.message", to)
    /\ UNCHANGED <<limit, closed, stage, pausing, setVars, schedVars, shortened>>

\* Everything from some checkpoint on leaves the path.
Rollback ==
    /\ used.rollbacks < MaxRollbacks
    /\ Use("rollbacks")
    /\ \E k \in 0..Len(log) - 1 : 
           /\ log' = SubSeq(log, 1, k)
           /\ owed' = [a \in Agents |-> owed[a] \ {log[i].id : i \in k + 1..Len(log)}]
    /\ shortened' = TRUE
    /\ UNCHANGED <<limit, next, closed, rx, stage, pausing, setVars, schedVars>>

Close ==
    /\ ~closed
    /\ closed' = TRUE
    /\ UNCHANGED <<limit, log, next, rx, agentVars, setVars, schedVars, used, shortened>>

-----------------------------------------------------------------------------
(* Agent::run, and the loop of run_until_all_complete when there is a      *)
(* limit.                                                                  *)

Limited == limit > 0
InCycle == {a \in Agents : stage[a] \in {"starting", "cycling"}}

agentFrame == UNCHANGED <<limit, closed, setVars, schedVars, shortened>>

\* The task is over, and its subscription with it.
End(a, how) ==
    /\ stage' = [stage EXCEPT ![a] = how]
    /\ rx' = [rx EXCEPT ![a] = <<>>]
    /\ pausing' = [pausing EXCEPT ![a] = FALSE]
    /\ owed' = [owed EXCEPT ![a] = {}]
    /\ UNCHANGED <<log, next>>

\* What has_pending looks for: messages from other agents are not counted.
Pending ==
    {e.id : e \in {log[i] : i \in {j \in DOMAIN log : log[j].kind # "agent.message"}}}

Subscribe(a) ==
    /\ stage[a] = "spawned"
    /\ stage' = [stage EXCEPT ![a] = IF Limited THEN "listening" ELSE "subscribed"]
    /\ owed' = [owed EXCEPT ![a] = IF Limited THEN {} ELSE Pending]
    /\ UNCHANGED <<log, next, rx, pausing, used>>
    /\ agentFrame

CheckPending(a) ==
    /\ stage[a] = "subscribed"
    /\ stage' = [stage EXCEPT ![a] = IF Pending # {} THEN "starting" ELSE "listening"]
    /\ UNCHANGED <<log, next, rx, pausing, owed, used>>
    /\ agentFrame

Take(a) ==
    /\ stage[a] = "listening"
    /\ rx[a] # <<>>
    /\ rx' = [rx EXCEPT ![a] = Tail(@)]
    /\ IF pausing[a]
         THEN /\ owed' = [owed EXCEPT ![a] = @ \ {Head(rx[a]).id}]
              /\ UNCHANGED stage
         ELSE /\ stage' = [stage EXCEPT ![a] = IF Limited THEN "acquiring" ELSE "starting"]
              /\ UNCHANGED owed
    /\ UNCHANGED <<log, next, pausing, used>>
    /\ agentFrame

PauseOver(a) ==
    /\ pausing[a]
    /\ pausing' = [pausing EXCEPT ![a] = FALSE]
    /\ UNCHANGED <<log, next, stage, rx, owed, used>>
    /\ agentFrame

\* The permit is held from here to the end of the cycle, however it ends.
Acquire(a) ==
    /\ stage[a] = "acquiring"
    /\ Cardinality(InCycle) < limit
    /\ stage' = [stage EXCEPT ![a] = "starting"]
    /\ UNCHANGED <<log, next, rx, pausing, owed, used>>
    /\ agentFrame

\* Agent::cycle up to the assembly of its context.
CycleReads(a) ==
    /\ stage[a] = "starting"
    /\ stage' = [stage EXCEPT ![a] = "cycling"]
    /\ owed' = [owed EXCEPT ![a] = {}]
    /\ UNCHANGED <<log, next, rx, pausing, used>>
    /\ agentFrame

CycleEnd(a) ==
    /\ stage[a] = "cycling"
    /\ stage' = [stage EXCEPT ![a] = "listening"]
    /\ pausing' = [pausing EXCEPT ![a] = FALSE]
    /\ UNCHANGED <<log, next, rx, owed, used>>
    /\ agentFrame

\* run() says it is "Ready for your next message" and goes on; under a limit the error
\* ends the task.
CycleFails(a) ==
    /\ stage[a] = "cycling"
    /\ used.failures < MaxFailures
    /\ Use("failures")
    /\ \/ /\ Limited
          /\ End(a, "failed")
       \/ /\ ~Limited
          /\ stage' = [stage EXCEPT ![a] = "listening"]
          /\ pausing' = [pausing EXCEPT ![a] = TRUE]
          /\ UNCHANGED <<log, next, rx, owed>>
    /\ agentFrame

Panic(a) ==
    /\ stage[a] = "cycling"
    /\ used.failures < MaxFailures
    /\ Use("failures")
    /\ End(a, "panicked")
    /\ agentFrame

\* recv returns None once the queue is empty and the bus holds no sender.
Exit(a) ==
    /\ stage[a] = "listening"
    /\ rx[a] = <<>>
    /\ closed
    /\ End(a, "exited")
    /\ UNCHANGED used
    /\ agentFrame

-----------------------------------------------------------------------------
(* run_until_all_complete.                                                 *)

\* Slip: the others are left running.
Join_NoAbort(a) ==
    /\ a \notin reaped
    /\ stage[a] \in Ended
    /\ reaped' = reaped \cup {a}
    /\ UNCHANGED <<limit, log, next, closed, rx, agentVars, aborting, schedVars, used, shortened>>
Join(a) ==
    /\ a \notin reaped
    /\ stage[a] \in Ended
    /\ reaped' = reaped \cup {a}
    /\ aborting' = (aborting \/ stage[a] = "failed")
    /\ UNCHANGED <<limit, log, next, closed, rx, agentVars, schedVars, used, shortened>>

\* An aborted task goes at its next await; until then it may do some more.
Abort(a) ==
    /\ aborting
    /\ stage[a] \notin Ended
    /\ End(a, "aborted")
    /\ UNCHANGED used
    /\ agentFrame

-----------------------------------------------------------------------------
(* HeartbeatScheduler::run with skip_when_idle.                            *)

schedFrame == UNCHANGED <<limit, closed, stage, pausing, setVars>>

Activity(e) == e.kind \in {"user.message", "agent.message"}

\* A tick that finds nothing after the bookmark changes nothing.
Tick ==
    /\ sched = "ticking"
    /\ used.beats < MaxBeats
    /\ \E i \in bookmark + 1..Len(log) : Activity(log[i])
    /\ sched' = "active"
    /\ UNCHANGED <<log, next, owed, rx, bookmark, used, shortened, beat>>
    /\ schedFrame

Mark(from, to) ==
    /\ sched = from
    /\ sched' = to
    /\ bookmark' = Len(log)
    /\ shortened' = FALSE
    /\ UNCHANGED <<log, next, owed, rx, used, beat>>
    /\ schedFrame

Beat(from, to) ==
    /\ sched = from
    /\ sched' = to
    /\ Use("beats")
    /\ Publish("system.heartbeat", "anyone")
    /\ beat' = next
    /\ UNCHANGED <<bookmark, shortened>>
    /\ schedFrame

\* Slip: the bookmark is taken after the heartbeat.
Emit_BeatFirst == Beat("active", "marked") \/ Mark("marked", "ticking")
Emit == Mark("active", "marked") \/ Beat("marked", "ticking")

-----------------------------------------------------------------------------
Init ==
    /\ limit \in Limits
    /\ log = <<>>
    /\ next = 1
    /\ closed = FALSE
    /\ stage = [a \in Agents |-> "spawned"]
    /\ rx = [a \in Agents |-> <<>>]
    /\ pausing = [a \in Agents |-> FALSE]
    /\ aborting = FALSE
    /\ reaped = {}
    /\ sched = "ticking"
    /\ bookmark = 0
    /\ used = [inputs |-> 0, beats |-> 0, failures |-> 0, rollbacks |-> 0]
    /\ owed = [a \in Agents |-> {}]
    /\ beat = 0
    /\ shortened = FALSE

Step(a) ==
    \/ Subscribe(a) \/ CheckPending(a) \/ Take(a) \/ Acquire(a) \/ Exit(a)
    \/ CycleReads(a) \/ CycleEnd(a) \/ CycleFails(a) \/ Panic(a)
    \/ Abort(a) \/ Join(a)

Next ==
    \/ Input \/ Rollback \/ Close
    \/ \E a \in Agents : Step(a) \/ PauseOver(a)
    \/ Tick \/ Emit

\* The runtime polls every task that can go on, and a provider answers or fails in the
\* end (its requests have a timeout). Nothing is asked of the user or the clock.
Fairness == \A a \in Agents : WF_vars(Step(a))

Spec == Init /\ [][Next]_vars /\ Fairness

-----------------------------------------------------------------------------
(* Properties.                                                             *)

\* A message an agent is there to answer waits in its queue until a cycle has read it or is
\* about to, unless it came in the pause after an error: no order of subscribing, looking
\* at the log and publishing, and no wait for a permit, loses one (core.rs 147-149, 170-180).
\* An agent is there to answer what wakes it and is published after it subscribed; run()
\* also answers what the log held before, messages from agents aside.
NoWakeLost ==
    \A a \in Agents : stage[a] \notin {"subscribed", "acquiring", "starting"} =>
        owed[a] \subseteq {rx[a][i].id : i \in DOMAIN rx[a]}

\* Once the bus is closed, or an agent has failed under a limit, every task ends and
\* run_until_all_complete returns, whoever held the permits (multi.rs 111-135).
SetReturns == (closed \/ \E a \in Agents : stage[a] = "failed") ~> (reaped = Agents)

\* scheduler.rs 35-39: a tick is skipped when nothing happened since the previous heartbeat,
\* and only then: what lies below the bookmark was published before it.
ActivityIsHeard ==
    sched \in {"ticking", "active"} =>
        \A i \in 1..bookmark : i <= Len(log) /\ Activity(log[i]) => log[i].id < beat

\* So it is as long as no rollback moves the log under the bookmark: whatever comes between
\* the look at the log, the bookmark and the heartbeat, an agent that only a heartbeat
\* wakes hears of it (scheduler.rs 54-75).
NothingPassedOver == shortened \/ ActivityIsHeard

-----------------------------------------------------------------------------
(* What does not hold; no configuration checks it. See the README.         *)

\* core.rs 188 and 219 tell the user "Ready for your next message": a message the agent
\* takes off its queue and has not read yet then starts a cycle. In the pause it does not:
\* it is dropped.
NextMessageIsTaken ==
    [][\A a \in Agents :
         /\ rx[a] # <<>>
         /\ Head(rx[a]).id \in owed[a]
         /\ rx'[a] = Tail(rx[a])
         => stage'[a] # "listening"]_vars

=============================================================================
