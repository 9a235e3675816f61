----------------------------- MODULE AgentLoop -----------------------------
(***************************************************************************)
(* One cycle of the proposing agent: the loop of model calls and tool      *)
(* calls inside the worker (or in process), its step and time budgets, the *)
(* finalize guard that re-invokes an agent which stopped without a         *)
(* proposal, the hard kill of the worker, and what the host makes of the   *)
(* outbox and of the captured log once the loop is over.                   *)
(*                                                                         *)
(* The agent is arbitrary: it may write and remove files, submit several   *)
(* times, write the descriptor by hand, stop early or never.  Turns and    *)
(* telemetry leave the worker as log lines; capturing them is best effort. *)
(***************************************************************************)
EXTENDS Naturals, FiniteSets

CONSTANTS StepBudget,       \* effective_step_budget
          RecursionLimit,   \* the recursion limit asked for
          Headroom,         \* _RECURSION_HEADROOM
          SuperSteps,       \* framework super-steps of one model turn
          FinalizeRetries,  \* _FINALIZE_RETRIES
          ParseRetries,     \* _TOOL_PARSE_MAX_RETRIES
          HardTimeout,      \* the worker's timeout, in ticks of the clock
          WarnAt,           \* the tick at which the agent is told to finalize
          Declared          \* the object files the payload declares

ASSUME AgentAssumption ==
    /\ {StepBudget, RecursionLimit, Headroom, SuperSteps, FinalizeRetries, ParseRetries,
        HardTimeout, WarnAt} \subseteq Nat
    /\ StepBudget > 0 /\ SuperSteps <= Headroom /\ WarnAt <= HardTimeout

VARIABLES
    container,   \* does the loop run in a worker, or in process?
    stage,
    invocation,  \* 0 for the streamed run, then the guard's re-invocations
    steps,       \* StepBudgetMiddleware._steps
    attempts,    \* re-runs of this model call
    super,       \* super-steps of this invocation
    nudges,      \* the one-time messages the agent was given: "steps", "time"
    ticks, start,        \* the worker's clock, DeadlineMiddleware._start
    descriptor, files,   \* the outbox: the descriptor, "none" or of what worth, and files
    reason,      \* why the loop stopped, once it has: "clean", "budget",
                 \* "recursion", "crash"
    log,         \* what the worker logged: turns, the telemetry event
    made,        \* history: model steps made
    outcome      \* what the host reports of the cycle: the kind of its end, where
                 \* its telemetry comes from, whether the log was captured

budget == <<steps, attempts, super, nudges>>
time == <<ticks, start>>
outbox == <<descriptor, files>>
loopVars == <<container, stage, invocation, budget, time, outbox, reason, log, made, outcome>>

NoOutcome == [kind |-> "none", telemetry |-> "none", captured |-> TRUE]

(* The stages in which the worker is alive.                                *)
InWorker == {"running", "calling", "tool", "ended", "stopping", "leaving"}

-----------------------------------------------------------------------------
(* Budgets *)

(* effective_recursion_limit: never below the step budget's need.          *)
effective_recursion_limit ==
    LET floor == StepBudget * Headroom IN IF RecursionLimit > floor THEN RecursionLimit ELSE floor

(* StepBudgetMiddleware warns at 80% of its budget.                        *)
StepWarnAt == LET n == (8 * StepBudget) \div 10 IN IF n > 1 THEN n ELSE 1

(* before_model of the two middlewares: each nudge once per cycle, the     *)
(* time one only in a worker, which has a deadline.                        *)
Nudged == nudges
          \cup (IF steps' >= StepWarnAt THEN {"steps"} ELSE {})
          \cup (IF container /\ ticks - start >= WarnAt THEN {"time"} ELSE {})

(* emit_new: only the first invocation is streamed.  The messages of a     *)
(* re-invocation are logged once the guard has returned.                   *)
emit_new == log' = IF invocation = 0 THEN log \cup {"turns"} ELSE log

(* An exception of the loop.  In the streamed run a limit is a graceful    *)
(* end with its reason, and anything else a crash whose telemetry is       *)
(* logged first; in a re-invocation the guard swallows either and the      *)
(* outcome so far stands.                                                  *)
Raises(why) ==
    /\ stage' = IF invocation = 0 /\ why = "crash" THEN "crashed" ELSE "stopping"
    /\ reason' = IF invocation = 0 THEN why ELSE "clean"
    /\ log' = IF stage' = "crashed" THEN {"turns", "telemetry"} ELSE log

-----------------------------------------------------------------------------
LoopInit ==
    /\ container \in BOOLEAN
    /\ stage = "new" /\ invocation = 0 /\ steps = 0 /\ attempts = 0 /\ super = 0
    /\ ticks = 0 /\ start = 0 /\ nudges = {}
    /\ descriptor = "none" /\ files = {}
    /\ reason = "none" /\ log = {} /\ made = 0 /\ outcome = NoOutcome

(* container_entry.main, or the in-process driver, has built the agent.    *)
Launch ==
    /\ stage = "new"
    /\ stage' = "running"
    /\ UNCHANGED <<container, invocation, budget, time, outbox, reason, log, made, outcome>>

(* The worker cannot be started, or the agent cannot be built in process.  *)
LaunchFails ==
    /\ stage = "new"
    /\ stage' = "over"
    /\ outcome' = [NoOutcome EXCEPT !.kind = "launch",
                                    !.telemetry = IF container THEN "host" ELSE "none"]
    /\ UNCHANGED <<container, invocation, budget, time, outbox, reason, log, made>>

(* before_model: a model step is made if the step budget allows it and the *)
(* framework's own limit is not reached.                                   *)
BeforeModel ==
    /\ stage = "running"
    /\ steps' = steps + 1
    /\ IF steps' > StepBudget
       THEN Raises("budget") /\ UNCHANGED <<super, nudges, made>>
       ELSE IF super + SuperSteps > effective_recursion_limit
       THEN Raises("recursion") /\ UNCHANGED <<super, nudges, made>>
       ELSE /\ super' = super + SuperSteps /\ made' = made + 1
            /\ nudges' = Nudged
            /\ stage' = "calling" /\ emit_new
            /\ UNCHANGED reason
    /\ UNCHANGED <<container, invocation, attempts, time, outbox, outcome>>

(* The model answers, with a tool call or without: without one the loop    *)
(* ends.                                                                   *)
Answer(next) ==
    /\ stage = "calling"
    /\ stage' = next /\ attempts' = 0 /\ emit_new
    /\ UNCHANGED <<container, invocation, steps, super, nudges, time, outbox, reason, made, outcome>>

(* Mutant: a rejected tool call goes back to the agent, and the step is    *)
(* not counted against its budget.                                         *)
RefundsStep ==
    /\ stage = "calling"
    /\ stage' = "running" /\ steps' = steps - 1
    /\ UNCHANGED <<container, invocation, attempts, super, nudges, time, outbox, reason, log, made, outcome>>

(* ToolCallRecoveryMiddleware: the model server cannot parse the tool      *)
(* call, and the same step is re-run a bounded number of times.            *)
ParseRejected ==
    /\ stage = "calling"
    /\ IF attempts < ParseRetries
       THEN attempts' = attempts + 1 /\ UNCHANGED <<stage, reason, log>>
       ELSE attempts' = 0 /\ Raises("crash")
    /\ UNCHANGED <<container, invocation, steps, super, nudges, time, outbox, made, outcome>>

(* Any other error of the model or of a tool.                              *)
LoopError ==
    /\ stage \in {"calling", "tool"}
    /\ Raises("crash")
    /\ attempts' = 0
    /\ UNCHANGED <<container, invocation, steps, super, nudges, time, outbox, made, outcome>>

(* The propose tool refuses a payload whose declared files are missing,    *)
(* and otherwise replaces the descriptor.                                  *)
propose == /\ descriptor' = IF Declared \subseteq files THEN "recorded" ELSE descriptor
           /\ UNCHANGED files

(* What the agent does with its tools before the next model call.          *)
ToolCall ==
    /\ stage = "tool"
    /\ stage' = "running" /\ emit_new
    /\ \/ propose
       \/ \E f \in Declared : files' \in {files \cup {f}, files \ {f}} /\ UNCHANGED descriptor
       \/ descriptor' \in {"malformed", "unknown-op", "none"} /\ UNCHANGED files
    /\ UNCHANGED <<container, invocation, budget, time, reason, made, outcome>>

(* Mutant: every invocation has a step budget of its own, as it has a      *)
(* clock of its own.                                                       *)
StepsRestart == 0

(* before_agent restarts the soft clock and leaves the step count alone.   *)
StepsAtInvoke == steps

(* _finalize_guard: an agent that ended without a descriptor is invoked    *)
(* again, a bounded number of times.                                       *)
FinalizeGuard ==
    /\ stage = "ended"
    /\ IF descriptor # "none" \/ invocation = FinalizeRetries
       THEN stage' = "stopping" /\ reason' = "clean" /\ UNCHANGED <<invocation, steps, super, start>>
       ELSE /\ invocation' = invocation + 1
            /\ stage' = "running"
            /\ start' = ticks /\ super' = 0 /\ steps' = StepsAtInvoke
            /\ UNCHANGED reason
    /\ UNCHANGED <<container, attempts, nudges, ticks, outbox, log, made, outcome>>

(* The end of run_agent: the telemetry is logged, with its stop reason.    *)
LogTelemetry ==
    /\ stage = "stopping"
    /\ stage' = "leaving" /\ log' = {"turns", "telemetry"}
    /\ UNCHANGED <<container, invocation, budget, time, outbox, reason, made, outcome>>

Exit ==
    /\ stage = "leaving"
    /\ stage' = "exited"
    /\ UNCHANGED <<container, invocation, budget, time, outbox, reason, log, made, outcome>>

-----------------------------------------------------------------------------
(* The worker, seen from outside *)

Tick ==
    /\ stage \in InWorker /\ ticks < HardTimeout
    /\ ticks' = ticks + 1
    /\ UNCHANGED <<container, stage, invocation, budget, start, outbox, reason, log, made, outcome>>

(* The wall-clock kill.                                                    *)
HardKill ==
    /\ container /\ stage \in InWorker /\ ticks = HardTimeout
    /\ stage' = "killed"
    /\ UNCHANGED <<container, invocation, budget, time, outbox, reason, log, made, outcome>>

(* A death that is not the loop's own: out of memory, a failing entrypoint.*)
AbruptDeath ==
    /\ container /\ stage \in InWorker
    /\ stage' = "crashed"
    /\ UNCHANGED <<container, invocation, budget, time, outbox, reason, log, made, outcome>>

-----------------------------------------------------------------------------
(* The host *)

(* parse_log_events: what it reads of the log, nothing if capturing it     *)
(* failed.                                                                 *)
Parsed(captured) == IF captured THEN log ELSE {}

(* Mutant: only what the worker logged is reported.                        *)
WorkerOnly(captured) == IF "telemetry" \in Parsed(captured) THEN "worker" ELSE "none"

(* What explains an abnormal end: the worker's own event, else a record    *)
(* rebuilt from the turns, else one the host makes up.                     *)
synthesized(captured) ==
    IF "telemetry" \in Parsed(captured) THEN "worker"
    ELSE IF "turns" \in Parsed(captured) THEN "turns"
    ELSE "host"

(* BackendSandboxDriver.run once the worker is gone, whatever it left in   *)
(* the outbox; in process the exception carries its own diagnostics.       *)
WorkerFailed(captured) ==
    /\ stage \in {"killed", "crashed"}
    /\ container \/ captured
    /\ stage' = "over"
    /\ outcome' = [kind |-> IF stage = "killed" THEN "timeout" ELSE "crash",
                   telemetry |-> synthesized(captured), captured |-> captured]
    /\ UNCHANGED <<container, invocation, budget, time, outbox, reason, log, made>>

(* Valid JSON with an operation's name and a list of parents ...           *)
from_json(d) == d # "malformed"

(* ... and the operation is one of the schema.                             *)
mint(d) == d # "unknown-op"

KindOf(d) == IF d = "none" THEN "no-proposal"
             ELSE IF from_json(d) /\ mint(d) THEN "proposal" ELSE "malformed"

(* collect_proposal after a clean end: the harvest, the descriptor, the    *)
(* telemetry that came with it.                                            *)
collect_proposal(captured, harvestable) ==
    /\ stage = "exited"
    /\ stage' = "over"
    /\ outcome' =
         [kind |-> IF harvestable THEN KindOf(descriptor) ELSE "harvest",
          telemetry |-> IF harvestable /\ KindOf(descriptor) # "malformed" /\ "telemetry" \in Parsed(captured)
                        THEN "worker" ELSE "none",
          captured |-> captured]
    /\ UNCHANGED <<container, invocation, budget, time, outbox, reason, log, made>>

LoopNext ==
    \/ Launch \/ LaunchFails \/ BeforeModel \/ ParseRejected \/ LoopError \/ ToolCall
    \/ FinalizeGuard \/ LogTelemetry \/ Exit
    \/ Tick \/ HardKill \/ AbruptDeath
    \/ \E next \in {"tool", "ended"} : Answer(next)
    \/ \E captured \in BOOLEAN : WorkerFailed(captured)
    \/ \E captured, harvestable \in BOOLEAN : collect_proposal(captured, harvestable)

LoopSpec == LoopInit /\ [][LoopNext]_loopVars

-----------------------------------------------------------------------------
(* Properties *)

(* However often the guard re-invokes the agent, a cycle makes at most the *)
(* budgeted number of model steps, and it is the step budget that ends it, *)
(* after a warning: "the graceful model-step cap is always reached first", *)
(* before the framework's recursion limit.                                 *)
BudgetHolds ==
    /\ made <= StepBudget
    /\ reason # "recursion"
    /\ reason = "budget" => "steps" \in nudges

(* A cycle that failed says why: a kill, a crash or a launch that failed   *)
(* carries telemetry though the worker never logged any, and a clean end   *)
(* without a proposal carries the worker's own.  The exceptions are what   *)
(* the host could not read: a lost log, an unreadable outbox, a descriptor *)
(* written by hand.                                                        *)
FailureExplained ==
    /\ outcome.kind \in {"timeout", "crash"} => outcome.telemetry # "none"
    /\ outcome.kind = "launch" /\ container => outcome.telemetry # "none"
    /\ outcome.kind = "no-proposal" /\ outcome.captured => outcome.telemetry = "worker"

(* What a cycle has left to spend: the steps of its budget, each with its  *)
(* parse retries, the stages still ahead and the ticks of its clock.       *)
Rank == [new |-> 7, calling |-> 6, tool |-> 5, ended |-> 5, running |-> 4, stopping |-> 3,
         leaving |-> 2, exited |-> 1, killed |-> 1, crashed |-> 1, over |-> 0]
RetriesLeft == IF stage = "calling" THEN ParseRetries - attempts ELSE 0
Fuel == (StepBudget + 1 - steps) * (ParseRetries + 3) + Rank[stage] + RetriesLeft + (HardTimeout - ticks)

(* A cycle is finite, whatever the agent does: every model call, tool      *)
(* call, re-run and re-invocation, in a worker or in process, spends of an *)
(* amount the budgets fix at the start.  No agent is kept alive by the     *)
(* guard that re-invokes it or by tool calls that cannot be parsed.        *)
(* (StepBudgetMiddleware, ToolCallRecoveryMiddleware, _finalize_guard)     *)
CycleIsFinite == [][Fuel' \in Nat /\ Fuel' < Fuel]_loopVars

=============================================================================
