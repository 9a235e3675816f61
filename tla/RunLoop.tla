------------------------------ MODULE RunLoop ------------------------------
(***************************************************************************)
(* The orchestration loop of ControlPlane.run and run_cycle: provision the *)
(* verifier, then cycles of serve, collect, intake, gate and regenerate,   *)
(* each recorded in the task's history, until the policy stops the run.    *)
(*                                                                         *)
(* The commit path is opaque here (CommitPath models it): a gated proposal *)
(* is judged, accepted, or the handoff raises. What this module is about   *)
(* is which of those failures the loop turns into a recorded failed cycle, *)
(* what the history then says compared with what the store holds, and      *)
(* which workspace the next cycle starts from.                             *)
(***************************************************************************)
EXTENDS Naturals, Sequences, FiniteSets

CONSTANTS MaxCycles,     \* OrchestrationPolicy.max_cycles
          FailureCap,    \* max_consecutive_sandbox_failures (0: no cap)
          StopOnAccept,  \* stop_on_accept
          Faults,        \* which boundaries may fail, out of FaultKind
          MaxRuns        \* bound on the runs of the resident task

FaultKind == {"sqlite",      \* a raw sqlite error from a store read or write
              "workspace",   \* regenerate: the directory cannot be removed or written
              "misuse"}      \* CommitError and the like, VerifierError

ASSUME RunLoopAssumption ==
    /\ MaxCycles \in Nat /\ FailureCap \in Nat /\ MaxRuns \in Nat
    /\ StopOnAccept \in BOOLEAN
    /\ Faults \subseteq FaultKind

VARIABLES
    phase,        \* what the run is doing
    runs,         \* runs started
    cycle,        \* run_context.cycle: cycles begun
    cycles,       \* local of run: cycles completed
    failures,     \* local of run: consecutive failed cycles
    result,       \* the IntakeResult of the cycle in progress
    truth,        \* how far its proposal got in the store
    envelope,     \* which cycle's agent wrote the collected proposal
    outbox,       \* the descriptor in the workspace's outbox
    history,      \* TaskState.history
    start,        \* Len(history) when the run started
    failureRows,  \* rows of the cycle_failures table, committed
    pendingRows,  \* ... and those still pending on the connection, as is, of the
    pendingTruth, \* cycle in progress, how far its proposal then would have got
    unsure,       \* failure rows whose commit raised, so far
    records,      \* the run record store: the report of each run, or NoReport
    outcome       \* how the latest run ended

counters == <<runs, cycle, cycles, failures, start>>
cycleVars == <<result, truth, envelope>>
db == <<failureRows, pendingRows, pendingTruth, unsure>>
vars == <<phase, counters, cycleVars, outbox, history, db, records, outcome>>

-----------------------------------------------------------------------------
(* Types *)

Phase == {"idle", "provision", "loop", "serve", "collect", "intake", "gate",
          "harvest", "regenerate", "record", "caught", "recordCaught", "decide",
          "teardown"}

\* "judged" is any commit other than an acceptance.
Result == {"none", "shape", "sandbox", "gate", "judged", "accepted"}
Truth == {"nothing", "proposed", "judged", "accepted"}

\* Written by this cycle's agent, left over from an earlier cycle, or absent.
Descriptor == {"none", "own", "stale"}

\* A CycleInput, with what the cycle really did beside what it reports.
Entry == [result : Result, truth : Truth, envelope : Descriptor]

NoReport == [status |-> "none"]

\* result.sandbox_error or result.gate_error
failure(r) == r \in {"sandbox", "gate"}

\* Mutant: a malformed proposal is not a durable failure.
BoundaryFailure(r) == r \in {"sandbox", "gate"}

failure_of(r) == r \in {"sandbox", "gate", "shape"}

should_continue == cycles < MaxCycles

-----------------------------------------------------------------------------
(* The end of the outermost _tx, with n failure rows in it.  All transactions  *)
(* are made on one connection.                                                 *)

NothingPending == pendingRows' = 0 /\ pendingTruth' = "nothing"

\* commit() returns: what earlier ones left pending is committed too.
commit(n) ==
    /\ failureRows' = failureRows + pendingRows + n
    /\ NothingPending
    /\ UNCHANGED unsure

\* A statement raises: all that is pending is rolled back.
rollback ==
    /\ NothingPending
    /\ UNCHANGED <<failureRows, unsure>>

\* commit() itself raises, and nobody rolls back. Unless sqlite has done so,
\* the rows stay pending, with t as what they make of the proposal.
commit_raises(n, t) ==
    /\ "sqlite" \in Faults
    /\ NothingPending \/ (pendingRows' = pendingRows + n /\ pendingTruth' = t)
    /\ unsure' = unsure + n
    /\ UNCHANGED failureRows

-----------------------------------------------------------------------------
(* Run start *)

Init ==
    /\ phase = "idle" /\ runs = 0 /\ cycle = 0 /\ cycles = 0 /\ failures = 0
    /\ result = "none" /\ truth = "nothing" /\ envelope = "none"
    /\ outbox = "none"
    /\ history = << >> /\ start = 0
    /\ failureRows = 0 /\ pendingRows = 0 /\ pendingTruth = "nothing" /\ unsure = 0
    /\ records = [r \in 1 .. MaxRuns |-> NoReport]
    /\ outcome = "none"

\* A run of the resident task starts; its counters are locals of run. (Of a
\* cycle that is in no history, only the pending failure rows are followed on.)
StartRun ==
    /\ phase = "idle"
    /\ runs < MaxRuns
    /\ runs' = runs + 1
    /\ cycle' = 0
    /\ cycles' = 0
    /\ failures' = 0
    /\ start' = Len(history)
    /\ outcome' = "running"
    /\ phase' = "provision"
    /\ pendingTruth' = "nothing"
    /\ UNCHANGED <<history, failureRows, pendingRows, unsure, records, cycleVars, outbox>>

\* The verifier is launched, healthy and set up (its worker is Workers').
Provision ==
    /\ phase = "provision"
    /\ phase' = "loop"
    /\ UNCHANGED <<counters, history, db, records, cycleVars, outbox, outcome>>

\* provision raises: the launch, the health poll or the setup failed.
ProvisionFails ==
    /\ phase = "provision"
    /\ outcome' = "raised"
    /\ phase' = "teardown"
    /\ UNCHANGED <<counters, history, db, records, cycleVars, outbox>>

BeginCycle ==
    /\ phase = "loop"
    /\ should_continue
    /\ result' = "none" /\ truth' = "nothing" /\ envelope' = "none"
    /\ outbox' = IF outbox = "own" THEN "stale" ELSE outbox
    /\ cycle' = cycle + 1
    /\ phase' = "serve"
    /\ UNCHANGED <<history, db, records, runs, cycles, failures, start, outcome>>

-----------------------------------------------------------------------------
(* One cycle *)

\* What a step inside a cycle leaves alone.
InCycle == UNCHANGED <<counters, history, records, outcome>>

\* An exception neither inner handler names reaches the final catch-all.
Raise == phase' = "caught" /\ UNCHANGED result

ServeContext ==
    /\ phase = "serve"
    /\ phase' = "collect"
    /\ InCycle /\ UNCHANGED <<cycleVars, outbox, db>>

\* Assembling the context or writing the workspace objects raises.
ServeFails ==
    /\ phase = "serve"
    /\ Raise
    /\ InCycle /\ UNCHANGED <<truth, envelope, outbox, db>>

\* The driver returns and the outbox holds a descriptor, this cycle's agent's
\* or, when it wrote none, whatever was there before.
CollectProposal ==
    /\ phase = "collect"
    /\ outbox' \in {outbox, "own"} \ {"none"}
    /\ envelope' = outbox'
    /\ phase' = "intake"
    /\ InCycle /\ UNCHANGED <<result, truth, db>>

\* SandboxError: the driver failed or hit its wall clock, perhaps after the
\* descriptor was written, or there is no descriptor at all.
CollectFails ==
    /\ phase = "collect"
    /\ outbox' \in {outbox, "own"}
    /\ result' = "sandbox"
    /\ phase' = "regenerate"
    /\ InCycle /\ UNCHANGED <<truth, envelope, db>>

\* The driver raises something else, which no inner handler names.
CollectRaises ==
    /\ phase = "collect"
    /\ outbox' \in {outbox, "own"}
    /\ Raise
    /\ InCycle /\ UNCHANGED <<truth, envelope, db>>

\* A malformed proposal is corrected and records nothing.
ShapeError ==
    /\ phase = "intake"
    /\ result' = "shape"
    /\ phase' = "regenerate"
    /\ InCycle /\ UNCHANGED <<truth, envelope, outbox, db>>

\* Objects stored and the row proposed.
Propose ==
    /\ phase = "intake"
    /\ commit(0)
    /\ truth' = "proposed"
    /\ phase' = "gate"
    /\ InCycle /\ UNCHANGED <<result, envelope, outbox>>

\* put_object raises, or propose does, in a statement or in its commit.
ProposeFails ==
    /\ phase = "intake"
    /\ UNCHANGED db \/ rollback \/ commit_raises(0, "proposed")
    /\ Raise
    /\ InCycle /\ UNCHANGED <<truth, envelope, outbox>>

\* A verdict is recorded that is no acceptance: rejected, revised, tentative.
Judged ==
    /\ phase = "gate"
    /\ commit(0)
    /\ truth' = "judged"
    /\ result' = "judged"
    /\ phase' = "regenerate"
    /\ InCycle /\ UNCHANGED <<envelope, outbox>>

Accepted ==
    /\ phase = "gate"
    /\ commit(0)
    /\ truth' = "accepted"
    /\ result' = "accepted"
    /\ phase' = "harvest"
    /\ InCycle /\ UNCHANGED <<envelope, outbox>>

\* Mutant: the handoff is waited for without a bound.
WaitForAnswer == FALSE

\* The gate is unavailable, or the handoff outlives dispatch_timeout_s.
GateUnavailable ==
    /\ phase = "gate"
    /\ result' = "gate"
    /\ phase' = "regenerate"
    /\ InCycle /\ UNCHANGED <<truth, envelope, outbox, db>>

\* Mutant: an error of the commit is taken for a commit.
CommitSwallowed ==
    /\ phase = "gate"
    /\ commit_raises(0, "accepted")
    /\ result' = "accepted"
    /\ phase' = "harvest"
    /\ InCycle /\ UNCHANGED <<truth, envelope, outbox>>

\* The commit path raises anything else: before or inside its transaction,
\* which is rolled back, or from the commit of a bundle that is then in doubt.
CommitRaises ==
    /\ phase = "gate"
    /\ \/ Faults \cap {"misuse", "sqlite"} # {} /\ rollback
       \/ \E t \in {"judged", "accepted"} : commit_raises(0, t)
    /\ Raise
    /\ InCycle /\ UNCHANGED <<truth, envelope, outbox>>

\* Mutant: a child's failure propagates out of submit_proposal.
ChildFailurePropagates ==
    /\ phase = "harvest"
    /\ Raise
    /\ InCycle /\ UNCHANGED <<truth, envelope, outbox, db>>

\* The children are harvested; if one fails, that is logged and the accepted
\* parent's result kept. (Rows of children are not followed.)
HarvestChildren ==
    /\ phase = "harvest"
    /\ phase' = "regenerate"
    /\ InCycle /\ UNCHANGED <<cycleVars, outbox, db>>

\* Mutant: the workspace is kept for the next cycle.
KeepWorkspace == UNCHANGED outbox

\* AgentSandbox.regenerate: the workspace is discarded and provisioned empty.
regenerate == outbox' = "none"

\* It raises while removing the directory or provisioning the new one.
regenerate_fails == "workspace" \in Faults /\ outbox' \in {outbox, "none"}

Regenerate ==
    /\ phase = "regenerate"
    /\ regenerate
    /\ phase' = "record"
    /\ InCycle /\ UNCHANGED <<cycleVars, db>>

RegenerateFails ==
    /\ phase = "regenerate"
    /\ regenerate_fails
    /\ Raise
    /\ InCycle /\ UNCHANGED <<truth, envelope, db>>

\* Mutant: the catch-all swallows the exception without recording the cycle.
SwallowFailure ==
    /\ phase = "caught"
    /\ regenerate \/ regenerate_fails
    /\ result' = "sandbox"
    /\ phase' = "decide"
    /\ InCycle /\ UNCHANGED <<truth, envelope, db>>

\* The catch-all: regenerate as best it can, then the cycle is a sandbox failure.
HandleFailure ==
    /\ phase = "caught"
    /\ regenerate \/ regenerate_fails
    /\ result' = "sandbox"
    /\ phase' = "recordCaught"
    /\ InCycle /\ UNCHANGED <<truth, envelope, db>>

-----------------------------------------------------------------------------
(* Recording the cycle, and the decision to go on *)

\* What the store holds of this cycle's proposal once all is committed.
Published == IF pendingTruth = "nothing" THEN truth ELSE pendingTruth

ThisCycle ==
    [result |-> result, envelope |-> envelope,
     truth |-> IF failure_of(result) THEN Published ELSE truth]

\* A durable row for a failed cycle, then the history entry.
record_cycle ==
    /\ IF failure_of(result) THEN commit(1) ELSE UNCHANGED db
    /\ truth' = ThisCycle.truth
    /\ history' = Append(history, ThisCycle)

RecordCycle ==
    /\ phase \in {"record", "recordCaught"}
    /\ record_cycle
    /\ phase' = "decide"
    /\ UNCHANGED <<counters, records, result, envelope, outbox, outcome>>

\* Mutant: the catch-all guards its own recording too.
CatchesAgain ==
    /\ phase \in {"record", "recordCaught"}
    /\ failure_of(result)
    /\ ("sqlite" \in Faults /\ rollback) \/ commit_raises(1, pendingTruth)
    /\ phase' = "caught"
    /\ UNCHANGED <<counters, history, records, cycleVars, outbox, outcome>>

\* Inserting the failure row raises, or its commit does. In the body of the
\* cycle the catch-all takes over, and will insert another; in the catch-all
\* itself the exception leaves run_cycle and run.
RecordFails ==
    /\ phase \in {"record", "recordCaught"}
    /\ failure_of(result)
    /\ ("sqlite" \in Faults /\ rollback) \/ commit_raises(1, pendingTruth)
    /\ phase' = IF phase = "record" THEN "caught" ELSE "teardown"
    /\ outcome' = IF phase = "record" THEN outcome ELSE "raised"
    /\ UNCHANGED <<counters, history, records, cycleVars, outbox>>

\* Mutant: the counter survives a cycle that was evaluated.
NeverReset == IF failure(result) THEN failures + 1 ELSE failures

consecutive_failures == IF failure(result) THEN failures + 1 ELSE 0

cap_reached == FailureCap > 0 /\ failure(result) /\ consecutive_failures >= FailureCap

Stops == StopOnAccept /\ result = "accepted"

\* The last allowed failure in a row, or an acceptance the policy stops at.
Ends == cap_reached \/ Stops

CountCycle ==
    /\ phase = "decide"
    /\ cycles' = cycles + 1
    /\ failures' = consecutive_failures
    /\ UNCHANGED <<history, db, runs, cycle, cycleVars, outbox, start>>

\* The cycles of the whole history tallied by their outcome, those of the
\* task's earlier runs included.
summary ==
    [cycles_run |-> Len(history),
     outcomes   |-> [r \in Result |-> Cardinality({i \in DOMAIN history : history[i].result = r})]]

build_run_report(status) == [status |-> status, summary |-> summary]

\* _record_run: the report of the run is stored under its run id.
record_run(status) ==
    /\ records' = [records EXCEPT ![runs] = build_run_report(status)]
    /\ outcome' = status
    /\ phase' = "teardown"

Continue ==
    /\ CountCycle
    /\ ~Ends
    /\ phase' = "loop"
    /\ UNCHANGED <<records, outcome>>

\* The run is recorded "aborted", and raises.
Abort ==
    /\ CountCycle
    /\ cap_reached
    /\ record_run("aborted")

StopAccepted ==
    /\ CountCycle
    /\ Stops
    /\ record_run("complete")

Complete ==
    /\ phase = "loop"
    /\ ~should_continue
    /\ record_run("complete")
    /\ UNCHANGED <<counters, history, db, cycleVars, outbox>>

\* Building the RunRecord reads the store, which may raise.
RecordRunFails ==
    /\ "sqlite" \in Faults
    /\ \/ CountCycle /\ Ends
       \/ /\ phase = "loop" /\ ~should_continue
          /\ UNCHANGED <<counters, history, db, cycleVars, outbox>>
    /\ outcome' = "raised"
    /\ phase' = "teardown"
    /\ UNCHANGED records

\* The finally of run: the verifier is torn down; a failure is swallowed.
Teardown ==
    /\ phase = "teardown"
    /\ phase' = "idle"
    /\ UNCHANGED <<counters, history, db, records, cycleVars, outbox, outcome>>

\* Verdicts come from outside: nothing obliges the gate to answer.
GateAnswers == Judged \/ Accepted \/ CommitRaises

Step ==
    \/ Provision \/ ProvisionFails \/ BeginCycle
    \/ ServeContext \/ ServeFails
    \/ CollectProposal \/ CollectFails \/ CollectRaises
    \/ ShapeError \/ Propose \/ ProposeFails
    \/ GateUnavailable \/ HarvestChildren
    \/ Regenerate \/ RegenerateFails \/ HandleFailure
    \/ RecordCycle \/ RecordFails
    \/ Continue \/ Abort \/ StopAccepted \/ Complete \/ RecordRunFails
    \/ Teardown

\* All runs done: the resident task may stay idle for ever.
Rest == phase = "idle" /\ runs = MaxRuns /\ UNCHANGED vars

Next == StartRun \/ GateAnswers \/ Step \/ Rest

\* The loop keeps going; GateUnavailable stands for the dispatch timeout, so a
\* gate that never answers is not waited for.
Fairness == WF_vars(Step)

Spec == Init /\ [][Next]_vars /\ Fairness

-----------------------------------------------------------------------------
(* Properties *)

ThisRun == (start + 1) .. Len(history)

\* A cycle that began is in the history when the run ends: never an unrecorded
\* abort (the catch-all of run_cycle). And the record a run leaves accounts for
\* each of them under one outcome, after those of the task's earlier runs.
EveryCycleRecorded ==
    phase = "teardown" =>
        /\ Len(history) = start + cycle
        /\ records[runs] # NoReport =>
               LET s == records[runs].summary
                   o == s.outcomes
               IN  /\ s.cycles_run = start + cycle
                   /\ s.cycles_run = o["shape"] + o["sandbox"] + o["gate"] + o["judged"] + o["accepted"]

\* Whatever raises, and however often recording a cycle is attempted (run_cycle's
\* body and its catch-all both try): each cycle the run counted has one history
\* entry, and each failed one a committed row. There are no rows beside them but
\* those whose commit raised: these may be committed later, with the row of the
\* second attempt or in another run, and then a cycle has two rows, or a cycle
\* that is in no history has one. (_record_cycle, _tx)
FailuresDurable ==
    /\ phase = "loop" => Len(history) = start + cycles
    /\ LET failed == {i \in DOMAIN history : history[i].result \notin {"judged", "accepted"}}
       IN  /\ Cardinality(failed) <= failureRows
           /\ failureRows + pendingRows <= Cardinality(failed) + unsure

\* Whatever raises, nothing is claimed that the store does not hold: a verdict
\* in the history was committed, and a run record counts no more accepted
\* cycles than are. (The converse is ReportMatchesStore.)
ClaimsHold ==
    /\ \A i \in DOMAIN history : history[i].result \in {"judged", "accepted"} =>
           history[i].truth = history[i].result
    /\ \A r \in DOMAIN records : records[r] # NoReport =>
           LET s == records[r].summary
           IN  s.outcomes["accepted"] <=
                   Cardinality({i \in 1 .. s.cycles_run : history[i].truth = "accepted"})

\* The history says accepted exactly when the store does: a failure after the
\* commit (a child's harvest) never rewrites the outcome of its cycle, so a
\* run record claims as many accepted cycles as the store then held. (Not when
\* a commit raises and is published with the failure row of its cycle, nor
\* when the workspace cannot be discarded after the commit.)
ReportMatchesStore ==
    /\ \A i \in DOMAIN history : history[i].result = "accepted" <=> history[i].truth = "accepted"
    /\ \A r \in DOMAIN records : records[r] # NoReport =>
           LET s == records[r].summary
           IN  s.outcomes["accepted"] =
                   Cardinality({i \in 1 .. s.cycles_run : history[i].truth = "accepted"})

\* FailureCap failed cycles in a row of this run.
FailedRow ==
    \E i \in ThisRun :
        /\ i + FailureCap <= Len(history) + 1
        /\ \A j \in i .. i + FailureCap - 1 : failure(history[j].result)

\* A run is aborted only on FailureCap failed cycles in a row of this run, and
\* while it goes on there is no such row.
AbortsAtCap ==
    FailureCap > 0 =>
        /\ outcome = "aborted" => FailedRow
        /\ phase = "loop" => ~FailedRow

\* A proposal that reached the store was written by the agent of that cycle:
\* nothing left in the workspace by an earlier cycle is ever proposed.
FreshProposal ==
    \A i \in DOMAIN history : history[i].truth # "nothing" => history[i].envelope = "own"

\* A run that started ends, even if the gate never answers.
RunEnds == (outcome = "running") ~> (outcome # "running" /\ phase = "idle")

\* What a run has left: its cycles, and the phases still ahead in this one.
Rank == [idle |-> 0, teardown |-> 1, decide |-> 2, recordCaught |-> 3, caught |-> 4, record |-> 5,
         regenerate |-> 6, harvest |-> 7, gate |-> 8, intake |-> 9, collect |-> 10, serve |-> 11,
         loop |-> 12, provision |-> 13]
Fuel == (MaxCycles - cycles) * 11 + Rank[phase]

\* A run is finite whatever fails in it, also while a failure is handled: each
\* step, of the cycle's body, of the catch-all or of recording, uses up some
\* of what max_cycles fixed at its start; nothing is tried again in place.
\* (run, run_cycle, _record_cycle)
RunIsFinite == [][phase # "idle" => Fuel' \in Nat /\ Fuel' < Fuel]_vars
==============================================================================
