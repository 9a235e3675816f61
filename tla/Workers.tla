------------------------------ MODULE Workers ------------------------------
(***************************************************************************)
(* The isolated containers of the harness: the verifier service a run      *)
(* launches, the sandbox worker of each cycle and the code-runner worker   *)
(* of each gate, which the control plane starts itself or the launched     *)
(* verifier starts as a sibling through the docker socket.                 *)
(*                                                                         *)
(* Three parties act on them without a lock: whoever launched a worker and *)
(* waits for it under a timeout, the out-of-band reaper, which lists       *)
(* containers by label and destroys them one by one, and the containers    *)
(* themselves.  A launcher that dies takes its wait, and so the timeout,   *)
(* with it; docker's kill and rm may fail, and both failures are           *)
(* suppressed.                                                             *)
(***************************************************************************)
EXTENDS Naturals, FiniteSets

CONSTANTS MaxContainers,   \* bound: containers ever started
          MaxRuns,         \* bound: runs of the control plane
          MaxFaults,       \* bound: faults that happen
          MaxSweeps        \* bound: times the reaper is started

ASSUME WorkersAssumption == {MaxContainers, MaxRuns, MaxFaults, MaxSweeps} \subseteq Nat

Ids == 1 .. MaxContainers
Runs == 1 .. MaxRuns

VARIABLES
    remote,    \* is the verifier a launched service, or in process?
    phase,     \* where the control plane stands
    run,       \* the number of its current or last run
    verifier,  \* the verifier container it holds a handle of, 0 if none
    worker,    \* the container whose result it needs next, 0 if none
    box,       \* the containers, by id
    sweep,     \* what the reaper was asked for, and what it has yet to destroy
    sweeps,
    reaped,    \* history: containers destroyed by the reaper, with its request
    accepted,  \* history: code-runners whose run an accept rests on
    faults

control == <<phase, run, verifier, worker>>
vars == <<remote, control, box, sweep, sweeps, reaped, accepted, faults>>

Unused == [role |-> "none", of |-> 0, stamped |-> 0, by |-> 0, state |-> "none",
           exit |-> "none", wait |-> "none", result |-> "none"]
NoSweep == [asked |-> "off", scope |-> 0, todo |-> {}]

-----------------------------------------------------------------------------
(* Containers and labels *)

Running(i) == i # 0 /\ box[i].state = "running"
Fresh(i) == box[i].role = "none" /\ \A j \in 1 .. i - 1 : box[j].role # "none"

(* Who waits for a worker: the control plane, or a verifier container.     *)
Launcher == IF remote THEN verifier ELSE 0

(* The run label: the control plane binds its run context to its sandbox   *)
(* driver and to an in-process verifier; a launched verifier, and the      *)
(* code-runners it starts, carry the role and the configuration only.      *)
SandboxLabels ==
    [Unused EXCEPT !.role = "sandbox", !.of = run, !.stamped = run, !.state = "running",
                   !.wait = "waiting"]
RunnerLabels ==
    [Unused EXCEPT !.role = "code-runner", !.of = run, !.stamped = IF remote THEN 0 ELSE run,
                   !.by = Launcher, !.state = "running", !.wait = "waiting"]

ServiceLabels(r) ==
    [Unused EXCEPT !.role = "verifier", !.of = r, !.state = "running"]

(* run_to_completion's docker run, attached, and launch's, detached: the   *)
(* labels of the spec are stamped on the container.                        *)
docker_run(i, spec) == box' = [box EXCEPT ![i] = spec]
launch(i, spec) == box' = [box EXCEPT ![i] = spec]

(* Labels.matches against build_selector: the harness label is always      *)
(* asked for, the run only when one is given.                              *)
matches(i, scope) == box[i].role # "foreign" /\ (scope # 0 => box[i].stamped = scope)

(* The container stops.  What it was itself waiting for, as the verifier   *)
(* that launched code-runners, loses its waiter.                           *)
Stops(b, i, exit) ==
    [j \in Ids |->
        IF j = i THEN [b[j] EXCEPT !.state = "gone", !.exit = exit]
        ELSE IF b[j].by = i /\ b[j].wait \in {"waiting", "killing"}
             THEN [b[j] EXCEPT !.wait = "lost"] ELSE b[j]]

-----------------------------------------------------------------------------
(* The control plane's runs *)

Init ==
    /\ remote \in BOOLEAN
    /\ phase = "idle" /\ run = 0 /\ verifier = 0 /\ worker = 0
    /\ box \in {[i \in Ids |-> Unused],
                [i \in Ids |-> IF i = 1 THEN [Unused EXCEPT !.role = "foreign", !.state = "running"]
                                        ELSE Unused]}
    /\ sweep = NoSweep /\ sweeps = 0 /\ reaped = {} /\ accepted = {} /\ faults = 0

(* A run begins; a launched verifier is a detached service container.      *)
StartRun(i) ==
    /\ phase = "idle" /\ run < MaxRuns /\ Fresh(i)
    /\ run' = run + 1
    /\ IF remote
       THEN /\ phase' = "booting" /\ verifier' = i
            /\ launch(i, ServiceLabels(run + 1))
       ELSE phase' = "ready" /\ UNCHANGED <<verifier, box>>
    /\ UNCHANGED <<remote, worker, sweep, sweeps, reaped, accepted, faults>>

(* _await_verifier_ready answers, or gives up: then the handle is dropped  *)
(* with the exception and nobody destroys the container.                   *)
HealthOk ==
    /\ phase = "booting" /\ Running(verifier)
    /\ phase' = "ready"
    /\ UNCHANGED <<remote, run, verifier, worker, box, sweep, sweeps, reaped, accepted, faults>>

HealthFails ==
    /\ phase = "booting"
    /\ Running(verifier) => faults < MaxFaults
    /\ faults' = IF Running(verifier) THEN faults + 1 ELSE faults
    /\ phase' = "idle" /\ verifier' = 0
    /\ UNCHANGED <<remote, run, worker, box, sweep, sweeps, reaped, accepted>>

(* A cycle: the sandbox worker first.                                      *)
LaunchSandbox(i) ==
    /\ phase = "ready" /\ Fresh(i)
    /\ phase' = "sandbox" /\ worker' = i
    /\ docker_run(i, SandboxLabels)
    /\ UNCHANGED <<remote, run, verifier, sweep, sweeps, reaped, accepted, faults>>

(* Its bridged outbox holds a proposal only after a clean exit; anything   *)
(* else fails the cycle.                                                   *)
SandboxReturns ==
    /\ phase = "sandbox" /\ box[worker].wait = "returned"
    /\ phase' \in (IF box[worker].result = "ok" THEN {"gating", "ready"} ELSE {"ready"})
    /\ worker' = 0
    /\ UNCHANGED <<remote, run, verifier, box, sweep, sweeps, reaped, accepted, faults>>

(* The gate runs the submission; a code-runner that cannot be started or   *)
(* a verifier that is gone makes the gate unavailable.                     *)
LaunchRunner(i) ==
    /\ phase = "gating" /\ worker = 0 /\ Fresh(i)
    /\ remote => Running(verifier)
    /\ worker' = i
    /\ docker_run(i, RunnerLabels)
    /\ UNCHANGED <<remote, phase, run, verifier, sweep, sweeps, reaped, accepted, faults>>

RunnerUnavailable ==
    /\ phase = "gating"
    /\ worker = 0 \/ (remote /\ ~Running(verifier))
    /\ phase' = "ready" /\ worker' = 0
    /\ UNCHANGED <<remote, run, verifier, box, sweep, sweeps, reaped, accepted, faults>>

(* Mutant: the gate looks at the output file and not at the exit.          *)
AnyOutput(i) == box[i].result # "timeout"

(* runnable: a run that timed out or exited with an error is rejected.     *)
RunsClean(i) == box[i].result = "ok"

Verdict ==
    /\ phase = "gating" /\ worker # 0 /\ box[worker].wait = "returned"
    /\ accepted' \in {accepted} \cup
                     (IF RunsClean(worker) THEN {accepted \cup {worker}} ELSE {})
    /\ phase' = "ready" /\ worker' = 0
    /\ UNCHANGED <<remote, run, verifier, box, sweep, sweeps, reaped, faults>>

(* The transport gives up on the gate; the verifier goes on waiting.       *)
Abandon ==
    /\ phase = "gating" /\ remote /\ worker # 0 /\ faults < MaxFaults
    /\ faults' = faults + 1
    /\ phase' = "ready" /\ worker' = 0
    /\ UNCHANGED <<remote, run, verifier, box, sweep, sweeps, reaped, accepted>>

(* Mutant: the handle is dropped at the end of the run.                    *)
ForgetsVerifier == box' = box /\ faults' = faults

(* destroy: the failure of docker rm is suppressed.                        *)
DestroyVerifier ==
    \/ /\ box' = IF Running(verifier) THEN Stops(box, verifier, "killed") ELSE box
       /\ UNCHANGED faults
    \/ /\ Running(verifier) /\ faults < MaxFaults
       /\ faults' = faults + 1 /\ UNCHANGED box

(* The run ends: teardown destroys the verifier it launched.               *)
EndRun ==
    /\ phase = "ready"
    /\ phase' = "idle" /\ verifier' = 0
    /\ DestroyVerifier
    /\ UNCHANGED <<remote, run, worker, sweep, sweeps, reaped, accepted>>

(* The control plane dies, and its waits with it; the containers live on.  *)
Crash ==
    /\ phase # "down" /\ faults < MaxFaults
    /\ faults' = faults + 1
    /\ phase' = "down" /\ verifier' = 0 /\ worker' = 0
    /\ box' = [i \in Ids |-> IF box[i].by = 0 /\ box[i].wait \in {"waiting", "killing"}
                             THEN [box[i] EXCEPT !.wait = "lost"] ELSE box[i]]
    /\ UNCHANGED <<remote, run, sweep, sweeps, reaped, accepted>>

Restart ==
    /\ phase = "down"
    /\ phase' = "idle"
    /\ UNCHANGED <<remote, run, verifier, worker, box, sweep, sweeps, reaped, accepted, faults>>

-----------------------------------------------------------------------------
(* run_to_completion *)

(* The container ends by itself; a service does so only by a fault.        *)
Exits(i, exit) ==
    /\ Running(i) /\ box[i].role \in {"sandbox", "code-runner"}
    /\ box' = Stops(box, i, exit)
    /\ UNCHANGED <<remote, control, sweep, sweeps, reaped, accepted, faults>>

VerifierDies(i) ==
    /\ Running(i) /\ box[i].role = "verifier" /\ faults < MaxFaults
    /\ faults' = faults + 1
    /\ box' = Stops(box, i, "nonzero")
    /\ UNCHANGED <<remote, control, sweep, sweeps, reaped, accepted>>

(* What the waiter reports; the staging directory goes with its wait.      *)
Returned(i, result) == [box EXCEPT ![i].wait = "returned", ![i].result = result]

(* docker run came back with the container's exit code.                    *)
Completes(i) ==
    /\ box[i].wait = "waiting" /\ box[i].state = "gone"
    /\ box' = Returned(i, IF box[i].exit = "zero" THEN "ok" ELSE "failed")
    /\ UNCHANGED <<remote, control, sweep, sweeps, reaped, accepted, faults>>

(* The wall clock runs out, perhaps as the container exits.                *)
TimesOut(i) ==
    /\ box[i].wait = "waiting"
    /\ box' = [box EXCEPT ![i].wait = "killing"]
    /\ UNCHANGED <<remote, control, sweep, sweeps, reaped, accepted, faults>>

(* Mutant: the result of the kill is awaited without a timeout.            *)
KillHangs(i) ==
    /\ box[i].wait = "killing" /\ ~Running(i)
    /\ box' = Returned(i, "timeout")
    /\ UNCHANGED <<remote, control, sweep, sweeps, reaped, accepted, faults>>

(* _kill: docker kill works, or fails or hangs and is given up on.         *)
Kill(i) ==
    /\ box[i].wait = "killing"
    /\ \/ /\ box' = IF Running(i)
                    THEN [Returned(i, "timeout") EXCEPT ![i].state = "gone", ![i].exit = "killed"]
                    ELSE Returned(i, "timeout")
          /\ UNCHANGED faults
       \/ /\ Running(i) /\ faults < MaxFaults
          /\ faults' = faults + 1
          /\ box' = Returned(i, "timeout")
    /\ UNCHANGED <<remote, control, sweep, sweeps, reaped, accepted>>

-----------------------------------------------------------------------------
(* The reaper *)

(* list: what runs now and matches; scope 0 is the broad sweep.            *)
StartSweep(scope) ==
    /\ sweep = NoSweep /\ sweeps < MaxSweeps
    /\ sweeps' = sweeps + 1
    /\ sweep' = [asked |-> IF scope = 0 THEN "all" ELSE "run", scope |-> scope,
                 todo |-> {i \in Ids : Running(i) /\ matches(i, scope)}]
    /\ UNCHANGED <<remote, control, box, reaped, accepted, faults>>

(* destroy, one listed container after the other.                          *)
Reap(i) ==
    /\ i \in sweep.todo
    /\ sweep' = [sweep EXCEPT !.todo = @ \ {i}]
    /\ IF Running(i)
       THEN box' = Stops(box, i, "killed") /\ reaped' = reaped \cup {<<i, sweep.scope>>}
       ELSE UNCHANGED <<box, reaped>>
    /\ UNCHANGED <<remote, control, sweeps, accepted, faults>>

EndSweep ==
    /\ sweep.asked # "off" /\ sweep.todo = {}
    /\ sweep' = NoSweep
    /\ UNCHANGED <<remote, control, box, sweeps, reaped, accepted, faults>>

Next ==
    \/ \E i \in Ids : \/ StartRun(i) \/ LaunchSandbox(i) \/ LaunchRunner(i)
                      \/ VerifierDies(i) \/ Completes(i) \/ TimesOut(i) \/ Kill(i) \/ Reap(i)
                      \/ \E exit \in {"zero", "nonzero"} : Exits(i, exit)
    \/ HealthOk \/ HealthFails \/ SandboxReturns \/ RunnerUnavailable \/ Verdict \/ Abandon
    \/ EndRun \/ Crash \/ Restart \/ EndSweep
    \/ \E scope \in 0 .. run : StartSweep(scope)

(* A waiter's timer fires and its kill is bounded.  No fairness is assumed *)
(* of the containers or of whoever starts the reaper.                      *)
Fairness ==
    \A i \in Ids : WF_vars(Completes(i) \/ TimesOut(i)) /\ WF_vars(Kill(i))

Spec == Init /\ [][Next]_vars /\ Fairness

-----------------------------------------------------------------------------
(* Properties *)

(* No accept rests on a worker that somebody destroyed: under a sweep that *)
(* hits a run in flight, a kill at the timeout that races the exit, or a   *)
(* verifier that dies, only a container that ended by itself with exit     *)
(* code zero counts as a clean run.  (_run, runnable)                      *)
AcceptsOwnExit == \A i \in accepted : box[i].exit = "zero" /\ box[i].state = "gone"

(* Without a fault (a crash, a failed health check, kill or rm, a call     *)
(* given up, a dead verifier) or a sweep that hits a run in flight, no     *)
(* container of the harness survives its run: the per-cycle lifetimes and  *)
(* teardown cover every one.  (A sweep can orphan: the verifier it         *)
(* destroys may have started a code-runner after the listing.)             *)
CleanUnlessFault ==
    phase = "idle" /\ faults = 0 /\ reaped = {} =>
        \A i \in Ids : Running(i) => box[i].role = "foreign"

(* A sweep for one run destroys no container of another run, and no sweep  *)
(* one that is not the harness's: "it can never touch a container this     *)
(* harness did not create".  (build_selector, Labels.matches)              *)
ReapsOnlyItsOwn ==
    \A r \in reaped : box[r[1]].role # "foreign" /\ (r[2] # 0 => box[r[1]].of = r[2])

(* Whoever waits for a worker gets an answer, though the container never   *)
(* exits and docker kill hangs, unless the waiter itself is gone.          *)
WaitEnds == \A i \in Ids : box[i].wait = "waiting" ~> box[i].wait \in {"returned", "lost"}

=============================================================================
