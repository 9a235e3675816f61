--------------------------- MODULE WorkersProofs ---------------------------
(***************************************************************************)
(* TLAPS proofs about Workers, for any number of containers, runs, faults  *)
(* and sweeps.                                                             *)
(*                                                                         *)
(* First, how any step may change a container (Evolves): it is launched    *)
(* into an unused slot, or keeps its labels, ends at most once and is      *)
(* reported clean only after a clean end.  From that follow the two        *)
(* properties about what was accepted and what was reaped.  That nothing   *)
(* survives a run needs the control plane's own bookkeeping: as long as    *)
(* nothing failed and the reaper hit nothing, what runs is what it holds.  *)
(***************************************************************************)
EXTENDS Workers, TLAPS

USE WorkersAssumption

Box == [role : {"none", "foreign", "verifier", "sandbox", "code-runner"},
        of : Nat, stamped : Nat, by : Nat,
        state : {"none", "running", "gone"},
        exit : {"none", "zero", "nonzero", "killed"},
        wait : {"none", "waiting", "killing", "returned", "lost"},
        result : {"none", "ok", "failed", "timeout"}]

Phases == {"idle", "booting", "ready", "sandbox", "gating", "down"}

Types ==
    /\ box \in [Ids -> Box]
    /\ remote \in BOOLEAN /\ phase \in Phases /\ run \in Nat /\ faults \in Nat
    /\ verifier \in Ids \cup {0} /\ worker \in Ids \cup {0}
    /\ sweep \in [asked : {"off", "all", "run"}, scope : Nat, todo : SUBSET Ids]
    /\ reaped \subseteq Ids \X Nat /\ accepted \subseteq Ids

\* A slot that is not used is empty, a container's run label is that of its
\* run or missing, and nobody waits for a service.
Labelled ==
    \A i \in Ids : /\ box[i].role = "none" => box[i].state = "none"
                   /\ box[i].role \in {"none", "foreign", "verifier"} => box[i].wait = "none"
                   /\ box[i].stamped \in {0, box[i].of}

\* A run reported clean ended by itself with exit code zero.
CleanExit == \A i \in Ids : box[i].result = "ok" => box[i].exit = "zero" /\ box[i].state = "gone"

\* The container b is of the harness, and of run scope if one was asked for.
OfSweep(b, scope) == /\ b.role \notin {"none", "foreign"}
                     /\ scope # 0 => b.of = scope

\* What is listed to be reaped, and what was, matches the request.
Matched ==
    /\ \A i \in sweep.todo : OfSweep(box[i], sweep.scope)
    /\ \A r \in reaped : OfSweep(box[r[1]], r[2])

\* Nothing has gone wrong so far.
Quiet == faults = 0 /\ reaped = {}

\* The control plane holds whatever runs: between cycles a launched verifier
\* only, and a worker until it has returned.
HoldsAll ==
    /\ phase # "down"
    /\ phase = "booting" => remote
    /\ remote /\ phase # "idle" => Running(verifier) /\ box[verifier].role = "verifier"
    /\ phase \in {"idle", "booting", "ready"} => worker = 0
    /\ phase = "idle" => verifier = 0
    /\ \A i \in Ids : Running(i) /\ box[i].role # "foreign" => i \in {verifier, worker}
    /\ \A i \in Ids : Running(i) => box[i].wait # "returned"

Held == Quiet => HoldsAll

IInv == Types /\ Labelled /\ CleanExit /\ AcceptsOwnExit /\ Matched /\ Held

-----------------------------------------------------------------------------
(* How a container may change *)

\* The container b is just launched.
Launched(b) == /\ b.role \in {"verifier", "sandbox", "code-runner"} /\ b.stamped \in {0, b.of}
               /\ b.state = "running" /\ b.exit = "none" /\ b.wait \in {"none", "waiting"}
               /\ b.role = "verifier" => b.wait = "none"
               /\ b.result = "none"

\* From b to c the labels are kept, the container ends at most once, and its
\* run is reported clean only after a clean end.
Continues(b, c) ==
    /\ c.role = b.role /\ c.of = b.of /\ c.stamped = b.stamped
    /\ c.state = b.state \/ (b.state = "running" /\ c.state = "gone")
    /\ b.state = "gone" => c.exit = b.exit
    /\ c.result = "ok" => b.result = "ok" \/ (b.state = "gone" /\ b.exit = "zero")
    /\ c.wait # b.wait => b.wait \in {"waiting", "killing"}

\* What any step does to the containers.
Evolves == \A i \in Ids : \/ box[i].role = "none" /\ Launched(box'[i])
                          \/ Continues(box[i], box'[i])

\* The labels that containers are launched with.
LEMMA LaunchLabels ==
    ASSUME Types
    PROVE  /\ SandboxLabels \in Box /\ Launched(SandboxLabels) /\ SandboxLabels.role = "sandbox"
           /\ RunnerLabels \in Box /\ Launched(RunnerLabels) /\ RunnerLabels.role = "code-runner"
           /\ \A r \in Nat : /\ ServiceLabels(r) \in Box /\ Launched(ServiceLabels(r))
                             /\ ServiceLabels(r).role = "verifier"
<1>1. run \in Nat /\ Launcher \in Nat /\ (IF remote THEN 0 ELSE run) \in {0, run}
  BY DEF Types, Launcher, Ids
<1>2. /\ Unused \in Box /\ Unused.stamped = 0 /\ Unused.exit = "none" /\ Unused.wait = "none"
      /\ Unused.result = "none"
  BY DEF Unused, Box
<1>3. SandboxLabels \in Box /\ Launched(SandboxLabels) /\ SandboxLabels.role = "sandbox"
  BY <1>1, <1>2 DEF SandboxLabels, Box, Launched
<1>4. RunnerLabels \in Box /\ Launched(RunnerLabels) /\ RunnerLabels.role = "code-runner"
  BY <1>1, <1>2 DEF RunnerLabels, Box, Launched
<1>5. ASSUME NEW r \in Nat
      PROVE  /\ ServiceLabels(r) \in Box /\ Launched(ServiceLabels(r))
             /\ ServiceLabels(r).role = "verifier"
  BY <1>2 DEF ServiceLabels, Box, Launched
<1> QED
  BY <1>3, <1>4, <1>5

\* A container stops, and what it waited for loses its waiter.
LEMMA StopsEvolves ==
    ASSUME Types, NEW i \in Ids, Running(i), NEW exit \in {"zero", "nonzero", "killed"},
           box' = Stops(box, i, exit)
    PROVE  /\ box' \in [Ids -> Box] /\ Evolves
           /\ box'[i].state = "gone" /\ \A j \in Ids : j # i => box'[j].state = box[j].state
           /\ \A j \in Ids : box'[j].wait \in {box[j].wait, "lost"}
<1> USE DEF Types
<1>1. ASSUME NEW j \in Ids
      PROVE  /\ box'[j] \in Box /\ Continues(box[j], box'[j])
             /\ IF j = i THEN box'[j].state = "gone" ELSE box'[j].state = box[j].state
             /\ box'[j].wait \in {box[j].wait, "lost"}
  <2>1. CASE j = i
    BY <2>1 DEF Stops, Running, Continues, Box
  <2>2. CASE j # i
    BY <2>2 DEF Stops, Continues, Box
  <2> QED
    BY <2>1, <2>2
<1>2. box' \in [Ids -> Box]
  BY <1>1 DEF Stops
<1> QED
  BY <1>1, <1>2 DEF Evolves

\* A container is launched into an unused slot.
LEMMA LaunchEvolves ==
    ASSUME Types, NEW i \in Ids, Fresh(i), NEW spec \in Box, Launched(spec),
           box' = [box EXCEPT ![i] = spec]
    PROVE  /\ box' \in [Ids -> Box] /\ Evolves /\ box'[i] = spec
           /\ \A j \in Ids : j # i => box'[j] = box[j]
<1>1. box' \in [Ids -> Box] /\ box'[i] = spec /\ \A j \in Ids : j # i => box'[j] = box[j]
  BY DEF Types
<1> QED
  BY <1>1 DEF Fresh, Evolves, Continues

\* Only container i changes, and it continues.
LEMMA OneEvolves ==
    ASSUME Types, NEW i \in Ids, box' \in [Ids -> Box], Continues(box[i], box'[i]),
           \A j \in Ids : j # i => box'[j] = box[j]
    PROVE  Evolves
  BY DEF Evolves, Continues

\* From b to c the waiter reports res, and nothing else changes.
Reports(b, c, res) == /\ c.role = b.role /\ c.of = b.of /\ c.stamped = b.stamped /\ c.by = b.by
                      /\ c.state = b.state /\ c.exit = b.exit
                      /\ c.wait = "returned" /\ c.result = res

\* What a waiter reports of its container.
LEMMA ReturnedFields ==
    ASSUME Types, NEW i \in Ids, NEW res \in {"ok", "failed", "timeout"}
    PROVE  /\ Returned(i, res) \in [Ids -> Box]
           /\ \A j \in Ids : j # i => Returned(i, res)[j] = box[j]
           /\ Reports(box[i], Returned(i, res)[i], res)
<1>1. box[i] \in Box /\ [box[i] EXCEPT !.wait = "returned", !.result = res] \in Box
  BY DEF Types, Box
<1>2. Returned(i, res)[i] = [box[i] EXCEPT !.wait = "returned", !.result = res]
  BY DEF Returned, Types
<1>3. Reports(box[i], Returned(i, res)[i], res)
  BY <1>1, <1>2 DEF Reports, Box
<1> QED
  BY <1>1, <1>3 DEF Returned, Types

\* The kill at the timeout ends in a report; the container is gone after it,
\* or docker failed.
LEMMA KillFields ==
    ASSUME Types, NEW i \in Ids, Kill(i)
    PROVE  /\ box' \in [Ids -> Box] /\ Continues(box[i], box'[i])
           /\ \A j \in Ids : j # i => box'[j] = box[j]
           /\ faults' \in {faults, faults + 1}
           /\ faults' = faults => box'[i].state # "running"
<1> DEFINE ret == Returned(i, "timeout")
<1>1. /\ ret \in [Ids -> Box] /\ \A j \in Ids : j # i => ret[j] = box[j]
      /\ Reports(box[i], ret[i], "timeout")
  BY ReturnedFields
<1>2. box[i] \in Box /\ box[i].wait = "killing" /\ faults \in Nat /\ i # 0
  BY DEF Types, Kill, Ids
<1> HIDE DEF ret
<1>3. ASSUME box' = ret, faults' = faults + 1 \/ ~Running(i)
      PROVE  /\ box' \in [Ids -> Box] /\ Continues(box[i], box'[i])
             /\ \A j \in Ids : j # i => box'[j] = box[j]
             /\ faults' = faults => box'[i].state # "running"
  BY <1>1, <1>2, <1>3 DEF Continues, Reports, Box, Running
<1>4. ASSUME Running(i), box' = [ret EXCEPT ![i].state = "gone", ![i].exit = "killed"]
      PROVE  /\ box' \in [Ids -> Box] /\ Continues(box[i], box'[i])
             /\ \A j \in Ids : j # i => box'[j] = box[j]
             /\ box'[i].state # "running"
  <2>1. /\ box'[i] = [ret[i] EXCEPT !.state = "gone", !.exit = "killed"]
        /\ \A j \in Ids : j # i => box'[j] = box[j]
    BY <1>1, <1>4
  <2>2. ret[i] \in Box
    BY <1>1
  <2>3. box'[i] \in Box
    BY <2>1, <2>2 DEF Box
  <2>4. box' \in [Ids -> Box]
    BY <1>1, <1>4, <2>1, <2>3 DEF Types
  <2>5. Continues(box[i], box'[i]) /\ box'[i].state = "gone"
    BY <1>1, <1>2, <1>4, <2>1, <2>2 DEF Continues, Reports, Box, Running
  <2> QED
    BY <2>1, <2>4, <2>5
<1>5. CASE faults' = faults /\ box' = IF Running(i)
                    THEN [ret EXCEPT ![i].state = "gone", ![i].exit = "killed"] ELSE ret
  BY <1>3, <1>4, <1>5
<1>6. CASE Running(i) /\ faults' = faults + 1 /\ box' = ret
  BY <1>3, <1>6
<1> QED
  BY <1>5, <1>6 DEF Kill, ret

\* The control plane's death touches waits only.
LEMMA CrashEvolves ==
    ASSUME Types, Crash
    PROVE  box' \in [Ids -> Box] /\ Evolves
<1>1. ASSUME NEW i \in Ids PROVE box'[i] \in Box /\ Continues(box[i], box'[i])
  <2>1. box[i] \in Box
    BY DEF Types
  <2> QED
    BY <2>1 DEF Crash, Continues, Box
<1>2. box' \in [Ids -> Box]
  BY <1>1 DEF Crash
<1> QED
  BY <1>1, <1>2 DEF Evolves

\* The timeout and the container's exit, seen by the waiter.
LEMMA WaitFields ==
    ASSUME Types, NEW i \in Ids, Completes(i) \/ TimesOut(i)
    PROVE  /\ box' \in [Ids -> Box] /\ Continues(box[i], box'[i])
           /\ \A j \in Ids : j # i => box'[j] = box[j]
           /\ box'[i].wait = "returned" => box'[i].state = "gone"
           /\ box'[i].state = box[i].state
<1>1. box[i] \in Box
  BY DEF Types
<1>2. CASE Completes(i)
  <2> DEFINE res == IF box[i].exit = "zero" THEN "ok" ELSE "failed"
  <2>1. /\ res \in {"ok", "failed", "timeout"} /\ (res = "ok" => box[i].exit = "zero")
        /\ box' = Returned(i, res) /\ box[i].wait = "waiting" /\ box[i].state = "gone"
    BY <1>2 DEF Completes
  <2> HIDE DEF res
  <2>2. /\ box' \in [Ids -> Box] /\ \A j \in Ids : j # i => box'[j] = box[j]
        /\ Reports(box[i], box'[i], res)
    BY <2>1, ReturnedFields
  <2> QED
    BY <1>1, <2>1, <2>2 DEF Continues, Reports, Box
<1>3. CASE TimesOut(i)
  <2>1. box[i].wait = "waiting" /\ box' = [box EXCEPT ![i].wait = "killing"]
    BY <1>3 DEF TimesOut
  <2>2. /\ box'[i] = [box[i] EXCEPT !.wait = "killing"] /\ \A j \in Ids : j # i => box'[j] = box[j]
    BY <2>1 DEF Types
  <2>3. box'[i] \in Box
    BY <1>1, <2>2 DEF Box
  <2>4. box' \in [Ids -> Box]
    BY <2>1, <2>2, <2>3 DEF Types
  <2> QED
    BY <1>1, <2>1, <2>2, <2>4 DEF Continues, Box
<1> QED
  BY <1>2, <1>3

\* The end of a run: the verifier it launched is destroyed, or docker failed.
LEMMA DestroyEvolves ==
    ASSUME Types, DestroyVerifier
    PROVE  /\ box' \in [Ids -> Box] /\ Evolves /\ faults' \in {faults, faults + 1}
           /\ faults' = faults /\ verifier # 0 => box'[verifier].state # "running"
           /\ \A i \in Ids : /\ i # verifier => box'[i].state = box[i].state
                             /\ box'[i].wait \in {box[i].wait, "lost"}
<1>1. ASSUME box' = box PROVE box' \in [Ids -> Box] /\ Evolves
  BY <1>1 DEF Types, Evolves, Continues
<1>2. CASE Running(verifier) /\ box' = Stops(box, verifier, "killed") /\ faults' = faults
  <2>1. verifier \in Ids
    BY <1>2 DEF Types, Running
  <2> QED
    BY <1>2, <2>1, StopsEvolves
<1>3. CASE ~Running(verifier) /\ box' = box /\ faults' = faults
  BY <1>1, <1>3 DEF Running
<1>4. CASE Running(verifier) /\ box' = box /\ faults' = faults + 1
  BY <1>1, <1>4 DEF Types
<1> QED
  BY <1>2, <1>3, <1>4 DEF DestroyVerifier

\* What every step does to the containers.
LEMMA StepEvolves ==
    ASSUME Types, [Next]_vars
    PROVE  box' \in [Ids -> Box] /\ Evolves
<1>1. ASSUME box' = box PROVE box' \in [Ids -> Box] /\ Evolves
  BY <1>1 DEF Types, Evolves, Continues
<1>2. ASSUME NEW i \in Ids, StartRun(i) PROVE box' \in [Ids -> Box] /\ Evolves
  <2>1. run + 1 \in Nat
    BY DEF Types
  <2>2. ServiceLabels(run + 1) \in Box /\ Launched(ServiceLabels(run + 1))
    BY <2>1, LaunchLabels
  <2>3. CASE remote
    BY <1>2, <2>2, <2>3, LaunchEvolves DEF StartRun, launch
  <2>4. CASE ~remote
    BY <1>1, <1>2, <2>4 DEF StartRun
  <2> QED
    BY <2>3, <2>4
<1>3. ASSUME NEW i \in Ids, LaunchSandbox(i) \/ LaunchRunner(i) PROVE box' \in [Ids -> Box] /\ Evolves
  <2>1. /\ SandboxLabels \in Box /\ Launched(SandboxLabels)
        /\ RunnerLabels \in Box /\ Launched(RunnerLabels)
    BY LaunchLabels
  <2>2. Fresh(i) /\ (box' = [box EXCEPT ![i] = SandboxLabels] \/ box' = [box EXCEPT ![i] = RunnerLabels])
    BY <1>3 DEF LaunchSandbox, LaunchRunner, docker_run
  <2> QED
    BY <2>1, <2>2, LaunchEvolves
<1>4. ASSUME NEW i \in Ids, VerifierDies(i) \/ \E exit \in {"zero", "nonzero"} : Exits(i, exit)
      PROVE  box' \in [Ids -> Box] /\ Evolves
  BY <1>4, StopsEvolves DEF VerifierDies, Exits
<1>5. ASSUME NEW i \in Ids, Completes(i) \/ TimesOut(i) PROVE box' \in [Ids -> Box] /\ Evolves
  BY <1>5, WaitFields, OneEvolves
<1>6. ASSUME NEW i \in Ids, Kill(i) PROVE box' \in [Ids -> Box] /\ Evolves
  BY <1>6, KillFields, OneEvolves
<1>7. ASSUME NEW i \in Ids, Reap(i) PROVE box' \in [Ids -> Box] /\ Evolves
  BY <1>1, <1>7, StopsEvolves DEF Reap
<1>8. CASE EndRun
  BY <1>8, DestroyEvolves DEF EndRun
<1>9. CASE Crash
  BY <1>9, CrashEvolves
<1>10. CASE \/ HealthOk \/ HealthFails \/ SandboxReturns \/ RunnerUnavailable \/ Verdict \/ Abandon
            \/ Restart \/ EndSweep \/ \E scope \in 0 .. run : StartSweep(scope)
  BY <1>1, <1>10 DEF HealthOk, HealthFails, SandboxReturns, RunnerUnavailable, Verdict, Abandon, Restart,
                     EndSweep, StartSweep
<1>11. CASE UNCHANGED vars
  BY <1>1, <1>11 DEF vars
<1> QED
  BY <1>2, <1>3, <1>4, <1>5, <1>6, <1>7, <1>8, <1>9, <1>10, <1>11 DEF Next

-----------------------------------------------------------------------------
(* What was accepted, and what was reaped *)

\* Labels and clean ends, from the evolution of the containers.
LEMMA EvolutionKeeps ==
    ASSUME Types, Labelled, CleanExit, AcceptsOwnExit, Evolves, box' \in [Ids -> Box]
    PROVE  /\ Labelled' /\ CleanExit'
           /\ \A i \in Ids : box[i].role # "none" => /\ box'[i].role = box[i].role
                                                     /\ box'[i].of = box[i].of
           /\ \A i \in accepted : box'[i].exit = "zero" /\ box'[i].state = "gone"
<1>1. ASSUME NEW i \in Ids
      PROVE  /\ box'[i].role = "none" => box'[i].state = "none"
             /\ box'[i].role \in {"none", "foreign", "verifier"} => box'[i].wait = "none"
             /\ box'[i].stamped \in {0, box'[i].of}
             /\ box'[i].result = "ok" => box'[i].exit = "zero" /\ box'[i].state = "gone"
             /\ box[i].role # "none" => box'[i].role = box[i].role /\ box'[i].of = box[i].of
             /\ box[i].exit = "zero" /\ box[i].state = "gone" =>
                    box'[i].exit = "zero" /\ box'[i].state = "gone"
  <2>1. CASE box[i].role = "none" /\ Launched(box'[i])
    BY <2>1 DEF Labelled, Launched
  <2>2. CASE Continues(box[i], box'[i])
    BY <2>2 DEF Labelled, CleanExit, Continues
  <2> QED
    BY <2>1, <2>2 DEF Evolves
<1>2. Labelled' /\ CleanExit'
  BY <1>1 DEF Labelled, CleanExit
<1>3. \A i \in accepted : box'[i].exit = "zero" /\ box'[i].state = "gone"
  BY <1>1 DEF AcceptsOwnExit, Types
<1> QED
  BY <1>1, <1>2, <1>3

\* An accept is added only for a container whose run was clean.
LEMMA AcceptsKeep ==
    ASSUME IInv, [Next]_vars
    PROVE  AcceptsOwnExit' /\ accepted' \subseteq Ids
<1>1. /\ \A i \in accepted : box'[i].exit = "zero" /\ box'[i].state = "gone"
  BY StepEvolves, EvolutionKeeps DEF IInv
<1>2. CASE accepted' = accepted
  BY <1>1, <1>2 DEF AcceptsOwnExit, IInv, Types
<1>3. CASE Verdict
  <2>1. box' = box /\ accepted' \in {accepted} \cup
                      (IF RunsClean(worker) THEN {accepted \cup {worker}} ELSE {})
        /\ worker # 0 /\ worker \in Ids
    BY <1>3 DEF Verdict, IInv, Types
  <2>2. accepted' = accepted \/ (box[worker].result = "ok" /\ accepted' = accepted \cup {worker})
    BY <2>1 DEF RunsClean
  <2> QED
    BY <1>1, <2>1, <2>2 DEF AcceptsOwnExit, IInv, Types, CleanExit
<1>4. accepted' = accepted \/ Verdict
  BY DEF Next, vars, StartRun, LaunchSandbox, LaunchRunner, VerifierDies, Completes, TimesOut, Kill, Reap,
         Exits, HealthOk, HealthFails, SandboxReturns, RunnerUnavailable, Abandon, EndRun, Crash,
         Restart, EndSweep, StartSweep
<1> QED
  BY <1>2, <1>3, <1>4

\* The reaper destroys what it listed, and what it lists matches.
LEMMA SweepKeeps ==
    ASSUME IInv, [Next]_vars
    PROVE  /\ Matched' /\ reaped \subseteq reaped' /\ reaped' \subseteq Ids \X Nat
           /\ sweep' \in [asked : {"off", "all", "run"}, scope : Nat, todo : SUBSET Ids]
<1> USE DEF IInv, Types
<1>1. \A i \in Ids : box[i].role # "none" => box'[i].role = box[i].role /\ box'[i].of = box[i].of
  BY StepEvolves, EvolutionKeeps
<1>2. ASSUME NEW i \in Ids, NEW k, OfSweep(box[i], k) PROVE OfSweep(box'[i], k)
  BY <1>1, <1>2 DEF OfSweep
<1>3. \A r \in reaped : OfSweep(box'[r[1]], r[2])
  <2> TAKE r \in reaped
  <2>1. r[1] \in Ids /\ OfSweep(box[r[1]], r[2])
    BY DEF Matched
  <2> QED
    BY <2>1, <1>2
<1>4. \A i \in sweep.todo : i \in Ids /\ OfSweep(box'[i], sweep.scope)
  <2> TAKE i \in sweep.todo
  <2>1. i \in Ids /\ OfSweep(box[i], sweep.scope)
    BY DEF Matched
  <2> QED
    BY <2>1, <1>2
<1>5. CASE UNCHANGED <<sweep, reaped>>
  BY <1>3, <1>4, <1>5 DEF Matched
<1>6. ASSUME NEW scope \in 0 .. run, StartSweep(scope) PROVE Matched' /\ sweep' \in
              [asked : {"off", "all", "run"}, scope : Nat, todo : SUBSET Ids] /\ reaped' = reaped
  <2> DEFINE todo == {i \in Ids : Running(i) /\ matches(i, scope)}
             asked == IF scope = 0 THEN "all" ELSE "run"
  <2>1. sweep' = [asked |-> asked, scope |-> scope, todo |-> todo]
        /\ reaped' = reaped /\ box' = box
    BY <1>6 DEF StartSweep
  <2>2. scope \in Nat /\ todo \in SUBSET Ids /\ asked \in {"off", "all", "run"}
    OBVIOUS
  <2>3. ASSUME NEW i \in todo PROVE OfSweep(box[i], scope)
    <3>1. i \in Ids /\ Running(i) /\ matches(i, scope)
      OBVIOUS
    <3> QED
      BY <2>2, <3>1 DEF matches, Running, OfSweep, Labelled
  <2> HIDE DEF todo, asked
  <2>4. sweep'.todo = todo /\ sweep'.scope = scope
    BY <2>1
  <2>5. sweep' \in [asked : {"off", "all", "run"}, scope : Nat, todo : SUBSET Ids]
    BY <2>1, <2>2
  <2>6. \A i \in todo : i \in Ids
    BY <2>2
  <2>7. \A i \in sweep'.todo : OfSweep(box'[i], sweep'.scope)
    BY <1>2, <2>3, <2>4, <2>6
  <2> QED
    BY <1>3, <2>1, <2>5, <2>7 DEF Matched
<1>7. ASSUME NEW i \in Ids, Reap(i)
      PROVE  /\ Matched' /\ reaped \subseteq reaped' /\ reaped' \subseteq Ids \X Nat
             /\ sweep' \in [asked : {"off", "all", "run"}, scope : Nat, todo : SUBSET Ids]
  <2>1. /\ i \in sweep.todo /\ sweep' = [sweep EXCEPT !.todo = @ \ {i}]
        /\ reaped' = reaped \cup {<<i, sweep.scope>>} \/ reaped' = reaped
    BY <1>7 DEF Reap
  <2>2. /\ sweep'.todo \subseteq sweep.todo /\ sweep'.scope = sweep.scope
        /\ sweep' \in [asked : {"off", "all", "run"}, scope : Nat, todo : SUBSET Ids]
    BY <2>1
  <2>3. <<i, sweep.scope>> \in Ids \X Nat
    OBVIOUS
  <2>4. OfSweep(box'[i], sweep.scope)
    BY <1>4, <2>1
  <2>5. OfSweep(box'[<<i, sweep.scope>>[1]], <<i, sweep.scope>>[2])
    BY <2>4
  <2>6. \A r \in reaped' : OfSweep(box'[r[1]], r[2])
    BY <1>3, <2>1, <2>5
  <2>7. \A j \in sweep'.todo : OfSweep(box'[j], sweep'.scope)
    BY <1>4, <2>2
  <2>8. Matched'
    BY <2>6, <2>7 DEF Matched
  <2> QED
    BY <2>1, <2>2, <2>3, <2>8
<1>8. CASE EndSweep
  <2>1. sweep' = NoSweep /\ reaped' = reaped
    BY <1>8 DEF EndSweep
  <2>2. sweep'.todo = {} /\ sweep' \in [asked : {"off", "all", "run"}, scope : Nat, todo : SUBSET Ids]
    BY <2>1 DEF NoSweep
  <2> QED
    BY <1>3, <2>1, <2>2 DEF Matched
<1>9. \/ UNCHANGED <<sweep, reaped>> \/ EndSweep
      \/ \E scope \in 0 .. run : StartSweep(scope)
      \/ \E i \in Ids : Reap(i)
  BY DEF Next, vars, control, StartRun, LaunchSandbox, LaunchRunner, VerifierDies, Completes, TimesOut, Kill,
         Exits, HealthOk, HealthFails, SandboxReturns, RunnerUnavailable, Abandon, EndRun, Crash,
         Restart, Verdict
<1> QED
  BY <1>5, <1>6, <1>7, <1>8, <1>9

-----------------------------------------------------------------------------
(* The control plane holds what runs *)

\* The control plane's own variables and the count of faults.
LEMMA ControlTypes ==
    ASSUME Types, [Next]_vars
    PROVE  /\ phase' \in Phases /\ run' \in Nat /\ verifier' \in Ids \cup {0} /\ worker' \in Ids \cup {0}
           /\ remote' = remote /\ faults' \in {faults, faults + 1}
<1> USE DEF Types, Phases
<1>1. CASE UNCHANGED vars \/ EndSweep \/ \E scope \in 0 .. run : StartSweep(scope)
  BY <1>1 DEF vars, control, EndSweep, StartSweep
<1>2. ASSUME NEW i \in Ids,
             \/ StartRun(i) \/ LaunchSandbox(i) \/ LaunchRunner(i) \/ VerifierDies(i) \/ Completes(i)
             \/ TimesOut(i) \/ Reap(i) \/ \E exit \in {"zero", "nonzero"} : Exits(i, exit)
      PROVE  /\ phase' \in Phases /\ run' \in Nat /\ verifier' \in Ids \cup {0}
             /\ worker' \in Ids \cup {0} /\ remote' = remote /\ faults' \in {faults, faults + 1}
  BY <1>2 DEF control, StartRun, LaunchSandbox, LaunchRunner, VerifierDies, Completes, TimesOut, Reap, Exits
<1>3. ASSUME NEW i \in Ids, Kill(i)
      PROVE  UNCHANGED <<remote, phase, run, verifier, worker>> /\ faults' \in {faults, faults + 1}
  BY <1>3, KillFields DEF control, Kill
<1>4. CASE \/ HealthOk \/ HealthFails \/ SandboxReturns \/ RunnerUnavailable \/ Verdict \/ Abandon
           \/ Crash \/ Restart
  BY <1>4 DEF HealthOk, HealthFails, SandboxReturns, RunnerUnavailable, Verdict, Abandon, Crash, Restart
<1>5. CASE EndRun
  <2>1. faults' \in {faults, faults + 1}
    BY <1>5, DestroyEvolves DEF EndRun
  <2> QED
    BY <1>5, <2>1 DEF EndRun
<1> QED
  BY <1>1, <1>2, <1>3, <1>4, <1>5 DEF Next

\* As long as nothing goes wrong, every step keeps track of what runs.
LEMMA HeldKeeps ==
    ASSUME IInv, [Next]_vars
    PROVE  Held'
<1> SUFFICES ASSUME Quiet' PROVE HoldsAll'
  BY DEF Held
<1>1. /\ faults' \in {faults, faults + 1} /\ reaped \subseteq reaped' /\ remote' = remote
      /\ box' \in [Ids -> Box] /\ Evolves
  BY ControlTypes, SweepKeeps, StepEvolves DEF IInv
<1>2. faults = 0 /\ faults' = faults /\ reaped = {} /\ reaped' = {} /\ HoldsAll
  BY <1>1 DEF IInv, Types, Held, Quiet
<1> USE DEF IInv, Types, HoldsAll
<1>3. \A i \in Ids : i # 0 /\ (Running(i) <=> box[i].state = "running")
  BY DEF Ids, Running
<1>4. \A i \in Ids : Running(i)' <=> box'[i].state = "running"
  BY <1>3 DEF Running
<1>5. ASSUME NEW i \in Ids, Fresh(i) PROVE box[i].role = "none" /\ ~Running(i)
  BY <1>5, <1>3 DEF Fresh, Labelled
<1>6. ASSUME UNCHANGED <<phase, verifier, worker>>,
             \A i \in Ids : box'[i].state = "running" =>
                 box[i].state = "running" /\ box'[i].role = box[i].role /\ box'[i].wait # "returned",
             Running(verifier) /\ box[verifier].role = "verifier" =>
                 box'[verifier].state = "running" /\ box'[verifier].role = "verifier"
      PROVE  HoldsAll'
  <2>1. remote /\ phase # "idle" => Running(verifier)' /\ box'[verifier].role = "verifier"
    BY <1>2, <1>6 DEF Running
  <2> QED
    BY <1>1, <1>2, <1>3, <1>4, <1>6, <2>1
<1>7. CASE UNCHANGED <<phase, verifier, worker, box>>
  BY <1>2, <1>3, <1>6, <1>7 DEF Running
<1>8. ASSUME NEW i \in Ids, StartRun(i) PROVE HoldsAll'
  <2>1. phase = "idle" /\ Fresh(i) /\ verifier = 0 /\ worker = 0 /\ worker' = 0
    BY <1>2, <1>8 DEF StartRun
  <2>2. CASE ~remote
    <3>1. phase' = "ready" /\ verifier' = verifier /\ box' = box
      BY <1>8, <2>2 DEF StartRun
    <3> QED
      BY <1>1, <1>2, <1>3, <1>4, <2>1, <2>2, <3>1
  <2>3. CASE remote
    <3>1. phase' = "booting" /\ verifier' = i /\ box' = [box EXCEPT ![i] = ServiceLabels(run + 1)]
      BY <1>8, <2>3 DEF StartRun, launch
    <3>2. /\ ServiceLabels(run + 1) \in Box /\ Launched(ServiceLabels(run + 1))
          /\ ServiceLabels(run + 1).role = "verifier"
      BY LaunchLabels
    <3>3. box'[i] = ServiceLabels(run + 1) /\ \A j \in Ids : j # i => box'[j] = box[j]
      BY <2>1, <3>1, <3>2, LaunchEvolves
    <3>4. Running(verifier)' /\ box'[i].role = "verifier" /\ box'[i].wait # "returned"
      BY <1>3, <3>1, <3>2, <3>3 DEF Launched, Running
    <3>5. \A j \in Ids : Running(j)' /\ j # i => Running(j) /\ box'[j] = box[j]
      BY <1>3, <1>4, <3>3
    <3> QED
      BY <1>1, <1>2, <1>3, <2>1, <2>3, <3>1, <3>4, <3>5
  <2> QED
    BY <2>2, <2>3
<1>9. ASSUME NEW i \in Ids, LaunchSandbox(i) \/ LaunchRunner(i) PROVE HoldsAll'
  <2>1. /\ Fresh(i) /\ worker = 0 /\ worker' = i /\ verifier' = verifier
        /\ phase \in {"ready", "gating"} /\ phase' \in {"sandbox", "gating"}
        /\ (box' = [box EXCEPT ![i] = SandboxLabels] \/ box' = [box EXCEPT ![i] = RunnerLabels])
    BY <1>2, <1>9 DEF LaunchSandbox, LaunchRunner, docker_run
  <2>2. /\ SandboxLabels \in Box /\ Launched(SandboxLabels)
        /\ RunnerLabels \in Box /\ Launched(RunnerLabels)
    BY LaunchLabels
  <2>3. /\ box'[i] \in {SandboxLabels, RunnerLabels}
        /\ \A j \in Ids : j # i => box'[j] = box[j]
    BY <2>1, <2>2, LaunchEvolves
  <2>4. box'[i].wait # "returned"
    BY <2>2, <2>3 DEF Launched
  <2>5. remote => verifier # i /\ verifier \in Ids /\ Running(verifier) /\ box[verifier].role = "verifier"
    BY <1>2, <1>5, <2>1 DEF Running
  <2>6. remote => Running(verifier)' /\ box'[verifier].role = "verifier"
    BY <1>3, <1>4, <2>1, <2>3, <2>5
  <2>7. \A j \in Ids : Running(j)' /\ j # i => Running(j) /\ box'[j] = box[j]
    BY <1>3, <1>4, <2>3
  <2> QED
    BY <1>1, <1>2, <1>3, <2>1, <2>4, <2>6, <2>7
<1>10. ASSUME NEW i \in Ids, VerifierDies(i) PROVE HoldsAll'
  BY <1>2, <1>10 DEF VerifierDies
<1>11. ASSUME NEW i \in Ids, Completes(i) \/ TimesOut(i) PROVE HoldsAll'
  <2>1. /\ \A j \in Ids : j # i => box'[j] = box[j]
        /\ box'[i].wait = "returned" => box'[i].state = "gone"
        /\ box'[i].state = box[i].state /\ Continues(box[i], box'[i])
    BY <1>11, WaitFields
  <2>2. UNCHANGED <<phase, verifier, worker>>
    BY <1>11 DEF Completes, TimesOut, control
  <2>3. \A j \in Ids : box'[j].state = "running" =>
            box[j].state = "running" /\ box'[j].role = box[j].role /\ box'[j].wait # "returned"
    BY <1>2, <1>3, <2>1 DEF Continues
  <2>4. Running(verifier) /\ box[verifier].role = "verifier" =>
            box'[verifier].state = "running" /\ box'[verifier].role = "verifier"
    BY <1>3, <2>1 DEF Continues, Running
  <2> QED
    BY <1>6, <2>2, <2>3, <2>4
<1>12. ASSUME NEW i \in Ids, Kill(i) PROVE HoldsAll'
  <2>1. /\ \A j \in Ids : j # i => box'[j] = box[j]
        /\ box'[i].state # "running"
    BY <1>2, <1>12, KillFields
  <2>2. UNCHANGED <<phase, verifier, worker>> /\ box[i].wait = "killing"
    BY <1>12 DEF Kill, control
  <2>3. \A j \in Ids : box'[j].state = "running" =>
            box[j].state = "running" /\ box'[j].role = box[j].role /\ box'[j].wait # "returned"
    BY <1>2, <1>3, <2>1
  <2>4. box[i].role # "verifier"
    BY <2>2 DEF Labelled
  <2>5. Running(verifier) /\ box[verifier].role = "verifier" =>
            box'[verifier].state = "running" /\ box'[verifier].role = "verifier"
    BY <1>3, <2>1, <2>4 DEF Running
  <2> QED
    BY <1>6, <2>2, <2>3, <2>5
<1>13. ASSUME NEW i \in Ids, Reap(i) PROVE HoldsAll'
  <2>1. ~Running(i)
    BY <1>2, <1>13 DEF Reap
  <2> QED
    BY <1>7, <1>13, <2>1 DEF Reap, control
<1>14. ASSUME NEW i \in Ids, NEW exit \in {"zero", "nonzero"}, Exits(i, exit) PROVE HoldsAll'
  <2>1. Running(i) /\ box[i].role # "verifier" /\ UNCHANGED <<phase, verifier, worker>>
    BY <1>14 DEF Exits, control
  <2>2. /\ box'[i].state = "gone" /\ \A j \in Ids : j # i => box'[j].state = box[j].state
        /\ \A j \in Ids : box'[j].wait \in {box[j].wait, "lost"}
    BY <1>14, StopsEvolves DEF Exits
  <2>3. \A j \in Ids : box[j].state = "running" => box'[j].role = box[j].role
    BY <1>1 DEF Evolves, Continues, Labelled
  <2>4. \A j \in Ids : box'[j].state = "running" =>
            box[j].state = "running" /\ box'[j].role = box[j].role /\ box'[j].wait # "returned"
    BY <1>2, <1>3, <2>2, <2>3
  <2>5. Running(verifier) /\ box[verifier].role = "verifier" =>
            box'[verifier].state = "running" /\ box'[verifier].role = "verifier"
    BY <1>3, <2>1, <2>2, <2>3 DEF Running
  <2> QED
    BY <1>6, <2>1, <2>4, <2>5
<1>15. CASE HealthOk
  BY <1>1, <1>2, <1>3, <1>4, <1>15 DEF HealthOk, Running
<1>16. CASE HealthFails
  BY <1>2, <1>16 DEF HealthFails
<1>17. CASE SandboxReturns \/ Verdict
  <2>1. /\ box' = box /\ worker' = 0 /\ verifier' = verifier /\ phase \in {"sandbox", "gating"}
        /\ phase' \in {"gating", "ready"} /\ box[worker].wait = "returned"
    BY <1>17 DEF SandboxReturns, Verdict
  <2>2. \A i \in Ids : Running(i) => i # worker
    BY <1>2, <2>1
  <2> QED
    BY <1>1, <1>2, <2>1, <2>2 DEF Running
<1>18. CASE RunnerUnavailable
  <2>1. /\ box' = box /\ worker = 0 /\ worker' = 0 /\ verifier' = verifier /\ phase = "gating"
        /\ phase' = "ready"
    BY <1>2, <1>18 DEF RunnerUnavailable
  <2> QED
    BY <1>1, <1>2, <2>1 DEF Running
<1>19. CASE Abandon \/ Crash \/ Restart
  BY <1>2, <1>19 DEF Abandon, Crash, Restart
<1>20. CASE EndRun
  <2>1. phase = "ready" /\ phase' = "idle" /\ verifier' = 0 /\ worker = 0 /\ worker' = 0
    BY <1>2, <1>20 DEF EndRun
  <2>2. /\ verifier # 0 => box'[verifier].state # "running"
        /\ \A i \in Ids : /\ i # verifier => box'[i].state = box[i].state
                          /\ box'[i].wait \in {box[i].wait, "lost"}
    BY <1>2, <1>20, DestroyEvolves DEF EndRun
  <2>3. \A j \in Ids : box[j].state = "running" => box'[j].role = box[j].role
    BY <1>1 DEF Evolves, Continues, Labelled
  <2>4. \A i \in Ids : Running(i)' => i # verifier /\ Running(i) /\ box'[i].role = box[i].role
                                      /\ box'[i].wait # "returned"
    BY <1>2, <1>3, <1>4, <2>2, <2>3
  <2> QED
    BY <1>1, <1>2, <1>3, <2>1, <2>4
<1>21. CASE UNCHANGED vars \/ EndSweep \/ \E scope \in 0 .. run : StartSweep(scope)
  BY <1>7, <1>21 DEF vars, control, EndSweep, StartSweep
<1> QED
  BY <1>8, <1>9, <1>10, <1>11, <1>12, <1>13, <1>14, <1>15, <1>16, <1>17, <1>18, <1>19, <1>20, <1>21 DEF Next

-----------------------------------------------------------------------------
(* The inductive invariant *)

\* Initially there is at most a container that is not the harness's.
LEMMA InitIInv == Init => IInv
<1> SUFFICES ASSUME Init PROVE IInv
  OBVIOUS
<1> DEFINE foreign == [Unused EXCEPT !.role = "foreign", !.state = "running"]
<1>1. /\ Unused \in Box /\ Unused.role = "none" /\ Unused.state = "none" /\ Unused.wait = "none"
      /\ Unused.stamped = 0 /\ Unused.result = "none"
  BY DEF Unused, Box
<1>2. /\ foreign \in Box /\ foreign.role = "foreign" /\ foreign.wait = "none"
      /\ foreign.stamped = 0 /\ foreign.result = "none"
  BY <1>1 DEF Box
<1> HIDE DEF foreign
<1>3. /\ box \in [Ids -> Box] /\ \A i \in Ids : box[i] \in {Unused, foreign}
  BY <1>1, <1>2 DEF Init, foreign
<1>4. sweep \in [asked : {"off", "all", "run"}, scope : Nat, todo : SUBSET Ids] /\ sweep.todo = {}
  BY DEF Init, NoSweep
<1>5. Types
  <2>1. remote \in BOOLEAN
    BY DEF Init
  <2> QED
    BY <1>3, <1>4, <2>1 DEF Init, Types, Phases
<1>6. Labelled /\ CleanExit /\ AcceptsOwnExit /\ Matched
  BY <1>1, <1>2, <1>3, <1>4 DEF Init, Labelled, CleanExit, AcceptsOwnExit, Matched
<1>7. Held
  BY <1>1, <1>2, <1>3 DEF Init, Held, HoldsAll, Running
<1> QED
  BY <1>5, <1>6, <1>7 DEF IInv

\* Every step preserves it.
LEMMA StepIInv == IInv /\ [Next]_vars => IInv'
<1> SUFFICES ASSUME IInv, [Next]_vars PROVE IInv'
  OBVIOUS
<1>1. box' \in [Ids -> Box] /\ Labelled' /\ CleanExit'
  BY StepEvolves, EvolutionKeeps DEF IInv
<1>2. AcceptsOwnExit' /\ accepted' \subseteq Ids
  BY AcceptsKeep
<1>3. /\ Matched' /\ reaped' \subseteq Ids \X Nat
      /\ sweep' \in [asked : {"off", "all", "run"}, scope : Nat, todo : SUBSET Ids]
  BY SweepKeeps
<1>4. /\ phase' \in Phases /\ run' \in Nat /\ verifier' \in Ids \cup {0} /\ worker' \in Ids \cup {0}
      /\ remote' = remote /\ faults' \in Nat
  BY ControlTypes DEF IInv, Types
<1>5. remote' \in BOOLEAN
  BY <1>4 DEF IInv, Types
<1>6. Types'
  BY <1>1, <1>2, <1>3, <1>4, <1>5 DEF Types
<1> QED
  BY <1>1, <1>2, <1>3, <1>6, HeldKeeps DEF IInv

\* It holds of every reachable state.
LEMMA Invariance == Spec => []IInv
  BY InitIInv, StepIInv, PTL DEF Spec

-----------------------------------------------------------------------------
(* The theorems *)

\* Every accept rests on a container that ended by itself with exit code
\* zero, whatever the reaper, the timeouts and the faults did.
THEOREM AcceptsRestOnCleanExit == Spec => []AcceptsOwnExit
<1>1. IInv => AcceptsOwnExit
  BY DEF IInv
<1> QED
  BY <1>1, Invariance, PTL

\* A sweep never destroys a container that is not the harness's, nor, when
\* asked for one run, one of another run.
THEOREM ReaperStaysInScope == Spec => []ReapsOnlyItsOwn
<1>1. IInv => ReapsOnlyItsOwn
  BY DEF IInv, Matched, OfSweep, ReapsOnlyItsOwn
<1> QED
  BY <1>1, Invariance, PTL

\* Without a fault or a sweep that hit something, nothing of the harness runs
\* between two runs.
THEOREM NothingSurvives == Spec => []CleanUnlessFault
<1>1. IInv => CleanUnlessFault
  <2> SUFFICES ASSUME IInv, phase = "idle", faults = 0, reaped = {}, NEW i \in Ids, Running(i)
               PROVE  box[i].role = "foreign"
    BY DEF CleanUnlessFault
  <2>1. HoldsAll
    BY DEF IInv, Held, Quiet
  <2>2. i # 0
    BY DEF Running
  <2> QED
    BY <2>1, <2>2 DEF HoldsAll
<1> QED
  BY <1>1, Invariance, PTL

=============================================================================
