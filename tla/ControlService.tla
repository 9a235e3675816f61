--------------------------- MODULE ControlService ---------------------------
(***************************************************************************)
(* The standing service of service/control_service.py: durable task        *)
(* definitions, control planes built lazily and kept resident, and runs    *)
(* that execute as background tasks behind one run lock.                   *)
(*                                                                         *)
(* The event loop interleaves at awaits that really suspend. Building a    *)
(* control plane and the in-process job queue never do, so submit_run is   *)
(* one step; a run body waits for the lock, then runs for a while, and     *)
(* anything may be submitted or read meanwhile. What happens inside a run  *)
(* is RunLoop's; here a run completes, is aborted at its failure cap, or   *)
(* raises.                                                                 *)
(***************************************************************************)
EXTENDS Naturals, Sequences, FiniteSets

CONSTANTS Task,         \* daemon task ids
          Run,          \* run ids the service mints
          NoTask, NoRun,
          Faults,       \* what may fail, out of FaultKind
          MaxRestarts   \* bound on daemon restarts

FaultKind == {"build",    \* a step of a task builder after the root is in the store
              "report"}   \* the store-derived report of a run that raised

ASSUME ServiceAssumption ==
    /\ NoTask \notin Task /\ NoRun \notin Run
    /\ Faults \subseteq FaultKind
    /\ MaxRestarts \in Nat

VARIABLES
    \* on disk
    created,    \* tasks with a request.json (TaskIndex)
    seeded,     \* tasks whose store holds the root artifact of the builder
    \* in the daemon's memory
    resident,   \* tasks with a built control plane
    cell,       \* [Task -> Run \cup {NoRun}]: _RunIdCell of the resident task
    runTask,    \* [Run -> Task \cup {NoTask}]: _run_tasks
    job,        \* [Run -> JobState]: the job queue, by run id
    records,    \* [Run -> RunRecord]: the daemon-level RunRecordStore
    waiting,    \* run bodies waiting for the run lock, in order
    holder,     \* the run whose body holds it
    acting,     \* the run id that body's control plane minted at its start
    \* bookkeeping
    issued,     \* run ids ever returned to a client
    raced,      \* runs submitted while another of their task still waited, and those
    lost,       \* runs whose outcome could not be reported
    restarts

disk == <<created, seeded>>
memory == <<resident, cell, runTask, job, records, waiting, holder, acting>>
ghosts == <<issued, raced, lost>>
vars == <<disk, memory, ghosts, restarts>>

-----------------------------------------------------------------------------
(* Types *)

\* A job is "queued" only inside submit_run, which enqueues and claims it.
JobState == {"unknown", "queued", "claimed", "done", "failed"}

\* A record, by the run whose execution it reports; "none" is a missing one.
RunRecord == [status : {"none", "complete", "aborted"}, of : Run \cup {NoRun}]
NoRecord == [status |-> "none", of |-> NoRun]

\* The run bodies scheduled and not yet started.
Waits(r) == \E i \in DOMAIN waiting : waiting[i] = r

\* The runs of t that wait when r is submitted, and then r itself.
RacesWith(t, r) ==
    LET ahead == {q \in Run : runTask[q] = t /\ Waits(q)}
    IN  IF ahead = {} THEN {} ELSE ahead \cup {r}

\* RunRecordStore.put: the last record under an id stands.
put(recs, r, rec) == [recs EXCEPT ![r] = rec]

\* InProcessJobQueue. Claiming takes the oldest queued job, and there is never
\* more than the one just enqueued.
enqueue(jobs, r) == [jobs EXCEPT ![r] = "queued"]

claim(jobs) == [r \in Run |-> IF jobs[r] = "queued" THEN "claimed" ELSE jobs[r]]

complete(r) == job' = [job EXCEPT ![r] = "done"]

fail(r) == job' = [job EXCEPT ![r] = "failed"]

-----------------------------------------------------------------------------
(* Tasks *)

Init ==
    /\ created = {} /\ seeded = {} /\ resident = {}
    /\ cell = [t \in Task |-> NoRun]
    /\ runTask = [r \in Run |-> NoTask]
    /\ job = [r \in Run |-> "unknown"]
    /\ records = [r \in Run |-> NoRecord]
    /\ waiting = << >> /\ holder = NoRun /\ acting = NoRun
    /\ issued = {} /\ raced = {} /\ lost = {} /\ restarts = 0

\* The input files go into the task's store, then the request is persisted;
\* no control plane is built yet.
CreateTask(t) ==
    /\ t \notin created
    /\ created' = created \cup {t}
    /\ UNCHANGED <<seeded, memory, ghosts, restarts>>

\* The catalog builder proposes the task's root artifact under a fixed id: it
\* succeeds on a store that has none.
buildable(t) == t \in created /\ t \notin seeded

\* _resident_cp: the cached control plane, or a new one.
resident_cp(t) ==
    \/ /\ t \in resident
       /\ UNCHANGED <<seeded, resident>>
    \/ /\ t \notin resident
       /\ buildable(t)
       /\ seeded' = seeded \cup {t}
       /\ resident' = resident \cup {t}

\* The builder raises: the request is unusable, the root id is already in use,
\* or a later step of it fails when the root is already in the store.
BuildFails(t) ==
    /\ t \in created \ resident
    /\ \/ UNCHANGED seeded
       \/ "build" \in Faults /\ buildable(t) /\ seeded' = seeded \cup {t}
    /\ UNCHANGED <<created, memory, ghosts, restarts>>

\* A read (run_report, accepted_artifacts) makes the task resident.
ReadTask(t) ==
    /\ resident_cp(t)
    /\ UNCHANGED <<created, cell, runTask, job, records, waiting, holder, acting,
                   ghosts, restarts>>

-----------------------------------------------------------------------------
(* Runs *)

\* Mutant: the cell is set when the control plane is built, not per run.
CellSetOnce(t, r) ==
    cell' = IF cell[t] = NoRun THEN [cell EXCEPT ![t] = r] ELSE cell

set_run_id(t, r) == cell' = [cell EXCEPT ![t] = r]

\* submit_run: the run id is minted, put in the task's cell, its job enqueued
\* and claimed, its body scheduled, and the id returned.
SubmitRun(t, r) ==
    /\ r \notin issued
    /\ resident_cp(t)
    /\ set_run_id(t, r)
    /\ job' = claim(enqueue(job, r))
    /\ runTask' = [runTask EXCEPT ![r] = t]
    /\ waiting' = Append(waiting, r)
    /\ issued' = issued \cup {r}
    /\ raced' = raced \cup RacesWith(t, r)
    /\ UNCHANGED <<created, records, holder, acting, lost, restarts>>

\* The oldest body gets the lock, and its control plane mints the id that the
\* cell holds now.
StartBody ==
    /\ holder = NoRun
    /\ waiting # << >>
    /\ holder' = Head(waiting)
    /\ acting' = cell[runTask[Head(waiting)]]
    /\ waiting' = Tail(waiting)
    /\ UNCHANGED <<disk, resident, cell, runTask, job, records, ghosts, restarts>>

\* Mutant: the lock outlives the run body.
KeepLock == UNCHANGED <<holder, acting>>

release == holder' = NoRun /\ acting' = NoRun

Record(s) == [status |-> s, of |-> holder]

\* cp.run returns: it recorded the run under the id it minted.
RunCompletes ==
    /\ holder # NoRun
    /\ records' = put(records, acting, Record("complete"))
    /\ complete(holder)
    /\ release
    /\ UNCHANGED <<disk, resident, cell, runTask, waiting, ghosts, restarts>>

\* Mutant: no record is written for a run that raised.
LeaveUnrecorded(recs) == recs

\* The handler's record of a run that has none.
record_defensively(recs) ==
    IF recs[holder] = NoRecord THEN put(recs, holder, Record("aborted")) ELSE recs

Fail ==
    /\ fail(holder)
    /\ release
    /\ UNCHANGED <<disk, resident, cell, runTask, waiting, ghosts, restarts>>

\* The failure cap: cp.run recorded "aborted" under the id it minted, and raised.
RunAborts ==
    /\ holder # NoRun
    /\ records' = record_defensively(put(records, acting, Record("aborted")))
    /\ Fail

\* cp.run raises without having recorded anything.
RunRaises ==
    /\ holder # NoRun
    /\ records' = record_defensively(records)
    /\ Fail

\* The report the handler wants to record of a run that has none raises in
\* turn: the body ends, the lock is released, and neither that record nor the
\* job's failure is written. An abort may have been recorded, under another id.
ReportRaises ==
    /\ "report" \in Faults
    /\ holder # NoRun
    /\ records' \in {records, put(records, acting, Record("aborted"))}
    /\ records'[holder] = NoRecord
    /\ release
    /\ lost' = lost \cup {holder}
    /\ UNCHANGED <<disk, resident, cell, runTask, job, waiting, issued, raced, restarts>>

\* The daemon stops and is started again on the same volume: what is in memory
\* is lost, the runs in flight with it.
Restart ==
    /\ restarts < MaxRestarts
    /\ restarts' = restarts + 1
    /\ resident' = {}
    /\ cell' = [t \in Task |-> NoRun]
    /\ runTask' = [r \in Run |-> NoTask]
    /\ job' = [r \in Run |-> "unknown"]
    /\ records' = [r \in Run |-> NoRecord]
    /\ waiting' = << >> /\ holder' = NoRun /\ acting' = NoRun
    /\ UNCHANGED <<disk, ghosts>>

Finish == RunCompletes \/ RunAborts \/ RunRaises \/ ReportRaises

Next ==
    \/ \E t \in Task : CreateTask(t) \/ BuildFails(t) \/ ReadTask(t)
    \/ \E t \in Task, r \in Run : SubmitRun(t, r)
    \/ StartBody \/ Finish \/ Restart

\* The event loop gets round to a body that can take the lock, and a run ends
\* (RunLoop's RunEnds). Nobody has to create, submit or read anything.
Fairness == WF_vars(StartBody) /\ WF_vars(Finish)

Spec == Init /\ [][Next]_vars /\ Fairness

-----------------------------------------------------------------------------
(* Properties *)

\* One id, one record: a run that finished has a record under its own id, and
\* it reports that very run, whatever ran before it on the same control plane.
\* The exception are runs that raced: when a task is submitted again while its
\* last run waits for the lock, that one executes under the later one's id, and
\* its record may be taken for the later one's; but even then a run that failed
\* has a record for its client to read.
OwnRecord ==
    /\ \A r \in Run \ raced : job[r] \in {"done", "failed"} =>
           records[r].status # "none" /\ records[r].of = r
    /\ \A r \in Run : job[r] = "failed" => records[r].status # "none"

\* The record a client reads of a finished run is final: no later run of the
\* task replaces it. (A restart forgets all of them.)
RecordsFinal ==
    [][restarts' = restarts =>
          \A r \in Run : job[r] \in {"done", "failed"} => records'[r] = records[r]]_vars

\* A submitted run is eventually done or failed, or forgotten by a restart:
\* however the runs before it ended, even those whose outcome could not be
\* written (the one case in which a job stays claimed), the lock is free again.
RunsFinish ==
    \A r \in Run : (job[r] = "claimed") ~> (job[r] # "claimed" \/ r \in lost)

==============================================================================
