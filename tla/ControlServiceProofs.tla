------------------------ MODULE ControlServiceProofs ------------------------
(***************************************************************************)
(* TLAPS proofs about ControlService, for any sets of tasks and runs and   *)
(* any number of restarts.                                                 *)
(*                                                                         *)
(* Which id a run body executes under is decided by a cell that later      *)
(* submissions overwrite.  The argument is about the queue: the run in the *)
(* cell of a task waits no earlier than any other waiting run of that      *)
(* task, so when a body starts, the id it reads is its own or that of a    *)
(* run that still waits, and in the second case the two raced.             *)
(***************************************************************************)
EXTENDS ControlService, TLAPS

USE ServiceAssumption

Types ==
    /\ cell \in [Task -> Run \cup {NoRun}]
    /\ runTask \in [Run -> Task \cup {NoTask}]
    /\ job \in [Run -> JobState]
    /\ records \in [Run -> RunRecord]
    /\ waiting \in Seq(Run)
    /\ holder \in Run \cup {NoRun} /\ acting \in Run \cup {NoRun}
    /\ issued \subseteq Run /\ restarts \in Nat

\* A run id that was not handed out is unknown: it has no task and no record.
Unissued == \A r \in Run \ issued : /\ job[r] = "unknown" /\ runTask[r] = NoTask
                                    /\ records[r] = NoRecord

\* No job is left queued, and a record is missing or tells how a run ended.
Settled == \A r \in Run : /\ job[r] # "queued"
                          /\ records[r] = NoRecord \/ records[r].status # "none"

\* A waiting run is claimed, belongs to a task, waits once, and does not hold
\* the lock.
QueueSound ==
    /\ \A i \in DOMAIN waiting : /\ job[waiting[i]] = "claimed" /\ runTask[waiting[i]] \in Task
                                 /\ waiting[i] # holder
    /\ \A i, j \in DOMAIN waiting : waiting[i] = waiting[j] => i = j

\* The cell of a waiting run's task names a run that waits no earlier ...
CellIsLast ==
    \A i \in DOMAIN waiting :
        \E j \in DOMAIN waiting : i <= j /\ cell[runTask[waiting[i]]] = waiting[j]

\* ... and is a run of that task.
CellOfTask == \A t \in Task : cell[t] # NoRun => runTask[cell[t]] = t

\* Two runs of one task that wait together raced.
WaitTogether ==
    \A i, j \in DOMAIN waiting :
        i # j /\ runTask[waiting[i]] = runTask[waiting[j]] => waiting[i] \in raced

\* The body that runs executes under its own id, or under that of a run that
\* still waits, and then both raced.
LockSound ==
    holder # NoRun =>
        /\ job[holder] = "claimed"
        /\ acting # holder => /\ holder \in raced /\ acting \in raced
                              /\ \E i \in DOMAIN waiting : waiting[i] = acting

\* What is recorded under the id of a run that did not race reports that run.
RecordsOwn == \A r \in Run \ raced : records[r] # NoRecord => records[r].of = r

\* A finished run that did not race, and every failed one, has a record.
Reported == \A r \in Run : \/ job[r] = "failed"
                           \/ job[r] = "done" /\ r \notin raced
                           => records[r] # NoRecord

QueueInv == QueueSound /\ CellIsLast /\ CellOfTask /\ WaitTogether /\ LockSound
RecordInv == Unissued /\ Settled /\ RecordsOwn /\ Reported

IInv == Types /\ QueueInv /\ RecordInv

-----------------------------------------------------------------------------
(* The parts of a step *)

\* A step that touches neither the queue nor a record.
LEMMA SameInv ==
    ASSUME IInv,
           UNCHANGED <<cell, runTask, job, records, waiting, holder, acting, issued, raced, restarts>>
    PROVE  IInv'
<1>1. Types'
  BY DEF IInv, Types
<1>2. QueueInv'
  BY DEF IInv, QueueInv, QueueSound, CellIsLast, CellOfTask, WaitTogether, LockSound
<1>3. RecordInv'
  BY DEF IInv, RecordInv, Unissued, Settled, RecordsOwn, Reported
<1> QED
  BY <1>1, <1>2, <1>3 DEF IInv

\* A missing record is not one of the two that report an end.
LEMMA NoRecordIsMissing ==
    NoRecord \in RunRecord /\ NoRecord.status = "none" /\ NoRecord.of = NoRun
  BY DEF NoRecord, RunRecord

\* Submitting a run: the new run waits last, its task's cell names it, and it
\* raced with whatever run of the task is waiting.
LEMMA SubmitInv ==
    ASSUME IInv, NEW t \in Task, NEW r \in Run, SubmitRun(t, r)
    PROVE  IInv'
<1> USE DEF IInv, Types
<1>1. /\ r \notin issued /\ issued' = issued \cup {r} /\ raced' = raced \cup RacesWith(t, r)
      /\ cell' = [cell EXCEPT ![t] = r] /\ runTask' = [runTask EXCEPT ![r] = t]
      /\ job' = claim(enqueue(job, r)) /\ waiting' = Append(waiting, r)
      /\ UNCHANGED <<records, holder, acting, restarts>>
  BY DEF SubmitRun, set_run_id
<1>2. job[r] = "unknown" /\ runTask[r] = NoTask /\ records[r] = NoRecord
  BY <1>1 DEF RecordInv, Unissued
<1>3. /\ job' \in [Run -> JobState] /\ job'[r] = "claimed"
      /\ \A q \in Run : q # r => job'[q] = job[q]
  BY <1>1 DEF claim, enqueue, RecordInv, Settled, JobState
<1>4. /\ \A i \in DOMAIN waiting : waiting[i] \in Run /\ waiting[i] # r
      /\ holder # r
  <2>1. \A i \in DOMAIN waiting : waiting[i] \in Run
    OBVIOUS
  <2> QED
    BY <1>2, <2>1 DEF QueueInv, QueueSound, LockSound
<1>5. /\ DOMAIN waiting' = DOMAIN waiting \cup {Len(waiting) + 1}
      /\ Len(waiting) \in Nat /\ DOMAIN waiting = 1 .. Len(waiting)
      /\ waiting'[Len(waiting) + 1] = r
      /\ \A i \in DOMAIN waiting : waiting'[i] = waiting[i]
  <2>1. /\ waiting \in Seq(Run) /\ waiting' = Append(waiting, r)
    BY <1>1
  <2>2. /\ Len(waiting) \in Nat /\ DOMAIN waiting = 1 .. Len(waiting)
        /\ DOMAIN waiting' = 1 .. Len(waiting) + 1 /\ waiting'[Len(waiting) + 1] = r
    BY <2>1
  <2>3. \A i \in 1 .. Len(waiting) : waiting'[i] = waiting[i]
    BY <2>1
  <2> QED
    BY <2>2, <2>3
<1>6. Types'
  <2>1. waiting' \in Seq(Run)
    BY <1>1
  <2>2. cell' \in [Task -> Run \cup {NoRun}] /\ runTask' \in [Run -> Task \cup {NoTask}]
    BY <1>1
  <2>3. records' \in [Run -> RunRecord] /\ issued' \subseteq Run /\ restarts' \in Nat
    BY <1>1
  <2> QED
    BY <1>1, <1>3, <2>1, <2>2, <2>3
<1>7. QueueSound'
  <2>1. \A i \in DOMAIN waiting' :
           job'[waiting'[i]] = "claimed" /\ runTask'[waiting'[i]] \in Task /\ waiting'[i] # holder'
    BY <1>1, <1>3, <1>4, <1>5 DEF QueueInv, QueueSound
  <2>2. \A i, j \in DOMAIN waiting' : waiting'[i] = waiting'[j] => i = j
    BY <1>4, <1>5 DEF QueueInv, QueueSound
  <2> QED
    BY <2>1, <2>2 DEF QueueSound
<1>8. \A i \in DOMAIN waiting : runTask'[waiting'[i]] = runTask[waiting[i]]
  BY <1>1, <1>4, <1>5
<1>9. CellIsLast'
  <2> SUFFICES ASSUME NEW i \in DOMAIN waiting'
               PROVE  \E j \in DOMAIN waiting' : i <= j /\ cell'[runTask'[waiting'[i]]] = waiting'[j]
    BY DEF CellIsLast
  <2>1. CASE runTask'[waiting'[i]] = t
    <3>1. cell'[t] = waiting'[Len(waiting) + 1] /\ i <= Len(waiting) + 1
      BY <1>1, <1>5
    <3> QED
      BY <1>5, <2>1, <3>1
  <2>2. CASE runTask'[waiting'[i]] # t
    <3>1. i \in DOMAIN waiting
      BY <1>1, <1>5, <2>2
    <3>2. runTask[waiting[i]] \in Task /\ runTask[waiting[i]] # t
      BY <1>8, <2>2, <3>1 DEF QueueInv, QueueSound
    <3>3. PICK j \in DOMAIN waiting : i <= j /\ cell[runTask[waiting[i]]] = waiting[j]
      BY <3>1 DEF QueueInv, CellIsLast
    <3>4. cell'[runTask'[waiting'[i]]] = waiting'[j] /\ j \in DOMAIN waiting'
      BY <1>1, <1>5, <1>8, <3>1, <3>2, <3>3
    <3> QED
      BY <3>3, <3>4
  <2> QED
    BY <2>1, <2>2
<1>10. CellOfTask'
  <2> SUFFICES ASSUME NEW u \in Task, cell'[u] # NoRun PROVE runTask'[cell'[u]] = u
    BY DEF CellOfTask
  <2>1. CASE u = t
    BY <1>1, <2>1
  <2>2. CASE u # t
    <3>1. cell'[u] = cell[u] /\ runTask[cell[u]] = u
      BY <1>1, <2>2 DEF QueueInv, CellOfTask
    <3>2. cell[u] # r
      BY <1>2, <3>1
    <3> QED
      BY <1>1, <3>1, <3>2
  <2> QED
    BY <2>1, <2>2
<1>11. WaitTogether'
  <2> SUFFICES ASSUME NEW i \in DOMAIN waiting', NEW j \in DOMAIN waiting', i # j,
                      runTask'[waiting'[i]] = runTask'[waiting'[j]]
               PROVE  waiting'[i] \in raced'
    BY DEF WaitTogether
  <2>1. CASE i \in DOMAIN waiting /\ j \in DOMAIN waiting
    BY <1>1, <1>5, <1>8, <2>1 DEF QueueInv, WaitTogether
  <2>2. CASE i \notin DOMAIN waiting \/ j \notin DOMAIN waiting
    <3>1. PICK k \in {i, j} : k \in DOMAIN waiting
      BY <1>5
    <3>2. runTask[waiting[k]] = t /\ waiting[k] \in Run /\ Waits(waiting[k])
      <4>1. runTask'[r] = t
        BY <1>1
      <4>2. runTask'[waiting'[k]] = t
        BY <1>5, <2>2, <3>1, <4>1
      <4> QED
        BY <1>4, <1>8, <3>1, <4>2 DEF Waits
    <3>3. waiting[k] \in RacesWith(t, r) /\ r \in RacesWith(t, r)
      BY <3>2 DEF RacesWith
    <3>4. waiting'[i] \in {waiting[k], r}
      BY <1>5, <2>2, <3>1
    <3> QED
      BY <1>1, <3>3, <3>4
  <2> QED
    BY <2>1, <2>2
<1>12. LockSound'
  <2> SUFFICES ASSUME holder # NoRun
               PROVE  /\ job'[holder] = "claimed"
                      /\ acting # holder => /\ holder \in raced' /\ acting \in raced'
                                            /\ \E i \in DOMAIN waiting' : waiting'[i] = acting
    BY <1>1 DEF LockSound
  <2>1. job'[holder] = "claimed"
    BY <1>3, <1>4 DEF QueueInv, LockSound
  <2>2. ASSUME acting # holder
        PROVE  /\ holder \in raced' /\ acting \in raced'
               /\ \E i \in DOMAIN waiting' : waiting'[i] = acting
    BY <1>1, <1>5, <2>2 DEF QueueInv, LockSound
  <2> QED
    BY <2>1, <2>2
<1>13. RecordInv'
  <2>1. Unissued'
    BY <1>1, <1>3 DEF RecordInv, Unissued
  <2>2. Settled'
    BY <1>1, <1>3 DEF RecordInv, Settled
  <2>3. RecordsOwn'
    BY <1>1 DEF RecordInv, RecordsOwn
  <2>4. Reported'
    BY <1>1, <1>3 DEF RecordInv, Reported
  <2> QED
    BY <2>1, <2>2, <2>3, <2>4 DEF RecordInv
<1> QED
  BY <1>6, <1>7, <1>9, <1>10, <1>11, <1>12, <1>13 DEF QueueInv

\* Starting a body: the id it reads is its own, or that of a run behind it.
LEMMA StartInv ==
    ASSUME IInv, StartBody
    PROVE  IInv'
<1> USE DEF IInv, Types
<1>1. /\ holder = NoRun /\ waiting # << >>
      /\ holder' = waiting[1] /\ acting' = cell[runTask[waiting[1]]] /\ waiting' = Tail(waiting)
      /\ UNCHANGED <<cell, runTask, job, records, issued, raced, restarts>>
  BY DEF StartBody, ghosts
<1>2. /\ Len(waiting) \in Nat \ {0} /\ DOMAIN waiting = 1 .. Len(waiting)
      /\ DOMAIN waiting' = 1 .. Len(waiting) - 1 /\ waiting' \in Seq(Run)
      /\ \A i \in DOMAIN waiting' : i + 1 \in DOMAIN waiting /\ waiting'[i] = waiting[i + 1]
      /\ 1 \in DOMAIN waiting /\ \A i \in DOMAIN waiting : waiting[i] \in Run
  BY <1>1
<1>3. /\ job[waiting[1]] = "claimed" /\ runTask[waiting[1]] \in Task
  BY <1>2 DEF QueueInv, QueueSound
<1>4. PICK last \in DOMAIN waiting : acting' = waiting[last]
  BY <1>1, <1>2 DEF QueueInv, CellIsLast
<1>5. Types'
  BY <1>1, <1>2, <1>4
<1>6. QueueSound'
  <2>1. \A i \in DOMAIN waiting' :
           job'[waiting'[i]] = "claimed" /\ runTask'[waiting'[i]] \in Task
    BY <1>1, <1>2 DEF QueueInv, QueueSound
  <2>2. \A i \in DOMAIN waiting' : waiting'[i] # holder'
    <3> TAKE i \in DOMAIN waiting'
    <3>1. i + 1 # 1
      BY <1>2
    <3> QED
      BY <1>1, <1>2, <3>1 DEF QueueInv, QueueSound
  <2>3. \A i, j \in DOMAIN waiting' : waiting'[i] = waiting'[j] => i = j
    <3> TAKE i, j \in DOMAIN waiting'
    <3>1. waiting'[i] = waiting'[j] => i + 1 = j + 1
      BY <1>2 DEF QueueInv, QueueSound
    <3> QED
      BY <1>2, <3>1
  <2> QED
    BY <2>1, <2>2, <2>3 DEF QueueSound
<1>7. CellIsLast'
  <2> SUFFICES ASSUME NEW i \in DOMAIN waiting'
               PROVE  \E j \in DOMAIN waiting' : i <= j /\ cell[runTask[waiting'[i]]] = waiting'[j]
    BY <1>1 DEF CellIsLast
  <2>1. PICK j \in DOMAIN waiting : i + 1 <= j /\ cell[runTask[waiting[i + 1]]] = waiting[j]
    BY <1>2 DEF QueueInv, CellIsLast
  <2>2. j - 1 \in DOMAIN waiting' /\ i <= j - 1 /\ waiting'[j - 1] = waiting[j]
    BY <1>2, <2>1
  <2> QED
    BY <1>2, <2>1, <2>2
<1>8. CellOfTask'
  BY <1>1 DEF QueueInv, CellOfTask
<1>9. WaitTogether'
  <2> SUFFICES ASSUME NEW i \in DOMAIN waiting', NEW j \in DOMAIN waiting', i # j,
                      runTask[waiting'[i]] = runTask[waiting'[j]]
               PROVE  waiting'[i] \in raced
    BY <1>1 DEF WaitTogether
  <2>1. i + 1 # j + 1
    BY <1>2
  <2> QED
    BY <1>2, <2>1 DEF QueueInv, WaitTogether
<1>10. LockSound'
  <2>1. ASSUME acting' # holder'
        PROVE  /\ holder' \in raced /\ acting' \in raced
               /\ \E i \in DOMAIN waiting' : waiting'[i] = acting'
    <3>1. last # 1
      BY <1>1, <1>4, <2>1
    <3>2. runTask[waiting[last]] = runTask[waiting[1]]
      <4> DEFINE t == runTask[waiting[1]]
      <4>1. t \in Task /\ cell[t] = waiting[last] /\ waiting[last] # NoRun
        BY <1>1, <1>2, <1>3, <1>4
      <4>2. runTask[cell[t]] = t
        BY <4>1 DEF QueueInv, CellOfTask
      <4> QED
        BY <4>1, <4>2
    <3>3. waiting[1] \in raced /\ waiting[last] \in raced
      BY <1>2, <1>4, <3>1, <3>2 DEF QueueInv, WaitTogether
    <3>4. last - 1 \in DOMAIN waiting' /\ waiting'[last - 1] = waiting[last]
      BY <1>2, <1>4, <3>1
    <3> QED
      BY <1>1, <1>4, <3>3, <3>4
  <2> QED
    BY <1>1, <1>3, <2>1 DEF LockSound
<1>11. RecordInv'
  BY <1>1 DEF RecordInv, Unissued, Settled, RecordsOwn, Reported
<1> QED
  BY <1>5, <1>6, <1>7, <1>8, <1>9, <1>10, <1>11 DEF QueueInv

\* The end of a body: the lock is free, the queue is as it was, and only the
\* job of the body that held it has changed.
LEMMA ReleaseKeepsQueue ==
    ASSUME IInv, release, UNCHANGED <<cell, runTask, waiting, issued, raced, restarts>>,
           holder # NoRun, NEW s \in {"claimed", "done", "failed"}, job' = [job EXCEPT ![holder] = s],
           records' \in [Run -> RunRecord]
    PROVE  Types' /\ QueueInv'
<1> USE DEF IInv, Types, release
<1>1. holder \in Run /\ s \in JobState
  BY DEF JobState
<1>2. Types'
  BY <1>1
<1>3. \A i \in DOMAIN waiting : waiting[i] \in Run /\ waiting[i] # holder
  BY DEF QueueInv, QueueSound
<1>4. \A i \in DOMAIN waiting : waiting[i] # NoRun /\ job'[waiting[i]] = job[waiting[i]]
  BY <1>1, <1>3
<1>5. QueueSound'
  BY <1>4 DEF QueueInv, QueueSound
<1>6. CellIsLast' /\ CellOfTask' /\ WaitTogether' /\ LockSound'
  BY DEF QueueInv, CellIsLast, CellOfTask, WaitTogether, LockSound
<1> QED
  BY <1>2, <1>5, <1>6 DEF QueueInv

\* What the end of a body writes: a record of the body under the id it acts
\* under, its own, or both.  No other record changes.
Writes(recs) ==
    /\ recs \in [Run -> RunRecord]
    /\ \A r \in Run : \/ recs[r] = records[r]
                      \/ /\ r \in {holder, acting}
                         /\ recs[r].status # "none" /\ recs[r].of = holder

\* The record written defensively is one of those, and leaves none missing.
LEMMA DefensiveWrites ==
    ASSUME Types, holder # NoRun, NEW recs, Writes(recs)
    PROVE  Writes(record_defensively(recs)) /\ record_defensively(recs)[holder] # NoRecord
<1> USE DEF Types, Writes
<1>1. holder \in Run /\ Record("aborted") \in RunRecord /\ Record("aborted") # NoRecord
      /\ Record("aborted").status = "aborted" /\ Record("aborted").of = holder
  BY NoRecordIsMissing DEF Record, RunRecord
<1>2. CASE recs[holder] = NoRecord
  BY <1>1, <1>2 DEF record_defensively, put
<1>3. CASE recs[holder] # NoRecord
  BY <1>1, <1>3 DEF record_defensively
<1> QED
  BY <1>2, <1>3

\* The record cp.run itself writes, under the id it acts under.
LEMMA OwnWrites ==
    ASSUME IInv, holder # NoRun, NEW s \in {"complete", "aborted"}
    PROVE  /\ Writes(put(records, acting, Record(s)))
           /\ holder \notin raced => put(records, acting, Record(s))[holder] # NoRecord
<1>1. /\ Record(s) \in RunRecord /\ Record(s).status # "none" /\ Record(s).of = holder
      /\ Record(s) # NoRecord
  BY NoRecordIsMissing DEF Record, RunRecord, IInv, Types
<1>2. acting \in Run /\ holder \in Run
  BY DEF IInv, Types, QueueInv, LockSound
<1>3. holder \notin raced => acting = holder
  BY DEF IInv, QueueInv, LockSound
<1> QED
  BY <1>1, <1>2, <1>3 DEF Writes, put, IInv, Types

\* The end of a body preserves the invariant: what it writes concerns the
\* body itself or a run it raced with, neither of which had finished.
LEMMA EndInv ==
    ASSUME IInv, holder # NoRun, release, Writes(records'),
           UNCHANGED <<cell, runTask, waiting, issued, raced, restarts>>,
           NEW s \in {"claimed", "done", "failed"}, job' = [job EXCEPT ![holder] = s],
           s = "failed" \/ (s = "done" /\ holder \notin raced) => records'[holder] # NoRecord
    PROVE  IInv'
<1>1. Types' /\ QueueInv'
  BY ReleaseKeepsQueue DEF Writes
<1> USE DEF IInv, Types
<1>2. holder \in Run /\ job'[holder] = s /\ \A r \in Run : r # holder => job'[r] = job[r]
  OBVIOUS
<1>3. acting \in Run /\ job[holder] = "claimed" /\ job[acting] = "claimed"
  BY DEF QueueInv, QueueSound, LockSound
<1>4. holder \in issued /\ acting \in issued
  BY <1>2, <1>3 DEF RecordInv, Unissued
<1>5. Unissued'
  BY <1>2, <1>4 DEF Writes, RecordInv, Unissued
<1>6. Settled'
  BY <1>2 DEF Writes, RecordInv, Settled
<1>7. RecordsOwn'
  BY DEF Writes, RecordInv, RecordsOwn, QueueInv, LockSound
<1>8. Reported'
  BY <1>2, NoRecordIsMissing DEF Writes, RecordInv, Reported
<1> QED
  BY <1>1, <1>5, <1>6, <1>7, <1>8 DEF RecordInv

\* After a restart nothing is known of any run.
LEMMA RestartInv ==
    ASSUME IInv, Restart
    PROVE  IInv'
<1>1. /\ cell' = [t \in Task |-> NoRun] /\ runTask' = [r \in Run |-> NoTask]
      /\ job' = [r \in Run |-> "unknown"] /\ records' = [r \in Run |-> NoRecord]
      /\ waiting' = << >> /\ holder' = NoRun /\ acting' = NoRun /\ issued' = issued /\ raced' = raced
      /\ restarts' = restarts + 1
  BY DEF Restart, ghosts
<1>2. Types'
  BY <1>1, NoRecordIsMissing DEF IInv, Types, JobState
<1>3. QueueInv'
  BY <1>1 DEF QueueInv, QueueSound, CellIsLast, CellOfTask, WaitTogether, LockSound
<1>4. RecordInv'
  BY <1>1 DEF RecordInv, Unissued, Settled, RecordsOwn, Reported
<1> QED
  BY <1>2, <1>3, <1>4 DEF IInv

-----------------------------------------------------------------------------
(* The inductive invariant *)

\* Initially no run is known.
LEMMA InitIInv == Init => IInv
<1> SUFFICES ASSUME Init PROVE IInv
  OBVIOUS
<1>1. Types
  BY NoRecordIsMissing DEF Init, Types, JobState
<1>2. QueueInv
  BY DEF Init, QueueInv, QueueSound, CellIsLast, CellOfTask, WaitTogether, LockSound
<1>3. RecordInv
  BY DEF Init, RecordInv, Unissued, Settled, RecordsOwn, Reported
<1> QED
  BY <1>1, <1>2, <1>3 DEF IInv

\* The four ends of a body, as one kind of step.
LEMMA FinishWrites ==
    ASSUME IInv, Finish
    PROVE  /\ holder # NoRun /\ release /\ Writes(records')
           /\ UNCHANGED <<cell, runTask, waiting, issued, raced, restarts>>
           /\ \E s \in {"claimed", "done", "failed"} :
                 /\ job' = [job EXCEPT ![holder] = s]
                 /\ s = "failed" \/ (s = "done" /\ holder \notin raced) => records'[holder] # NoRecord
<1> USE DEF ghosts, Fail, fail, complete
<1>1. Writes(records)
  BY DEF Writes, IInv, Types
<1>2. CASE RunCompletes
  BY <1>2, OwnWrites DEF RunCompletes
<1>3. CASE RunAborts
  <2>1. Writes(put(records, acting, Record("aborted")))
    BY <1>3, OwnWrites DEF RunAborts
  <2>2. Writes(records') /\ records'[holder] # NoRecord
    BY <1>3, <2>1, DefensiveWrites DEF RunAborts, IInv
  <2> QED
    BY <1>3, <2>2 DEF RunAborts
<1>4. CASE RunRaises
  <2>1. Writes(records') /\ records'[holder] # NoRecord
    BY <1>1, <1>4, DefensiveWrites DEF RunRaises, IInv
  <2> QED
    BY <1>4, <2>1 DEF RunRaises
<1>5. CASE ReportRaises
  <2>1. job[holder] = "claimed"
    BY <1>5 DEF ReportRaises, IInv, QueueInv, LockSound
  <2>2. job' = [job EXCEPT ![holder] = "claimed"]
    BY <1>5, <2>1 DEF ReportRaises, IInv, Types
  <2>3. Writes(records')
    BY <1>1, <1>5, OwnWrites DEF ReportRaises
  <2> QED
    BY <1>5, <2>2, <2>3 DEF ReportRaises
<1> QED
  BY <1>2, <1>3, <1>4, <1>5 DEF Finish

\* Every step preserves it.
LEMMA StepIInv == IInv /\ [Next]_vars => IInv'
<1> SUFFICES ASSUME IInv, [Next]_vars PROVE IInv'
  OBVIOUS
<1>1. CASE \E t \in Task : CreateTask(t) \/ BuildFails(t) \/ ReadTask(t)
  BY <1>1, SameInv DEF CreateTask, BuildFails, ReadTask, memory, ghosts
<1>2. CASE \E t \in Task, r \in Run : SubmitRun(t, r)
  BY <1>2, SubmitInv
<1>3. CASE StartBody
  BY <1>3, StartInv
<1>4. CASE Finish
  BY <1>4, FinishWrites, EndInv
<1>5. CASE Restart
  BY <1>5, RestartInv
<1>6. CASE UNCHANGED vars
  BY <1>6, SameInv DEF vars, memory, ghosts
<1> QED
  BY <1>1, <1>2, <1>3, <1>4, <1>5, <1>6 DEF Next

\* It holds of every reachable state.
LEMMA Invariance == Spec => []IInv
  BY InitIInv, StepIInv, PTL DEF Spec

-----------------------------------------------------------------------------
(* The theorems *)

\* A finished run that did not race has a record of itself under its own id,
\* and every failed run has a record, raced or not.
THEOREM RecordsAreOwn == Spec => []OwnRecord
<1>1. IInv => OwnRecord
  BY DEF IInv, RecordInv, RecordsOwn, Reported, Settled, OwnRecord
<1> QED
  BY <1>1, Invariance, PTL

\* No step but a restart changes the record of a finished run: a body writes
\* under its own id or under that of a run that still waits.
THEOREM RecordsStay == Spec => RecordsFinal
<1>1. ASSUME IInv, [Next]_vars, restarts' = restarts,
             NEW r \in Run, job[r] \in {"done", "failed"}
      PROVE  records'[r] = records[r]
  <2>1. CASE Finish
    <3>1. Writes(records') /\ holder # NoRun
      BY <1>1, <2>1, FinishWrites
    <3>2. job[holder] = "claimed" /\ job[acting] = "claimed"
      BY <1>1, <3>1 DEF IInv, QueueInv, QueueSound, LockSound
    <3> QED
      BY <1>1, <3>1, <3>2 DEF Writes
  <2>2. CASE Restart
    <3>1. restarts' = restarts + 1 /\ restarts < MaxRestarts
      BY <2>2 DEF Restart
    <3> QED
      BY <1>1, <3>1 DEF IInv, Types
  <2>3. CASE ~Finish /\ ~Restart
    <3>1. UNCHANGED records
      BY <1>1, <2>3 DEF Next, vars, memory, CreateTask, BuildFails, ReadTask, SubmitRun, StartBody
    <3> QED
      BY <3>1
  <2> QED
    BY <2>1, <2>2, <2>3
<1>2. IInv /\ [Next]_vars =>
         (restarts' = restarts =>
             \A r \in Run : job[r] \in {"done", "failed"} => records'[r] = records[r])
  BY <1>1
<1> QED
  BY <1>2, Invariance, PTL DEF Spec, RecordsFinal

=============================================================================
