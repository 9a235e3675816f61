--------------------------- MODULE RunLoopProofs ---------------------------
(***************************************************************************)
(* TLAPS proofs about RunLoop, for any cycle budget, failure cap, stop     *)
(* policy and number of runs, and for any set of faults unless a theorem   *)
(* names the one it excludes.                                              *)
(*                                                                         *)
(* The properties compare the history with counters, rows and reports      *)
(* written at other moments.  What makes them inductive is where a cycle   *)
(* stands in each phase (Place, Cycle), that the failure counter measures  *)
(* the failed cycles at the end of the history (Streak), what a commit     *)
(* that raised may have left on the connection (Cycle, RowsCovered), and   *)
(* what the tallies of a history become when a cycle is appended           *)
(* (AppendCount).                                                          *)
(***************************************************************************)
EXTENDS RunLoop, FiniteSetTheorems, TLAPS

USE RunLoopAssumption

Report ==
    [status : {"complete", "aborted"},
     summary : [cycles_run : Nat, outcomes : [Result -> Nat]]]

Types ==
    /\ phase \in Phase /\ runs \in 0 .. MaxRuns
    /\ cycle \in Nat /\ cycles \in Nat /\ failures \in Nat /\ start \in Nat
    /\ result \in Result /\ truth \in Truth /\ envelope \in Descriptor /\ outbox \in Descriptor
    /\ history \in Seq(Entry)
    /\ failureRows \in Nat /\ pendingRows \in Nat /\ pendingTruth \in Truth /\ unsure \in Nat
    /\ records \in [1 .. MaxRuns -> {NoReport} \cup Report]
    /\ outcome \in {"none", "running", "raised", "complete", "aborted"}

InBody == {"serve", "collect", "intake", "gate", "harvest", "regenerate", "record",
           "caught", "recordCaught"}

Active == InBody \cup {"provision", "loop", "decide"}

\* Where the run's counters stand against the history, phase by phase.
Place ==
    /\ start <= Len(history)
    /\ phase \in Active => outcome = "running" /\ runs > 0
    /\ phase = "provision" => cycles = 0 /\ failures = 0
    /\ phase \in {"provision", "loop"} => Len(history) = start + cycles /\ cycle = cycles
    /\ phase \in InBody => Len(history) = start + cycles /\ cycle = cycles + 1
    /\ phase = "decide" => /\ Len(history) = start + cycles + 1 /\ cycle = cycles + 1
                           /\ history[Len(history)].result = result
    /\ phase = "teardown" => runs > 0
    /\ phase = "teardown" /\ "sqlite" \notin Faults => Len(history) = start + cycle

\* How far the cycle in progress got and what it may have left pending; and,
\* while the fault that would part them is excluded, that its outcome is the
\* store's and its proposal its own.
Cycle ==
    /\ phase \in {"serve", "collect", "intake"} => truth = "nothing" /\ result = "none"
    /\ phase = "gate" => truth = "proposed" /\ result = "none"
    /\ phase = "harvest" => truth = "accepted" /\ result = "accepted"
    /\ phase \in {"regenerate", "record"} =>
           /\ result # "none" /\ (result = "accepted" <=> truth = "accepted")
           /\ result = "judged" => truth = "judged"
    /\ phase = "recordCaught" => result = "sandbox"
    /\ phase \in Active \ {"caught", "recordCaught"} => pendingTruth = "nothing"
    /\ "sqlite" \notin Faults => pendingTruth = "nothing"
    /\ "workspace" \notin Faults =>
           /\ phase \in {"caught", "recordCaught"} => truth # "accepted"
           /\ phase \notin {"intake", "gate", "harvest", "regenerate", "caught"} => outbox = "none"
           /\ phase = "intake" \/ truth # "nothing" => envelope = "own"
           /\ pendingTruth # "nothing" => envelope = "own"

\* The entries of a history that are in a set of entries.
Hits(h, M) == {i \in DOMAIN h : h[i] \in M}

OfResult(r) == {e \in Entry : e.result = r}

Failed == {e \in Entry : e.result \notin {"judged", "accepted"}}

\* The history is tallied by its outcomes.
Tallied ==
    /\ \A i \in DOMAIN history : history[i].result # "none"
    /\ Len(history) = Cardinality(Hits(history, OfResult("shape")))
                    + Cardinality(Hits(history, OfResult("sandbox")))
                    + Cardinality(Hits(history, OfResult("gate")))
                    + Cardinality(Hits(history, OfResult("judged")))
                    + Cardinality(Hits(history, OfResult("accepted")))

\* Its failures have rows, and the rows beside those had a commit that raised.
RowsCovered ==
    LET failed == Cardinality(Hits(history, Failed))
    IN  failed <= failureRows /\ failureRows + pendingRows <= failed + unsure

\* What the history says of a cycle against what the store holds of it: always,
\* and while the faults that part them are excluded.
Truthful ==
    \A i \in DOMAIN history :
        /\ history[i].result \in {"judged", "accepted"} => history[i].truth = history[i].result
        /\ "workspace" \notin Faults =>
               /\ history[i].truth # "nothing" => history[i].envelope = "own"
               /\ "sqlite" \notin Faults /\ history[i].truth = "accepted" => history[i].result = "accepted"

\* A report is that of the history as it was when its run ended.
Reports ==
    /\ \A r \in 1 .. MaxRuns : records[r] # NoReport =>
           LET s == records[r].summary
               o == s.outcomes
           IN  /\ s.cycles_run <= Len(history)
               /\ o["accepted"] = Cardinality({i \in 1 .. s.cycles_run : history[i].result = "accepted"})
               /\ s.cycles_run = o["shape"] + o["sandbox"] + o["gate"] + o["judged"] + o["accepted"]
    /\ \A r \in 1 .. MaxRuns :
           r > runs \/ (r = runs /\ phase \in Active) => records[r] = NoReport
    /\ phase = "teardown" /\ records[runs] # NoReport =>
           records[runs].summary.cycles_run = Len(history)

Fails(i) == failure(history[i].result)

\* The first n cycles of the history hold no FailureCap failures in a row of
\* this run, and the counter measures those they end with.
Streak(n) ==
    /\ failures <= n - start
    /\ \A j \in n - failures + 1 .. n : Fails(j)
    /\ failures < n - start => ~Fails(n - failures)
    /\ FailureCap > 0 =>
           /\ failures < FailureCap
           /\ \A i \in start + 1 .. n : i + FailureCap <= n + 1 =>
                  \E j \in i .. i + FailureCap - 1 : ~Fails(j)

Capped ==
    /\ phase \in Active => Streak(start + cycles)
    /\ FailureCap > 0 /\ outcome = "aborted" => FailedRow

IInv == Types /\ Place /\ Cycle /\ Tallied /\ RowsCovered /\ Truthful /\ Reports /\ Capped

-----------------------------------------------------------------------------
(* Tallies *)

\* The entries of a history in a set are finitely many.
LEMMA HitsFinite ==
    ASSUME NEW h \in Seq(Entry), NEW M
    PROVE  IsFiniteSet(Hits(h, M)) /\ Cardinality(Hits(h, M)) \in Nat
<1>1. IsFiniteSet(1 .. Len(h))
  BY FS_Interval
<1>2. Hits(h, M) \in SUBSET (1 .. Len(h))
  BY DEF Hits
<1> QED
  BY <1>1, <1>2, FS_Subset, FS_CardinalityType

\* What appending an entry does to a tally.
LEMMA AppendCount ==
    ASSUME NEW h \in Seq(Entry), NEW e \in Entry, NEW M
    PROVE  Cardinality(Hits(Append(h, e), M)) =
               IF e \in M THEN Cardinality(Hits(h, M)) + 1 ELSE Cardinality(Hits(h, M))
<1> DEFINE g == Append(h, e)
           n == Len(h) + 1
<1>1. DOMAIN g = 1 .. n /\ DOMAIN h = 1 .. Len(h) /\ g[n] = e /\ \A i \in 1 .. Len(h) : g[i] = h[i]
  OBVIOUS
<1>2. n \notin Hits(h, M)
  BY <1>1 DEF Hits
<1>3. CASE e \in M
  <2>1. Hits(g, M) = Hits(h, M) \cup {n}
    BY <1>1, <1>3 DEF Hits
  <2> QED
    BY <2>1, <1>2, <1>3, HitsFinite, FS_AddElement
<1>4. CASE e \notin M
  <2>1. Hits(g, M) = Hits(h, M)
    BY <1>1, <1>4 DEF Hits
  <2> QED
    BY <2>1, <1>4
<1> QED
  BY <1>3, <1>4

-----------------------------------------------------------------------------
(* What a step may change *)

\* Only recording a cycle touches the history.
LEMMA StepRecords ==
    ASSUME [Next]_vars
    PROVE  RecordCycle \/ UNCHANGED history
<1>1. CASE RecordCycle
  BY <1>1
<1>2. CASE Step /\ ~RecordCycle
  BY <1>2 DEF Step, InCycle, Provision, ProvisionFails, BeginCycle, ServeContext, ServeFails,
              CollectProposal, CollectFails, CollectRaises, ShapeError, Propose, ProposeFails,
              GateUnavailable, HarvestChildren, Regenerate, RegenerateFails, HandleFailure,
              RecordFails, Continue, Abort, StopAccepted, Complete, RecordRunFails, Teardown,
              CountCycle
<1>3. CASE StartRun \/ GateAnswers \/ Rest \/ UNCHANGED vars
  BY <1>3 DEF StartRun, GateAnswers, Judged, Accepted, CommitRaises, InCycle, Rest, vars
<1> QED
  BY <1>1, <1>2, <1>3 DEF Next

\* How a step other than recording a cycle may leave the connection: a commit
\* without a failure row, a rollback, or a commit in doubt, with a row or not.
Ends0 ==
    \/ UNCHANGED <<failureRows, pendingRows, unsure>>
    \/ commit(0) \/ rollback
    \/ \E n \in {0, 1}, t \in Truth : commit_raises(n, t)

LEMMA StepStore ==
    ASSUME Types, [Next]_vars
    PROVE  RecordCycle \/ Ends0
<1>1. CASE RecordCycle
  BY <1>1
<1>2. CASE Propose \/ ProposeFails \/ GateAnswers
  BY <1>2 DEF Propose, ProposeFails, GateAnswers, Judged, Accepted, CommitRaises, Ends0, db, Truth
<1>3. CASE RecordFails
  BY <1>3 DEF RecordFails, Ends0, Types
<1>4. CASE Step /\ ~(Propose \/ ProposeFails \/ RecordCycle \/ RecordFails)
  BY <1>4 DEF Step, db, Ends0, Provision, ProvisionFails, BeginCycle, ServeContext, ServeFails,
              CollectProposal, CollectFails, CollectRaises, ShapeError,
              GateUnavailable, HarvestChildren, Regenerate, RegenerateFails, HandleFailure,
              Continue, Abort, StopAccepted, Complete, RecordRunFails, Teardown, CountCycle
<1>5. CASE StartRun \/ Rest \/ UNCHANGED vars
  BY <1>5 DEF StartRun, Rest, vars, db, Ends0
<1> QED
  BY <1>1, <1>2, <1>3, <1>4, <1>5 DEF Next

\* Only the end of a run writes a report, its own.
LEMMA StepReports ==
    ASSUME [Next]_vars
    PROVE  \/ UNCHANGED records
           \/ /\ phase \in {"loop", "decide"}
              /\ UNCHANGED <<runs, history, start>>
              /\ record_run("complete") \/ record_run("aborted")
<1>1. CASE Abort \/ StopAccepted \/ Complete
  BY <1>1 DEF Abort, StopAccepted, Complete, CountCycle, counters
<1>2. CASE Step /\ ~(Abort \/ StopAccepted \/ Complete)
  BY <1>2 DEF Step, InCycle, Provision, ProvisionFails, BeginCycle, ServeContext, ServeFails,
              CollectProposal, CollectFails, CollectRaises, ShapeError, Propose, ProposeFails,
              GateUnavailable, HarvestChildren, Regenerate, RegenerateFails, HandleFailure,
              RecordCycle, RecordFails, Continue, RecordRunFails, Teardown
<1>3. CASE StartRun \/ GateAnswers \/ Rest \/ UNCHANGED vars
  BY <1>3 DEF StartRun, GateAnswers, Judged, Accepted, CommitRaises, InCycle, Rest, vars
<1> QED
  BY <1>1, <1>2, <1>3 DEF Next

-----------------------------------------------------------------------------
(* Types *)

\* A report that is built tallies the history.
LEMMA ReportType ==
    ASSUME Types, NEW status \in {"complete", "aborted"}
    PROVE  /\ build_run_report(status) \in Report
           /\ \A r \in Result : summary.outcomes[r] = Cardinality(Hits(history, OfResult(r)))
<1>1. ASSUME NEW r \in Result
      PROVE  {i \in DOMAIN history : history[i].result = r} = Hits(history, OfResult(r))
  BY DEF Types, Hits, OfResult
<1>2. \A r \in Result : Cardinality({i \in DOMAIN history : history[i].result = r}) \in Nat
  BY <1>1, HitsFinite DEF Types
<1>3. summary \in [cycles_run : Nat, outcomes : [Result -> Nat]]
  BY <1>2 DEF summary, Types
<1>4. build_run_report(status) \in Report
  BY <1>3 DEF build_run_report, Report
<1>5. \A r \in Result : summary.outcomes[r] = Cardinality(Hits(history, OfResult(r)))
  BY <1>1 DEF summary
<1> QED
  BY <1>4, <1>5

LEMMA StepTypes ==
    ASSUME Types, Place, [Next]_vars
    PROVE  Types'
<1> USE DEF Types
<1>1. history' \in Seq(Entry)
  <2>1. CASE RecordCycle
    <3>1. ThisCycle \in Entry
      BY DEF ThisCycle, Published, Entry
    <3> QED
      BY <2>1, <3>1 DEF RecordCycle, record_cycle
  <2> QED
    BY <2>1, StepRecords
<1>0. failureRows' \in Nat /\ pendingRows' \in Nat /\ unsure' \in Nat
  <2>1. CASE RecordCycle
    BY <2>1 DEF RecordCycle, record_cycle, commit, NothingPending, db
  <2>2. CASE Ends0
    BY <2>2 DEF Ends0, commit, rollback, commit_raises, NothingPending
  <2> QED
    BY <2>1, <2>2, StepStore
<1>2. records' \in [1 .. MaxRuns -> {NoReport} \cup Report]
  BY StepReports, ReportType DEF record_run
<1>3. /\ phase' \in Phase /\ runs' \in 0 .. MaxRuns
      /\ cycle' \in Nat /\ cycles' \in Nat /\ failures' \in Nat /\ start' \in Nat
      /\ result' \in Result /\ truth' \in Truth /\ pendingTruth' \in Truth
      /\ envelope' \in Descriptor /\ outbox' \in Descriptor
      /\ outcome' \in {"none", "running", "raised", "complete", "aborted"}
  <2> USE DEF Phase, Result, Truth, Descriptor, counters, cycleVars, db, InCycle, Raise,
              NothingPending, commit, rollback, commit_raises
  <2>1. CASE StartRun \/ Provision \/ ProvisionFails \/ BeginCycle \/ ServeContext \/ ServeFails
    BY <2>1 DEF StartRun, Provision, ProvisionFails, BeginCycle, ServeContext, ServeFails
  <2>2. CASE CollectProposal \/ CollectFails \/ CollectRaises
    BY <2>2 DEF CollectProposal, CollectFails, CollectRaises
  <2>3. CASE ShapeError \/ Propose \/ ProposeFails \/ GateUnavailable \/ HarvestChildren
    BY <2>3 DEF ShapeError, Propose, ProposeFails, GateUnavailable, HarvestChildren
  <2>4. CASE GateAnswers
    BY <2>4 DEF GateAnswers, Judged, Accepted, CommitRaises
  <2>5. CASE Regenerate \/ RegenerateFails \/ HandleFailure
    BY <2>5 DEF Regenerate, RegenerateFails, HandleFailure, regenerate, regenerate_fails
  <2>6. CASE RecordCycle \/ RecordFails \/ Teardown
    BY <2>6 DEF RecordCycle, record_cycle, ThisCycle, Published, RecordFails, Teardown
  <2>7. CASE Continue \/ Abort \/ StopAccepted \/ Complete \/ RecordRunFails
    BY <2>7 DEF Continue, Abort, StopAccepted, Complete, RecordRunFails, CountCycle,
                consecutive_failures, record_run
  <2>8. CASE Rest \/ UNCHANGED vars
    BY <2>8 DEF Rest, vars
  <2> QED
    BY <2>1, <2>2, <2>3, <2>4, <2>5, <2>6, <2>7, <2>8 DEF Next, Step
<1> QED
  BY <1>0, <1>1, <1>2, <1>3

-----------------------------------------------------------------------------
(* The cycle in progress *)

LEMMA StepPlace ==
    ASSUME Types, Place, [Next]_vars
    PROVE  Place'
<1> USE DEF Types, Place, Phase, Active, InBody, counters, cycleVars, InCycle, Raise
<1>1. CASE StartRun \/ Provision \/ ProvisionFails \/ BeginCycle \/ ServeContext \/ ServeFails
  BY <1>1 DEF StartRun, Provision, ProvisionFails, BeginCycle, ServeContext, ServeFails
<1>2. CASE CollectProposal \/ CollectFails \/ CollectRaises
  BY <1>2 DEF CollectProposal, CollectFails, CollectRaises
<1>3. CASE ShapeError \/ Propose \/ ProposeFails \/ GateUnavailable \/ HarvestChildren
  BY <1>3 DEF ShapeError, Propose, ProposeFails, GateUnavailable, HarvestChildren
<1>4. CASE GateAnswers
  BY <1>4 DEF GateAnswers, Judged, Accepted, CommitRaises
<1>5. CASE Regenerate \/ RegenerateFails \/ HandleFailure
  BY <1>5 DEF Regenerate, RegenerateFails, HandleFailure
<1>6. CASE RecordCycle
  <2>1. ThisCycle \in Entry /\ ThisCycle.result = result
    BY DEF ThisCycle, Published, Entry
  <2>2. history' = Append(history, ThisCycle)
    BY <1>6 DEF RecordCycle, record_cycle
  <2>3. Len(history') = Len(history) + 1 /\ history'[Len(history')].result = result
    BY <2>1, <2>2
  <2> QED
    BY <1>6, <2>3 DEF RecordCycle
<1>7. CASE RecordFails \/ Teardown
  BY <1>7 DEF RecordFails, Teardown, commit_raises
<1>8. CASE Continue \/ Abort \/ StopAccepted \/ Complete \/ RecordRunFails
  BY <1>8 DEF Continue, Abort, StopAccepted, Complete, RecordRunFails, CountCycle, record_run
<1>9. CASE Rest \/ UNCHANGED vars
  BY <1>9 DEF Rest, vars
<1> QED
  BY <1>1, <1>2, <1>3, <1>4, <1>5, <1>6, <1>7, <1>8, <1>9 DEF Next, Step

LEMMA StepCycle ==
    ASSUME Types, Cycle, [Next]_vars
    PROVE  Cycle'
<1> USE DEF Types, Cycle, Phase, Active, InBody, Descriptor, counters, cycleVars, db, InCycle, Raise,
            NothingPending, commit, rollback, commit_raises
<1>1. CASE StartRun \/ Provision \/ ProvisionFails \/ BeginCycle \/ ServeContext \/ ServeFails
  BY <1>1 DEF StartRun, Provision, ProvisionFails, BeginCycle, ServeContext, ServeFails
<1>2. CASE CollectProposal \/ CollectFails \/ CollectRaises
  BY <1>2 DEF CollectProposal, CollectFails, CollectRaises
<1>3. CASE ShapeError \/ Propose \/ ProposeFails \/ GateUnavailable \/ HarvestChildren
  BY <1>3 DEF ShapeError, Propose, ProposeFails, GateUnavailable, HarvestChildren
<1>4. CASE GateAnswers
  BY <1>4 DEF GateAnswers, Judged, Accepted, CommitRaises
<1>5. CASE Regenerate \/ RegenerateFails \/ HandleFailure
  BY <1>5 DEF Regenerate, RegenerateFails, HandleFailure, regenerate, regenerate_fails
<1>6. CASE RecordCycle \/ RecordFails \/ Teardown
  BY <1>6 DEF RecordCycle, record_cycle, ThisCycle, Published, RecordFails, Teardown, failure_of
<1>7. CASE Continue \/ Abort \/ StopAccepted \/ Complete \/ RecordRunFails
  BY <1>7 DEF Continue, Abort, StopAccepted, Complete, RecordRunFails, CountCycle, record_run
<1>8. CASE Rest \/ UNCHANGED vars
  BY <1>8 DEF Rest, vars
<1> QED
  BY <1>1, <1>2, <1>3, <1>4, <1>5, <1>6, <1>7, <1>8 DEF Next, Step

-----------------------------------------------------------------------------
(* The history *)

\* The entry appended: what the phases know of the cycle that is recorded.
LEMMA Recorded ==
    ASSUME Types, Cycle, RecordCycle
    PROVE  /\ ThisCycle \in Entry
           /\ history' = Append(history, ThisCycle)
           /\ ThisCycle.result = result /\ ThisCycle.envelope = envelope
           /\ ThisCycle.truth = IF result \notin {"judged", "accepted"} THEN Published ELSE truth
           /\ result \in {"shape", "sandbox", "gate", "judged", "accepted"}
           /\ IF result \notin {"judged", "accepted"} THEN commit(1) ELSE UNCHANGED db
<1>1. ThisCycle \in Entry
  BY DEF Types, ThisCycle, Published, Entry
<1>2. result \in {"shape", "sandbox", "gate", "judged", "accepted"}
  BY DEF Types, Cycle, RecordCycle, Result
<1> QED
  BY <1>1, <1>2 DEF RecordCycle, record_cycle, ThisCycle, failure_of

LEMMA StepTallied ==
    ASSUME Types, Cycle, Tallied, [Next]_vars
    PROVE  Tallied'
<1>1. CASE UNCHANGED history
  BY <1>1 DEF Tallied
<1>2. CASE RecordCycle
  <2> DEFINE e == ThisCycle
             n(r) == Cardinality(Hits(history, OfResult(r)))
             m(r) == Cardinality(Hits(history', OfResult(r)))
  <2>1. /\ e \in Entry /\ history' = Append(history, e) /\ e.result = result
        /\ result \in {"shape", "sandbox", "gate", "judged", "accepted"}
    BY <1>2, Recorded
  <2>2. history \in Seq(Entry)
    BY DEF Types
  <2> HIDE DEF e
  <2>3. \A r : m(r) = (IF result = r THEN n(r) + 1 ELSE n(r)) /\ n(r) \in Nat
    BY <2>1, <2>2, AppendCount, HitsFinite DEF OfResult
  <2>5. Len(history') = Len(history) + 1
    BY <2>1, <2>2
  <2>6. \A i \in DOMAIN history' : history'[i].result # "none"
    BY <2>1, <2>2 DEF Tallied
  <2>7. Len(history) = n("shape") + n("sandbox") + n("gate") + n("judged") + n("accepted")
    BY DEF Tallied
  <2>8. Len(history') = m("shape") + m("sandbox") + m("gate") + m("judged") + m("accepted")
    <3> DEFINE Counted(r) == m(r) = (IF result = r THEN n(r) + 1 ELSE n(r)) /\ n(r) \in Nat
    <3>1. /\ Counted("shape") /\ Counted("sandbox") /\ Counted("gate")
          /\ Counted("judged") /\ Counted("accepted")
      BY <2>3
    <3> HIDE DEF m, n
    <3> QED
      BY <2>1, <2>5, <2>7, <3>1
  <2> QED
    BY <2>6, <2>8 DEF Tallied
<1> QED
  BY <1>1, <1>2, StepRecords

\* A failed cycle is recorded with the commit of its row, which publishes what
\* was pending; a row is added without one only by a commit that raises.
LEMMA StepRows ==
    ASSUME Types, Cycle, RowsCovered, [Next]_vars
    PROVE  RowsCovered'
<1> DEFINE f == Cardinality(Hits(history, Failed))
           g == Cardinality(Hits(history', Failed))
<1>1. f \in Nat /\ f <= failureRows /\ failureRows + pendingRows <= f + unsure
  BY HitsFinite DEF Types, RowsCovered
<1>2. CASE RecordCycle
  <2>1. ThisCycle \in Entry /\ history' = Append(history, ThisCycle) /\ ThisCycle.result = result
    BY <1>2, Recorded
  <2>2. g = IF result \notin {"judged", "accepted"} THEN f + 1 ELSE f
    BY <2>1, AppendCount DEF Failed, Types
  <2>3. IF result \notin {"judged", "accepted"} THEN commit(1) ELSE UNCHANGED db
    BY <1>2, Recorded
  <2>4. g <= failureRows' /\ failureRows' + pendingRows' <= g + unsure'
    <3> HIDE DEF f, g
    <3> QED
      BY <1>1, <2>2, <2>3 DEF commit, NothingPending, db, Types
  <2> QED
    BY <2>4 DEF RowsCovered
<1>3. CASE UNCHANGED history /\ Ends0
  <2>1. g = f
    BY <1>3
  <2>2. f <= failureRows' /\ failureRows' + pendingRows' <= f + unsure'
    <3> HIDE DEF f, g
    <3> QED
      BY <1>1, <1>3 DEF Ends0, commit, rollback, commit_raises, NothingPending, Types
  <2> QED
    BY <2>1, <2>2 DEF RowsCovered
<1> QED
  BY <1>2, <1>3, StepRecords, StepStore

LEMMA StepTruthful ==
    ASSUME Types, Cycle, Truthful, [Next]_vars
    PROVE  Truthful'
<1> DEFINE Tells(e) ==
        /\ e.result \in {"judged", "accepted"} => e.truth = e.result
        /\ "workspace" \notin Faults =>
               /\ e.truth # "nothing" => e.envelope = "own"
               /\ "sqlite" \notin Faults /\ e.truth = "accepted" => e.result = "accepted"
<1>1. CASE UNCHANGED history
  BY <1>1 DEF Truthful
<1>2. CASE RecordCycle
  <2> SUFFICES ASSUME NEW i \in DOMAIN history' PROVE Tells(history'[i])
    BY DEF Truthful
  <2>1. Tells(ThisCycle)
    <3>1. /\ ThisCycle.result = result /\ ThisCycle.envelope = envelope
          /\ ThisCycle.truth = IF result \notin {"judged", "accepted"} THEN Published ELSE truth
      BY <1>2, Recorded
    <3>2. phase \in {"record", "recordCaught"}
      BY <1>2 DEF RecordCycle
    <3> QED
      BY <3>1, <3>2 DEF Cycle, Published, Active, InBody
  <2>2. history \in Seq(Entry)
    BY DEF Types
  <2> HIDE DEF Tells
  <2>3. CASE i = Len(history) + 1
    <3>1. history'[i] = ThisCycle
      BY <1>2, <2>2, <2>3, Recorded
    <3> QED
      BY <2>1, <3>1
  <2>4. CASE i # Len(history) + 1
    <3>1. i \in DOMAIN history /\ history'[i] = history[i]
      BY <1>2, <2>2, <2>4, Recorded
    <3> QED
      BY <3>1 DEF Truthful, Tells
  <2> QED
    BY <2>3, <2>4
<1> QED
  BY <1>1, <1>2, StepRecords

-----------------------------------------------------------------------------
(* The reports *)

\* What a report says of the history up to its length does not change when
\* cycles are appended.
LEMMA PrefixTally ==
    ASSUME Types, [Next]_vars, NEW n \in Nat, n <= Len(history)
    PROVE  /\ n <= Len(history')
           /\ \A i \in 1 .. n : history'[i] = history[i]
<1>1. CASE UNCHANGED history
  BY <1>1
<1>2. CASE RecordCycle
  <2>1. ThisCycle \in Entry
    BY DEF Types, ThisCycle, Published, Entry
  <2> QED
    BY <1>2, <2>1 DEF RecordCycle, record_cycle, Types
<1> QED
  BY <1>1, <1>2, StepRecords

\* A report as Reports wants it, of a history h.
Fits(s, h) ==
    /\ s.cycles_run <= Len(h)
    /\ s.outcomes["accepted"] = Cardinality({i \in 1 .. s.cycles_run : h[i].result = "accepted"})
    /\ s.cycles_run = s.outcomes["shape"] + s.outcomes["sandbox"] + s.outcomes["gate"]
                    + s.outcomes["judged"] + s.outcomes["accepted"]

\* The report built at the end of a run fits the history of that moment.
LEMMA BuiltFits ==
    ASSUME Types, Tallied
    PROVE  Fits(summary, history) /\ summary.cycles_run = Len(history)
<1>1. summary.cycles_run = Len(history) /\ Len(history) \in Nat
  BY DEF summary, Types
<1>2. \A r \in Result : summary.outcomes[r] = Cardinality(Hits(history, OfResult(r)))
  BY ReportType
<1>3. Hits(history, OfResult("accepted")) = {i \in 1 .. Len(history) : history[i].result = "accepted"}
  BY DEF Types, Hits, OfResult
<1>4. summary.outcomes["accepted"] =
          Cardinality({i \in 1 .. summary.cycles_run : history[i].result = "accepted"})
  BY <1>1, <1>2, <1>3 DEF Result
<1>5. summary.cycles_run = summary.outcomes["shape"] + summary.outcomes["sandbox"]
          + summary.outcomes["gate"] + summary.outcomes["judged"] + summary.outcomes["accepted"]
  BY <1>1, <1>2 DEF Tallied, Result
<1> QED
  BY <1>1, <1>4, <1>5 DEF Fits

\* A step that leaves the reports leaves them fitting.
LEMMA ReportsFit ==
    ASSUME Types, Tallied, Reports, [Next]_vars, NEW r \in 1 .. MaxRuns, records'[r] # NoReport
    PROVE  Fits(records'[r].summary, history')
<1>1. ASSUME records'[r] = records[r]
      PROVE  Fits(records'[r].summary, history')
  <2> DEFINE s == records[r].summary
  <2>1. Fits(s, history) /\ s.cycles_run \in Nat
    BY <1>1 DEF Reports, Fits, Types, Report
  <2>2. s.cycles_run <= Len(history') /\ \A i \in 1 .. s.cycles_run : history'[i] = history[i]
    BY <2>1, PrefixTally DEF Fits
  <2>3. {i \in 1 .. s.cycles_run : history'[i].result = "accepted"} =
            {i \in 1 .. s.cycles_run : history[i].result = "accepted"}
    BY <2>2
  <2> QED
    BY <1>1, <2>1, <2>2, <2>3 DEF Fits
<1>2. CASE UNCHANGED records
  BY <1>1, <1>2
<1>3. ASSUME NEW status \in {"complete", "aborted"}, record_run(status), UNCHANGED history
      PROVE  Fits(records'[r].summary, history')
  <2>1. CASE r = runs
    <3>1. records'[r].summary = summary /\ history' = history
      BY <1>3, <2>1 DEF record_run, build_run_report, Types
    <3> QED
      BY <3>1, BuiltFits
  <2>2. CASE r # runs
    BY <1>1, <1>3, <2>2 DEF record_run, Types
  <2> QED
    BY <2>1, <2>2
<1> QED
  BY <1>2, <1>3, StepReports

LEMMA StepRuns ==
    ASSUME Types, [Next]_vars
    PROVE  \/ runs' = runs /\ (phase' \in Active => phase \in Active)
                           /\ (phase' = "teardown" => phase \in Active \cup {"teardown"})
           \/ StartRun
<1> USE DEF Active, InBody, counters, InCycle, Raise
<1>1. CASE Step
  BY <1>1 DEF Step, Provision, ProvisionFails, BeginCycle, ServeContext, ServeFails,
              CollectProposal, CollectFails, CollectRaises, ShapeError, Propose, ProposeFails,
              GateUnavailable, HarvestChildren, Regenerate, RegenerateFails, HandleFailure,
              RecordCycle, RecordFails, Continue, Abort, StopAccepted, Complete, RecordRunFails,
              Teardown, CountCycle, record_run
<1>2. CASE GateAnswers \/ Rest \/ UNCHANGED vars
  BY <1>2 DEF GateAnswers, Judged, Accepted, CommitRaises, Rest, vars
<1> QED
  BY <1>1, <1>2 DEF Next

LEMMA StepReportsInv ==
    ASSUME Types, Place, Tallied, Reports, [Next]_vars
    PROVE  Reports'
<1>1. \A r \in 1 .. MaxRuns : records'[r] # NoReport => Fits(records'[r].summary, history')
  BY ReportsFit
<1>2. ASSUME NEW r \in 1 .. MaxRuns, r > runs' \/ (r = runs' /\ phase' \in Active)
      PROVE  records'[r] = NoReport
  <2>1. CASE StartRun
    BY <1>2, <2>1 DEF StartRun, Reports, Types
  <2>2. CASE runs' = runs /\ (phase' \in Active => phase \in Active)
    <3>1. records[r] = NoReport
      BY <1>2, <2>2 DEF Reports
    <3>2. CASE UNCHANGED records
      BY <3>1, <3>2
    <3>3. ASSUME NEW status \in {"complete", "aborted"}, record_run(status)
          PROVE  records'[r] = NoReport
      <4>1. phase' = "teardown" /\ r # runs
        BY <1>2, <2>2, <3>3 DEF record_run, Active, InBody, Types
      <4> QED
        BY <3>1, <3>3, <4>1 DEF record_run, Types
    <3> QED
      BY <3>2, <3>3, StepReports
  <2> QED
    BY <2>1, <2>2, StepRuns
<1>3. ASSUME phase' = "teardown", records'[runs'] # NoReport
      PROVE  records'[runs'].summary.cycles_run = Len(history')
  <2>1. runs' = runs /\ phase \in Active \cup {"teardown"}
    BY <1>3, StepRuns DEF StartRun
  <2>2. runs \in 1 .. MaxRuns
    BY <2>1 DEF Place, Types
  <2>3. ASSUME NEW status \in {"complete", "aborted"}, record_run(status), UNCHANGED history
        PROVE  records'[runs'].summary.cycles_run = Len(history')
    <3>1. records'[runs'].summary = summary /\ history' = history
      BY <2>1, <2>2, <2>3 DEF record_run, build_run_report, Types
    <3> QED
      BY <3>1 DEF summary
  <2>4. CASE UNCHANGED records
    <3>1. phase \notin Active
      BY <1>3, <2>1, <2>2, <2>4 DEF Reports
    <3>2. phase = "teardown"
      BY <2>1, <3>1
    <3>3. UNCHANGED history
      BY <3>2, StepRecords DEF RecordCycle
    <3> QED
      BY <1>3, <2>1, <2>4, <3>2, <3>3 DEF Reports
  <2> QED
    BY <2>3, <2>4, StepReports
<1> QED
  BY <1>1, <1>2, <1>3 DEF Reports, Fits

-----------------------------------------------------------------------------
(* The failure cap *)

\* A step that keeps the counters keeps the streak of the cycles counted.
LEMMA StreakStays ==
    ASSUME Types, [Next]_vars, UNCHANGED <<start, failures>>,
           NEW n \in Nat, start <= n, n <= Len(history), Streak(n)
    PROVE  Streak(n)'
<1>1. \A i \in 1 .. n : history'[i] = history[i]
  BY PrefixTally
<1>2. \A i \in 1 .. n : Fails(i)' <=> Fails(i)
  BY <1>1 DEF Fails
<1>3. /\ failures <= n - start
      /\ \A j \in n - failures + 1 .. n : Fails(j)
      /\ failures < n - start => ~Fails(n - failures)
      /\ FailureCap > 0 =>
             /\ failures < FailureCap
             /\ \A i \in start + 1 .. n : i + FailureCap <= n + 1 =>
                    \E j \in i .. i + FailureCap - 1 : ~Fails(j)
  BY DEF Streak
<1>4. \A j \in n - failures + 1 .. n : Fails(j)'
  BY <1>2, <1>3 DEF Types
<1>5. failures < n - start => ~Fails(n - failures)'
  <2> SUFFICES ASSUME failures < n - start
               PROVE  ~(failure(history'[n - failures].result))
    BY DEF Fails
  <2>1. n - failures \in 1 .. n
    BY DEF Types
  <2> QED
    BY <1>1, <1>3, <2>1 DEF Fails
<1>6. ASSUME FailureCap > 0, NEW i \in start + 1 .. n, i + FailureCap <= n + 1
      PROVE  \E j \in i .. i + FailureCap - 1 : ~Fails(j)'
  <2>1. PICK j \in i .. i + FailureCap - 1 : ~Fails(j)
    BY <1>3, <1>6
  <2>2. j \in 1 .. n
    BY <1>6 DEF Types
  <2> QED
    BY <1>2, <2>1, <2>2
<1> QED
  BY <1>3, <1>4, <1>5, <1>6 DEF Streak, Fails

\* Counting the last cycle of the history, unless the cap is reached.
LEMMA StreakGrows ==
    ASSUME Types, Place, phase = "decide", Streak(start + cycles), ~cap_reached,
           failures' = consecutive_failures, start' = start, cycles' = cycles + 1,
           history' = history
    PROVE  Streak(start + cycles)'
<1> DEFINE n == start + cycles
<1>1. n \in Nat /\ Len(history) = n + 1 /\ (Fails(n + 1) <=> failure(result))
  BY DEF Place, Types, Fails
<1>2. /\ failures <= n - start
      /\ \A j \in n - failures + 1 .. n : Fails(j)
      /\ failures < n - start => ~Fails(n - failures)
      /\ FailureCap > 0 =>
             /\ failures < FailureCap
             /\ \A i \in start + 1 .. n : i + FailureCap <= n + 1 =>
                    \E j \in i .. i + FailureCap - 1 : ~Fails(j)
  BY DEF Streak
<1> SUFFICES /\ failures' <= (n + 1) - start
             /\ \A j \in (n + 1) - failures' + 1 .. n + 1 : Fails(j)
             /\ failures' < (n + 1) - start => ~Fails((n + 1) - failures')
             /\ FailureCap > 0 =>
                    /\ failures' < FailureCap
                    /\ \A i \in start + 1 .. n + 1 : i + FailureCap <= n + 2 =>
                           \E j \in i .. i + FailureCap - 1 : ~Fails(j)
  <2>1. (start + cycles)' = n + 1
    BY DEF Types
  <2> QED
    BY <2>1, <1>1 DEF Streak, Fails
<1>3. CASE ~failure(result)
  <2>1. failures' = 0
    BY <1>3 DEF consecutive_failures
  <2>2. ASSUME FailureCap > 0, NEW i \in start + 1 .. n + 1, i + FailureCap <= n + 2
        PROVE  \E j \in i .. i + FailureCap - 1 : ~Fails(j)
    <3>1. CASE i + FailureCap <= n + 1
      <4>1. i \in start + 1 .. n
        BY <1>1, <2>2, <3>1 DEF Types
      <4> QED
        BY <1>2, <2>2, <3>1, <4>1
    <3>2. CASE i + FailureCap = n + 2
      <4>1. n + 1 \in i .. i + FailureCap - 1
        BY <1>1, <2>2, <3>2 DEF Types
      <4> QED
        BY <1>1, <1>3, <4>1
    <3> QED
      BY <1>1, <2>2, <3>1, <3>2 DEF Types
  <2> QED
    BY <1>1, <1>2, <1>3, <2>1, <2>2 DEF Types
<1>4. CASE failure(result)
  <2>1. failures' = failures + 1
    BY <1>4 DEF consecutive_failures
  <2>2. FailureCap > 0 => failures' < FailureCap
    BY <1>4, <2>1 DEF cap_reached, consecutive_failures, Types
  <2>3. ASSUME FailureCap > 0, NEW i \in start + 1 .. n + 1, i + FailureCap <= n + 2
        PROVE  \E j \in i .. i + FailureCap - 1 : ~Fails(j)
    <3>1. CASE i + FailureCap <= n + 1
      <4>1. i \in start + 1 .. n
        BY <1>1, <2>3, <3>1 DEF Types
      <4> QED
        BY <1>2, <2>3, <3>1, <4>1
    <3>2. CASE i + FailureCap = n + 2
      <4>1. n - failures \in i .. i + FailureCap - 1
        BY <1>1, <2>1, <2>2, <2>3, <3>2 DEF Types
      <4>2. failures < n - start
        BY <1>1, <2>1, <2>2, <2>3, <3>2 DEF Types
      <4> QED
        BY <1>2, <4>1, <4>2
    <3> QED
      BY <1>1, <2>3, <3>1, <3>2 DEF Types
  <2>4. \A j \in (n + 1) - failures' + 1 .. n + 1 : Fails(j)
    BY <1>1, <1>2, <1>4, <2>1 DEF Types
  <2>5. failures' <= (n + 1) - start
    BY <1>1, <1>2, <2>1 DEF Types
  <2>6. failures' < (n + 1) - start => ~Fails((n + 1) - failures')
    <3>1. (n + 1) - failures' = n - failures
      BY <1>1, <2>1 DEF Types
    <3> QED
      BY <1>1, <1>2, <2>1, <3>1 DEF Types
  <2> QED
    BY <2>2, <2>3, <2>4, <2>5, <2>6
<1> QED
  BY <1>3, <1>4

\* At the cap, the last FailureCap cycles of the history failed.
LEMMA CapIsRow ==
    ASSUME Types, Place, phase = "decide", Streak(start + cycles), FailureCap > 0, cap_reached
    PROVE  FailedRow
<1> DEFINE n == start + cycles
           i == n + 1 - failures
<1>1. n \in Nat /\ Len(history) = n + 1 /\ (Fails(n + 1) <=> failure(result))
  BY DEF Place, Types, Fails
<1>2. failure(result) /\ failures + 1 = FailureCap /\ failures <= n - start
  BY DEF cap_reached, consecutive_failures, Streak, Types
<1>3. \A j \in n - failures + 1 .. n : Fails(j)
  BY DEF Streak
<1>4. i \in ThisRun /\ i + FailureCap = Len(history) + 1
  BY <1>1, <1>2 DEF ThisRun, Types
<1>5. \A j \in i .. i + FailureCap - 1 : Fails(j)
  BY <1>1, <1>2, <1>3 DEF Types
<1> HIDE DEF i
<1> QED
  BY <1>1, <1>4, <1>5 DEF FailedRow, Fails, Types

LEMMA StepCapped ==
    ASSUME Types, Place, Capped, [Next]_vars
    PROVE  Capped'
<1> USE DEF Active, InBody, counters, InCycle, Raise
<1>1. CASE StartRun
  <2>1. /\ Len(history) \in Nat /\ start' = Len(history)
        /\ cycles' = 0 /\ failures' = 0 /\ outcome' = "running"
    BY <1>1 DEF StartRun, Types
  <2>2. (start + cycles)' = start'
    BY <2>1
  <2>3. /\ start' - failures' + 1 = start' + 1 /\ start' - start' = 0
        /\ \A j \in start' + 1 .. start' : FALSE
    BY <2>1
  <2>4. Streak(start + cycles)'
    <3>1. /\ failures' <= start' - start'
          /\ \A j \in start' - failures' + 1 .. start' : Fails(j)'
          /\ ~(failures' < start' - start')
          /\ \A i \in start' + 1 .. start' : FALSE
          /\ FailureCap > 0 => failures' < FailureCap
      BY <2>1, <2>3
    <3> QED
      BY <2>2, <3>1 DEF Streak, Fails
  <2> QED
    BY <2>1, <2>4 DEF Capped
<1>2. ASSUME phase \in Active, UNCHANGED <<start, failures, cycles, outcome>>
      PROVE  Capped'
  <2>1. /\ start + cycles \in Nat /\ start <= start + cycles /\ start + cycles <= Len(history)
        /\ Streak(start + cycles) /\ outcome = "running"
    BY <1>2 DEF Place, Capped, Types
  <2>2. ASSUME NEW n \in Nat, n = start + cycles
        PROVE  Streak(n)'
    BY <1>2, <2>1, <2>2, StreakStays
  <2>3. Streak(start + cycles)'
    BY <1>2, <2>1, <2>2
  <2> QED
    BY <1>2, <2>1, <2>3 DEF Capped
<1>3. ASSUME phase' \in {"teardown", "idle"}, outcome' # "aborted"
      PROVE  Capped'
  BY <1>3 DEF Capped
<1>4. CASE Continue
  <2>1. phase = "decide" /\ ~cap_reached /\ outcome' = "running" /\ Streak(start + cycles)
    BY <1>4 DEF Continue, CountCycle, Ends, Place, Capped
  <2>2. failures' = consecutive_failures /\ start' = start /\ cycles' = cycles + 1 /\ history' = history
    BY <1>4 DEF Continue, CountCycle
  <2> QED
    BY <2>1, <2>2, StreakGrows DEF Capped
<1>5. CASE Abort
  <2>1. phase = "decide" /\ cap_reached /\ Streak(start + cycles) /\ phase' = "teardown"
    BY <1>5 DEF Abort, CountCycle, Capped, record_run
  <2>2. history' = history /\ start' = start
    BY <1>5 DEF Abort, CountCycle
  <2>3. FailureCap > 0 => FailedRow
    BY <2>1, CapIsRow
  <2> QED
    BY <2>1, <2>2, <2>3 DEF Capped, FailedRow, ThisRun
<1>6. CASE Teardown \/ Rest \/ UNCHANGED vars
  <2>1. /\ UNCHANGED <<history, start, outcome, cycles, failures>>
        /\ phase' \in Active => phase \in Active
    BY <1>6 DEF Teardown, Rest, vars
  <2>2. phase \in Active => Capped'
    BY <2>1, <1>2
  <2>3. phase' \notin Active => Capped'
    BY <2>1 DEF Capped, FailedRow, ThisRun
  <2> QED
    BY <2>1, <2>2, <2>3
<1>7. CASE StopAccepted \/ Complete \/ RecordRunFails \/ ProvisionFails
  <2>1. phase' = "teardown" /\ outcome' # "aborted"
    BY <1>7 DEF StopAccepted, Complete, RecordRunFails, ProvisionFails, record_run
  <2> QED
    BY <2>1, <1>3
<1>8. CASE RecordFails
  <2>1. CASE phase = "record"
    BY <1>2, <1>8, <2>1 DEF RecordFails
  <2>2. CASE phase = "recordCaught"
    BY <1>3, <1>8, <2>2 DEF RecordFails
  <2> QED
    BY <1>8, <2>1, <2>2 DEF RecordFails
<1>9. CASE GateAnswers
  BY <1>2, <1>9 DEF GateAnswers, Judged, Accepted, CommitRaises
<1>10. CASE \/ Provision \/ BeginCycle \/ ServeContext \/ ServeFails
            \/ CollectProposal \/ CollectFails \/ CollectRaises
            \/ ShapeError \/ Propose \/ ProposeFails \/ GateUnavailable \/ HarvestChildren
            \/ Regenerate \/ RegenerateFails \/ HandleFailure \/ RecordCycle
  BY <1>2, <1>10
     DEF Provision, BeginCycle, ServeContext, ServeFails, CollectProposal, CollectFails,
         CollectRaises, ShapeError, Propose, ProposeFails, GateUnavailable, HarvestChildren,
         Regenerate, RegenerateFails, HandleFailure, RecordCycle
<1> QED
  BY <1>1, <1>4, <1>5, <1>6, <1>7, <1>8, <1>9, <1>10 DEF Next, Step

-----------------------------------------------------------------------------
(* The theorems *)

LEMMA InitIInv == Init => IInv
<1> SUFFICES ASSUME Init PROVE IInv
  OBVIOUS
<1> USE DEF Init
<1>1. history = << >> /\ \A M : Hits(history, M) = {}
  BY DEF Hits
<1>2. Types
  BY DEF Types, Phase, Result, Truth, Descriptor
<1>3. Tallied
  <2>1. Cardinality({}) = 0
    BY FS_EmptySet
  <2>2. \A M : Cardinality(Hits(history, M)) = 0
    BY <1>1, <2>1
  <2>3. Len(history) = 0 /\ DOMAIN history = {}
    BY <1>1
  <2> QED
    BY <2>2, <2>3 DEF Tallied
<1>5. RowsCovered
  <2>1. Cardinality({}) = 0
    BY FS_EmptySet
  <2>2. Cardinality(Hits(history, Failed)) = 0
    BY <1>1, <2>1
  <2> QED
    BY <2>2 DEF RowsCovered
<1>4. Place /\ Cycle /\ Truthful /\ Reports /\ Capped
  BY DEF Place, Cycle, Truthful, Reports, Capped, Active, InBody
<1> QED
  BY <1>2, <1>3, <1>4, <1>5 DEF IInv

LEMMA StepIInv == IInv /\ [Next]_vars => IInv'
  BY StepTypes, StepPlace, StepCycle, StepTallied, StepRows, StepTruthful, StepReportsInv, StepCapped DEF IInv

\* It holds of every reachable state.
LEMMA Invariance == Spec => []IInv
  BY InitIInv, StepIInv, PTL DEF Spec

\* Whatever raises, and however often recording a cycle is attempted, a counted
\* cycle is in the history once and a failed one has a committed row; the rows
\* of cycle_failures beside these are at most those whose commit raised.
THEOREM FailuresAreDurable == Spec => []FailuresDurable
<1>1. IInv => FailuresDurable
  <2> SUFFICES ASSUME IInv PROVE FailuresDurable
    OBVIOUS
  <2>1. Hits(history, Failed) = {i \in DOMAIN history : history[i].result \notin {"judged", "accepted"}}
    BY DEF IInv, Types, Hits, Failed
  <2> QED
    BY <2>1 DEF IInv, Place, RowsCovered, FailuresDurable
<1> QED
  BY <1>1, Invariance, PTL

\* A run that goes on holds no FailureCap failures in a row, one that is
\* aborted does.
THEOREM AbortIsEarned == Spec => []AbortsAtCap
<1>1. IInv => AbortsAtCap
  <2> SUFFICES ASSUME IInv, FailureCap > 0 PROVE AbortsAtCap
    BY DEF AbortsAtCap
  <2>1. outcome = "aborted" => FailedRow
    BY DEF IInv, Capped
  <2>2. ASSUME phase = "loop" PROVE ~FailedRow
    <3>1. Streak(start + cycles) /\ Len(history) = start + cycles
      BY <2>2 DEF IInv, Capped, Place, Active
    <3> QED
      BY <3>1 DEF FailedRow, ThisRun, Streak, Fails, IInv, Types
  <2> QED
    BY <2>1, <2>2 DEF AbortsAtCap
<1> QED
  BY <1>1, Invariance, PTL

\* While the store takes the failure row, no cycle that began is missing from
\* the history or from the run's report when the run ends.
THEOREM NoUnrecordedCycle ==
    ASSUME "sqlite" \notin Faults
    PROVE  Spec => []EveryCycleRecorded
<1>1. IInv => EveryCycleRecorded
  <2> SUFFICES ASSUME IInv, phase = "teardown" PROVE EveryCycleRecorded
    BY DEF EveryCycleRecorded
  <2>1. Len(history) = start + cycle /\ runs \in 1 .. MaxRuns
    BY DEF IInv, Place, Types
  <2> QED
    BY <2>1 DEF IInv, Reports, EveryCycleRecorded
<1> QED
  BY <1>1, Invariance, PTL

\* Whatever raises, a verdict in the history was committed, and no report counts
\* more accepted cycles than the store holds of them.
THEOREM ClaimsAreStored == Spec => []ClaimsHold
<1>1. IInv => ClaimsHold
  <2> SUFFICES ASSUME IInv PROVE ClaimsHold
    OBVIOUS
  <2>1. \A i \in DOMAIN history : history[i].result \in {"judged", "accepted"} =>
            history[i].truth = history[i].result
    BY DEF IInv, Truthful
  <2>2. ASSUME NEW r \in DOMAIN records, records[r] # NoReport
        PROVE  records[r].summary.outcomes["accepted"] <=
                   Cardinality({i \in 1 .. records[r].summary.cycles_run : history[i].truth = "accepted"})
    <3> DEFINE n == records[r].summary.cycles_run
               said == {i \in 1 .. n : history[i].result = "accepted"}
               held == {i \in 1 .. n : history[i].truth = "accepted"}
    <3>1. r \in 1 .. MaxRuns /\ records[r] \in Report
      BY <2>2 DEF IInv, Types
    <3>2. n \in Nat /\ n <= Len(history)
      BY <2>2, <3>1 DEF IInv, Reports, Report
    <3>3. said \subseteq held
      BY <2>1, <3>2 DEF IInv, Types
    <3>4. IsFiniteSet(held)
      <4>1. n \in Int /\ 1 \in Int
        BY <3>2
      <4>2. IsFiniteSet(1 .. n)
        BY <4>1, FS_Interval
      <4>3. held \subseteq 1 .. n
        OBVIOUS
      <4> QED
        BY <4>2, <4>3, FS_Subset
    <3>5. Cardinality(said) <= Cardinality(held)
      BY <3>3, <3>4, FS_Subset
    <3>6. records[r].summary.outcomes["accepted"] = Cardinality(said)
      BY <2>2, <3>1 DEF IInv, Reports
    <3> QED
      BY <3>5, <3>6
  <2> QED
    BY <2>1, <2>2 DEF ClaimsHold
<1> QED
  BY <1>1, Invariance, PTL

\* While commits do not raise and a workspace can be regenerated, the history
\* and every report count as accepted just what the store holds as accepted.
THEOREM ReportsMatchStore ==
    ASSUME "workspace" \notin Faults, "sqlite" \notin Faults
    PROVE  Spec => []ReportMatchesStore
<1>1. IInv => ReportMatchesStore
  <2> SUFFICES ASSUME IInv PROVE ReportMatchesStore
    OBVIOUS
  <2>1. \A i \in DOMAIN history : history[i].result = "accepted" <=> history[i].truth = "accepted"
    BY DEF IInv, Truthful
  <2>2. ASSUME NEW r \in DOMAIN records, records[r] # NoReport
        PROVE  records[r].summary.outcomes["accepted"] =
                   Cardinality({i \in 1 .. records[r].summary.cycles_run : history[i].truth = "accepted"})
    <3> DEFINE n == records[r].summary.cycles_run
    <3>1. r \in 1 .. MaxRuns /\ records[r] \in Report
      BY <2>2 DEF IInv, Types
    <3>2. n \in Nat /\ n <= Len(history)
      BY <2>2, <3>1 DEF IInv, Reports, Report
    <3>3. {i \in 1 .. n : history[i].truth = "accepted"} = {i \in 1 .. n : history[i].result = "accepted"}
      BY <2>1, <3>2 DEF IInv, Types
    <3> QED
      BY <2>2, <3>1, <3>3 DEF IInv, Reports
  <2> QED
    BY <2>1, <2>2 DEF ReportMatchesStore
<1> QED
  BY <1>1, Invariance, PTL

\* While a workspace can be regenerated, no proposal of an earlier cycle is
\* taken for this cycle's.
THEOREM ProposalsAreFresh ==
    ASSUME "workspace" \notin Faults
    PROVE  Spec => []FreshProposal
<1>1. IInv => FreshProposal
  BY DEF IInv, Truthful, FreshProposal
<1> QED
  BY <1>1, Invariance, PTL

-----------------------------------------------------------------------------
(* A run is finite *)

\* A cycle is begun only while the policy allows one more.
Within == cycles <= MaxCycles /\ (phase \in InBody \cup {"decide"} => cycles < MaxCycles)

LEMMA RankValues ==
    /\ Rank["idle"] = 0 /\ Rank["teardown"] = 1 /\ Rank["decide"] = 2 /\ Rank["recordCaught"] = 3
    /\ Rank["caught"] = 4 /\ Rank["record"] = 5 /\ Rank["regenerate"] = 6 /\ Rank["harvest"] = 7
    /\ Rank["gate"] = 8 /\ Rank["intake"] = 9 /\ Rank["collect"] = 10 /\ Rank["serve"] = 11
    /\ Rank["loop"] = 12 /\ Rank["provision"] = 13
BY DEF Rank

\* How a step moves the run on, its cycle counted or not.
Onward ==
    \/ cycles' = cycles /\ Rank[phase'] < Rank[phase] /\ (phase' \in InBody \cup {"decide"} =>
           phase \in InBody \/ (phase = "loop" /\ cycles < MaxCycles))
    \/ phase = "decide" /\ cycles' = cycles + 1 /\ phase' \in {"loop", "teardown"}

LEMMA StepOnward ==
    ASSUME Types, [Next]_vars, phase # "idle", ~UNCHANGED vars
    PROVE  Onward /\ Rank[phase] \in Nat /\ Rank[phase'] \in Nat /\ Rank[phase'] <= 13
<1> USE RankValues DEF counters, cycleVars
<1>1. CASE Provision \/ ProvisionFails
  BY <1>1 DEF Provision, ProvisionFails, Onward, InBody
<1>2. CASE BeginCycle
  BY <1>2 DEF BeginCycle, should_continue, Onward, InBody, Types
<1>3. CASE ServeContext \/ ServeFails
  BY <1>3 DEF ServeContext, ServeFails, InCycle, Raise, Onward, InBody
<1>4. CASE CollectProposal \/ CollectFails \/ CollectRaises
  BY <1>4 DEF CollectProposal, CollectFails, CollectRaises, InCycle, Raise, Onward, InBody
<1>5. CASE ShapeError \/ Propose \/ ProposeFails
  BY <1>5 DEF ShapeError, Propose, ProposeFails, InCycle, Raise, Onward, InBody
<1>6. CASE GateUnavailable \/ GateAnswers
  BY <1>6 DEF GateUnavailable, GateAnswers, Judged, Accepted, CommitRaises, InCycle, Raise, Onward, InBody
<1>7. CASE HarvestChildren \/ Regenerate \/ RegenerateFails \/ HandleFailure
  BY <1>7 DEF HarvestChildren, Regenerate, RegenerateFails, HandleFailure, InCycle, Raise, Onward, InBody
<1>8. CASE RecordCycle \/ RecordFails
  BY <1>8 DEF RecordCycle, RecordFails, Onward, InBody
<1>9. CASE Continue \/ Abort \/ StopAccepted
  BY <1>9 DEF Continue, Abort, StopAccepted, CountCycle, record_run, Onward
<1>10. CASE Complete
  BY <1>10 DEF Complete, record_run, Onward, InBody
<1>11. CASE RecordRunFails
  BY <1>11 DEF RecordRunFails, CountCycle, Onward, InBody
<1>12. CASE Teardown
  BY <1>12 DEF Teardown, Onward, InBody
<1> QED
  BY <1>1, <1>2, <1>3, <1>4, <1>5, <1>6, <1>7, <1>8, <1>9, <1>10, <1>11, <1>12
  DEF Next, Step, StartRun, Rest

\* So a step spends, and what is left stays a number.
LEMMA StepSpends ==
    ASSUME Types, Within, [Next]_vars, ~UNCHANGED vars, phase # "idle"
    PROVE  Within' /\ Fuel' \in Nat /\ Fuel' < Fuel
<1>1. cycles \in Nat /\ MaxCycles \in Nat /\ cycles <= MaxCycles
  BY DEF Types, Within
<1>2. Onward /\ Rank[phase] \in Nat /\ Rank[phase'] \in Nat /\ Rank[phase'] <= 13
  BY StepOnward
<1>3. Fuel = (MaxCycles - cycles) * 11 + Rank[phase] /\ Fuel' = (MaxCycles - cycles') * 11 + Rank[phase']
  BY DEF Fuel, Rank
<1>4. CASE cycles' = cycles /\ Rank[phase'] < Rank[phase] /\ (phase' \in InBody \cup {"decide"} =>
               phase \in InBody \/ (phase = "loop" /\ cycles < MaxCycles))
  BY <1>1, <1>2, <1>3, <1>4 DEF Within
<1>5. CASE phase = "decide" /\ cycles' = cycles + 1 /\ phase' \in {"loop", "teardown"}
  <2>1. cycles < MaxCycles /\ Rank[phase] = 2 /\ Rank[phase'] \in {12, 1}
    BY <1>5, RankValues DEF Within
  <2> QED
    BY <1>1, <1>3, <1>5, <2>1 DEF Within, InBody
<1> QED
  BY <1>2, <1>4, <1>5 DEF Onward

\* A run takes at most 11 * MaxCycles + 13 steps, for every number of cycles,
\* every cap and every set of faults: what fails while a failure is handled
\* starts nothing over.
THEOREM RunsAreFinite == Spec => RunIsFinite
<1>1. Init => Within
  BY DEF Init, Within, InBody
<1>2. ASSUME Types, Within, [Next]_vars PROVE Within'
  <2>1. CASE UNCHANGED vars
    <3>1. cycles' = cycles /\ phase' = phase
      BY <2>1 DEF vars, counters
    <3> QED
      BY <1>2, <3>1 DEF Within
  <2>2. CASE ~UNCHANGED vars /\ phase = "idle"
    <3>1. StartRun
      BY <1>2, <2>2 DEF Next, GateAnswers, Judged, Accepted, CommitRaises, Step, Provision, ProvisionFails,
         BeginCycle, ServeContext, ServeFails, CollectProposal, CollectFails, CollectRaises, ShapeError,
         Propose, ProposeFails, GateUnavailable, HarvestChildren, Regenerate, RegenerateFails, HandleFailure,
         RecordCycle, RecordFails, Continue, Abort, StopAccepted, CountCycle, Complete, RecordRunFails,
         Teardown, Rest
    <3> QED
      BY <3>1 DEF StartRun, Within, InBody
  <2>3. CASE ~UNCHANGED vars /\ phase # "idle"
    BY <1>2, <2>3, StepSpends
  <2> QED
    BY <2>1, <2>2, <2>3
<1>3. IInv => Types
  BY DEF IInv
<1>4. IInv /\ Within /\ [Next]_vars => Within'
  BY <1>2, <1>3
<1>5. IInv /\ Within /\ [Next]_vars => [phase # "idle" => Fuel' \in Nat /\ Fuel' < Fuel]_vars
  BY <1>3, StepSpends
<1> QED
  BY <1>1, <1>4, <1>5, Invariance, PTL DEF Spec, RunIsFinite


=============================================================================
