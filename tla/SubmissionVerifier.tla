------------------------- MODULE SubmissionVerifier -------------------------
(***************************************************************************)
(* The verifier service that judges feature-engineering submissions, as    *)
(* the control plane sees it over the wire: one process holding an         *)
(* SdkVerifier whose pipeline is the hold-out ladder ("improve"), the      *)
(* permissive hold-out policy ("always") or the Kaggle ladder ("kaggle").  *)
(*                                                                         *)
(* The control plane dispatches one proposal at a time, but the transport  *)
(* gives up on a call long before the gates do: an abandoned evaluation    *)
(* goes on inside the verifier, beside the next one.  The process can die, *)
(* which empties its ledgers and its run cache; it is set up again only    *)
(* when the next run provisions it.  Kaggle grades late, counts the team's *)
(* other submissions against the same daily cap, and may record one whose  *)
(* acknowledgement is lost.                                                *)
(*                                                                         *)
(* Scores are natural numbers (balanced accuracy on a scale); the number   *)
(* in a script is the hold-out score its own predictions would get.        *)
(***************************************************************************)
EXTENDS Integers, Sequences, FiniteSets, FiniteSetsExt

CONSTANTS MaxProposals,    \* bound: proposals dispatched, minted 1, 2, ...
          MaxScore,        \* bound: the top of the score scale
          Modes,           \* the pipelines to start from
          Runs,            \* what a script may do when it is run
          Deps,            \* what the package list may be: "good", "bad"
          Margin,          \* margin and proxy_margin
          TrialDeflation,  \* trial_deflation
          MinCalibration,  \* min_calibration_points
          Pessimism,       \* pessimism
          MaxStandings,    \* bound: teams on a leaderboard
          DailyCap,        \* the competition's own cap, enforced by Kaggle
          DailyFallback,   \* DAILY_SUBMISSION_LIMIT
          MaxFaults,       \* bound: deaths of the process and calls given up
          MaxTeam,         \* bound: submissions of the rest of the team
          MaxDays          \* bound: days the runs last

ASSUME VerifierAssumption ==
    /\ {MaxProposals, MaxScore, Margin, TrialDeflation, MinCalibration,
        Pessimism, MaxStandings, DailyCap, DailyFallback, MaxFaults, MaxTeam, MaxDays} \subseteq Nat
    /\ MinCalibration > 0
    /\ Modes \subseteq {"improve", "always", "kaggle"}
    /\ Runs \subseteq {"full", "partial", "fails", "absent"}
    /\ Deps \subseteq {"good", "bad"}

Proposals == 1 .. MaxProposals
Scores == 0 .. MaxScore
NoScore == -1
Pending == -1
Errored == -2
Script == {s \in [run : Runs, score : Scores] : s.run # "full" => s.score = 0}
Standings == UNION {[1 .. n -> Scores] : n \in 0 .. MaxStandings}
Submission == [script : Script, deps : Deps]
NoSubmission == [script |-> [run |-> "absent", score |-> 0], deps |-> "none"]

VARIABLES
    mode,      \* accept_policy, or the Kaggle pipeline
    (* the control plane *)
    current,   \* the proposal whose dispatch it awaits, 0 if none
    sub,       \* what each proposal carries: its script and package list
    status,    \* where each proposal rests in the store, "none" if unsent
    recorded,  \* the scores of its durable decisions, by gate
    (* the verifier process *)
    server,    \* "ready" with an impl, "empty" without, "down" between runs
    job,       \* the evaluation of each proposal inside the process: the rung
               \* it stands at, what it was sent with, what it will answer
    proxy,     \* _scores, or _proxy_scores
    real,      \* _real_scores
    cache,     \* _run_cache
    limit,     \* RealKaggleScorer._daily_limit, 0 until resolved
    (* Kaggle *)
    board,     \* submissions of the team, oldest first
    today,
    faults     \* deaths of the process and calls given up so far

cp == <<current, sub, status, recorded>>
process == <<server, job, proxy, real, cache, limit>>
kaggle == <<board, today>>
vars == <<mode, cp, process, kaggle, faults>>

-----------------------------------------------------------------------------
(* Scores and evaluations *)

Gate == {"selection", "score-and-accept", "proxy-improves", "kaggle"}
NoScores == [g \in Gate |-> NoScore]
NoLedger == [p \in Proposals |-> NoScore]
NoJob == [phase |-> "idle", incumbents |-> {}, trials |-> 0, scores |-> NoScores,
          bundle |-> "none", supersedes |-> 0, own |-> 0]

-----------------------------------------------------------------------------
(* The isolated run of a submission, and what is read from its output *)

(* What the code does with the packages its list installs: "full" stands   *)
(* for predictions that cover every reserved row.                          *)
Execute(s) == IF s.deps = "bad" THEN "fails" ELSE s.script.run

(* The cache is looked up by the digest of the script alone.               *)
Cached(p, data) == {e \in cache : e.script = sub[p].script /\ e.data = data}

(* _run, _proxy_run: what a run on one of the two data sets comes to.      *)
RunResult(p, data) ==
    IF sub[p].script.run = "absent" THEN {"absent"}
    ELSE IF Cached(p, data) # {} THEN {e.result : e \in Cached(p, data)}
    ELSE {Execute(sub[p])} \cup (IF data = "real" THEN {"fails"} \cap Runs ELSE {})

(* The hold-out gates keep the latest run only, the Kaggle gates them all. *)
CacheRun(p, data, result) ==
    cache' = IF Cached(p, data) # {} \/ result = "absent" THEN cache
             ELSE LET e == [script |-> sub[p].script, data |-> data, result |-> result]
                  IN  IF mode = "kaggle" THEN cache \cup {e} ELSE {e}

(* balanced_accuracy of predictions that cover every reserved row.         *)
balanced_accuracy(p) == sub[p].script.score

-----------------------------------------------------------------------------
(* The incumbent to beat *)

(* Mutant: a process that trusts only its own ledger.                      *)
LedgerOnly(ledger, gate, q) == ledger[q]

(* The scores of the decisions recorded for q, by gate: the control plane  *)
(* sends them along with the slice.                                        *)
recorded_scores(q) == recorded[q]

(* A score of q is known from the process's own ledger or else from those. *)
ScoreOf(ledger, gate, q) ==
    IF ledger[q] # NoScore THEN ledger[q]
    ELSE IF mode = "kaggle" THEN recorded_scores(q)[gate]
    ELSE Max({recorded_scores(q)[g] : g \in Gate})

(* _best_incumbent, _best: among the accepted of the slice, 0 for none.    *)
Scored(p, ledger, gate) == {q \in job[p].incumbents : ScoreOf(ledger, gate, q) # NoScore}

BestScore(p, ledger, gate) ==
    Max({0} \cup {ScoreOf(ledger, gate, q) : q \in Scored(p, ledger, gate)})

BestId(p, ledger, gate) ==
    IF Scored(p, ledger, gate) = {} THEN 0
    ELSE CHOOSE q \in Scored(p, ledger, gate) :
            ScoreOf(ledger, gate, q) = BestScore(p, ledger, gate)

-----------------------------------------------------------------------------
(* The competitive bar *)

(* The score at rank ceil(n / 10) of the standings s.                      *)
top_fraction_threshold(s) ==
    LET n == Len(s)
        k == Max({1, Min({n, (n + 9) \div 10})})
    IN  CHOOSE v \in {s[i] : i \in 1 .. n} :
           /\ Cardinality({i \in 1 .. n : s[i] > v}) < k
           /\ Cardinality({i \in 1 .. n : s[i] >= v}) >= k

(* Kaggle's public score of proposals measured on both scales.             *)
Pairs == {q \in Proposals : real[q] # NoScore /\ proxy[q] # NoScore}

(* _calibrated_estimate(p) < target, multiplied out: the proxy shifted by  *)
(* the mean offset of the pairs, or by the pessimism while they are few,   *)
(* clamped to the scale.                                                   *)
EstimateBelow(p, target) ==
    LET n == Cardinality(Pairs)
        offset == MapThenSumSet(LAMBDA q : real[q] - proxy[q], Pairs)
    IN  IF n >= MinCalibration
        THEN Max({0, Min({MaxScore * n, proxy[p] * n + offset})}) < target * n
        ELSE Max({0, proxy[p] - Pessimism}) < target

(* The cap the competition publishes, 0 when its metadata cannot be read.  *)
daily_limit_from(published) == IF published > 0 THEN published ELSE DailyFallback

(* _resolve_daily_limit: once per process.                                 *)
resolve_daily_limit ==
    IF limit # 0 THEN {limit} ELSE {daily_limit_from(n) : n \in {DailyCap, 0}}

(* remaining_budget > 0, by the limit l.                                   *)
UsedToday == Cardinality({i \in DOMAIN board : board[i].day = today})
BudgetLeft(l) == UsedToday < l

-----------------------------------------------------------------------------
Accepted == {q \in Proposals : status[q] = "accepted"}
HardGate == [improve |-> "selection", always |-> "score-and-accept", kaggle |-> "kaggle"][mode]

Init ==
    /\ mode \in Modes
    /\ current = 0 /\ server = "down"
    /\ sub = [p \in Proposals |-> NoSubmission]
    /\ status = [p \in Proposals |-> "none"]
    /\ recorded = [p \in Proposals |-> NoScores]
    /\ job = [p \in Proposals |-> NoJob]
    /\ proxy = NoLedger /\ real = NoLedger /\ cache = {} /\ limit = 0
    /\ board = <<>> /\ today = 1 /\ faults = 0

(* The control plane sends a new submission, with the accepted ones and    *)
(* the rejected count of this moment.  A server without an impl answers    *)
(* that it is not set up, which fails the cycle.                           *)
Dispatch(p, s) ==
    /\ current = 0 /\ status[p] = "none" /\ \A q \in 1 .. p - 1 : status[q] # "none"
    /\ sub' = [sub EXCEPT ![p] = s]
    /\ status' = [status EXCEPT ![p] = "proposed"]
    /\ server # "down"
    /\ IF server = "ready"
       THEN /\ current' = p
            /\ job' = [job EXCEPT ![p] = [NoJob EXCEPT
                          !.phase = "runs-clean", !.incumbents = Accepted,
                          !.trials = Cardinality({q \in Proposals : status[q] = "rejected"})]]
       ELSE UNCHANGED <<current, job>>
    /\ UNCHANGED <<mode, recorded, server, proxy, real, cache, limit, kaggle, faults>>

HoldoutPipeline == <<"runs-clean", IF mode = "always" THEN "score-and-accept" ELSE "selection">>
KagglePipeline == <<"runs-clean", "proxy-improves", "competitive", "regenerate">>

(* _run_pipeline: a rung that clears hands over to the next one; a reject, *)
(* a refine or the last accept ends the evaluation.                        *)
Clears(p, next, scores) ==
    job' = [job EXCEPT ![p] = [@ EXCEPT !.phase = next, !.scores = scores]]
Ends(p, bundle, scores, supersedes) ==
    job' = [job EXCEPT ![p] = [@ EXCEPT !.phase = "done", !.bundle = bundle, !.scores = scores,
                                        !.supersedes = supersedes]]
Score(p, gate, n) == [job[p].scores EXCEPT ![gate] = n]

(* runnable: the script executes and predicts every reserved row.          *)
Runnable(p) ==
    /\ job[p].phase = "runs-clean"
    /\ \E r \in RunResult(p, "holdout") :
          /\ CacheRun(p, "holdout", r)
          /\ IF r = "full"
             THEN Clears(p, IF mode = "kaggle" THEN KagglePipeline[2] ELSE HoldoutPipeline[2],
                         NoScores)
             ELSE Ends(p, "rejected", NoScores, 0)
    /\ UNCHANGED <<mode, cp, server, proxy, real, limit, kaggle, faults>>

(* selection: strictly above the incumbent plus the deflated margin.       *)
Selection(p) ==
    LET n == balanced_accuracy(p)
        bar == BestScore(p, proxy, "selection") + Margin + TrialDeflation * job[p].trials
    IN  /\ job[p].phase = "selection"
        /\ proxy' = [proxy EXCEPT ![p] = n]
        /\ IF n > bar
           THEN Ends(p, "accepted", Score(p, "selection", n), BestId(p, proxy, "selection"))
           ELSE Ends(p, "rejected", Score(p, "selection", n), 0)
        /\ UNCHANGED <<mode, cp, server, real, cache, limit, kaggle, faults>>

ScoreAndAccept(p) ==
    /\ job[p].phase = "score-and-accept"
    /\ proxy' = [proxy EXCEPT ![p] = balanced_accuracy(p)]
    /\ Ends(p, "accepted", Score(p, "score-and-accept", balanced_accuracy(p)), 0)
    /\ UNCHANGED <<mode, cp, server, real, cache, limit, kaggle, faults>>

(* Mutant: an equal local score passes.                                    *)
NotWorse(p, n) == n < BestScore(p, proxy, "proxy-improves") + Margin

NoImprovement(p, n) == n <= BestScore(p, proxy, "proxy-improves") + Margin

ProxyImproves(p) ==
    LET n == balanced_accuracy(p)
    IN  /\ job[p].phase = "proxy-improves"
        /\ proxy' = [proxy EXCEPT ![p] = n]
        /\ IF NoImprovement(p, n)
           THEN Ends(p, "rejected", Score(p, "proxy-improves", n), 0)
           ELSE Clears(p, KagglePipeline[3], Score(p, "proxy-improves", n))
        /\ UNCHANGED <<mode, cp, server, real, cache, limit, kaggle, faults>>

(* competitive: an empty leaderboard cannot gate.                          *)
Competitive(p, standings) ==
    /\ job[p].phase = "competitive"
    /\ IF standings # <<>> /\ EstimateBelow(p, top_fraction_threshold(standings))
       THEN Ends(p, "revised", job[p].scores, 0)
       ELSE Clears(p, KagglePipeline[4], job[p].scores)
    /\ UNCHANGED <<mode, cp, server, proxy, real, cache, limit, kaggle, faults>>

(* kaggle: first the same script on the full data ...                      *)
Regenerate(p) ==
    /\ job[p].phase = "regenerate"
    /\ \E r \in RunResult(p, "real") :
          /\ CacheRun(p, "real", r)
          /\ IF r \in {"full", "partial"} THEN Clears(p, "budget", job[p].scores)
             ELSE Ends(p, "rejected", job[p].scores, 0)
    /\ UNCHANGED <<mode, cp, server, proxy, real, limit, kaggle, faults>>

(* ... then the wait for the daily budget, under a limit resolved once ... *)
AwaitBudget(p) ==
    /\ job[p].phase = "budget"
    /\ limit' \in resolve_daily_limit
    /\ BudgetLeft(limit')
    /\ Clears(p, "submit", job[p].scores)
    /\ UNCHANGED <<mode, cp, server, proxy, real, cache, kaggle, faults>>

(* Mutant: the wait for the budget has no deadline.                        *)
NoDeadline(p) == FALSE /\ UNCHANGED vars

BudgetDeadline(p) ==
    /\ job[p].phase = "budget"
    /\ limit' \in resolve_daily_limit
    /\ ~BudgetLeft(limit')
    /\ Ends(p, "unavailable", job[p].scores, 0)
    /\ UNCHANGED <<mode, cp, server, proxy, real, cache, kaggle, faults>>

(* ... then the submission, which Kaggle refuses over its cap, and whose   *)
(* acknowledgement may be lost after Kaggle recorded it.                   *)
Entry(p) == [who |-> p, day |-> today, grade |-> Pending,
             over |-> IF p # 0 /\ current = p THEN Accepted ELSE {}]

Submit(p) ==
    /\ job[p].phase = "submit"
    /\ IF UsedToday < DailyCap
       THEN /\ board' = Append(board, Entry(p))
            /\ \/ job' = [job EXCEPT ![p] = [@ EXCEPT !.phase = "poll", !.own = Len(board) + 1]]
               \/ Ends(p, "unavailable", job[p].scores, 0)
       ELSE Ends(p, "unavailable", job[p].scores, 0) /\ UNCHANGED board
    /\ UNCHANGED <<mode, cp, server, proxy, real, cache, limit, today, faults>>

(* Mutant: the listing is taken to be newest-last when it is not.          *)
FirstListed == 1

(* _newest: the submission with the latest date.                           *)
Newest == Len(board)

(* _poll_score: the newest submission, once graded, gives the score, and   *)
(* the incumbents' public scores are the bar.                              *)
PollScore(p) ==
    LET n == board[Newest].grade
        ledger == [real EXCEPT ![p] = n]
        best == BestScore(p, ledger, "kaggle")
    IN  /\ job[p].phase = "poll"
        /\ n \in Scores
        /\ real' = ledger
        /\ IF n > best
           THEN Ends(p, "accepted", Score(p, "kaggle", n), BestId(p, ledger, "kaggle"))
           ELSE Ends(p, "rejected", Score(p, "kaggle", n), 0)
        /\ UNCHANGED <<mode, cp, server, proxy, cache, limit, kaggle, faults>>

(* The newest submission failed, or the wait for its grade ran out.        *)
PollFails(p) ==
    /\ job[p].phase = "poll"
    /\ board[Newest].grade \in {Errored, Pending}
    /\ Ends(p, "unavailable", job[p].scores, 0)
    /\ UNCHANGED <<mode, cp, server, proxy, real, cache, limit, kaggle, faults>>

(* The code-runner or the Kaggle API fails under a rung that calls it.  An *)
(* error the envelope names crosses as itself, any other as a transport    *)
(* error; the client degrades the latter, so both are recoverable.         *)
ERROR_KINDS == {"GateUnavailable", "SandboxError", "VerifierError", "ProviderError"}
parse_result(kind) == IF kind \in ERROR_KINDS THEN kind ELSE "TransportError"
Degrades(kind) == parse_result(kind) \in {"TransportError", "GateUnavailable"}

GateUnavailable(p, kind) ==
    /\ Degrades(kind)
    /\ job[p].phase \in {"runs-clean", "competitive", "regenerate", "budget", "submit", "poll"}
    /\ Ends(p, "unavailable", job[p].scores, 0)
    /\ UNCHANGED <<mode, cp, server, proxy, real, cache, limit, kaggle, faults>>

(* The reply: the awaited one commits the decisions, the resting status    *)
(* and the supersession; that of an abandoned call goes nowhere.           *)
Reply(p) ==
    /\ job[p].phase = "done"
    /\ job' = [job EXCEPT ![p] = NoJob]
    /\ current' = IF current = p THEN 0 ELSE current
    /\ IF current = p /\ job[p].bundle # "unavailable"
       THEN /\ recorded' = [recorded EXCEPT ![p] = job[p].scores]
            /\ status' = [q \in Proposals |->
                            IF q = p THEN job[p].bundle
                            ELSE IF q = job[p].supersedes THEN "superseded" ELSE status[q]]
       ELSE UNCHANGED <<recorded, status>>
    /\ UNCHANGED <<mode, sub, server, proxy, real, cache, limit, kaggle, faults>>

(* The transport gives up on the call, by its own timeout or a connection  *)
(* that breaks: the cycle fails, the evaluation goes on.                   *)
Abandon(p) ==
    /\ current = p
    /\ job[p].phase = "idle" \/ faults < MaxFaults
    /\ faults' = IF job[p].phase = "idle" THEN faults ELSE faults + 1
    /\ current' = 0
    /\ UNCHANGED <<mode, sub, status, recorded, process, kaggle>>

(* Gates built anew: empty ledgers, an empty cache, no evaluation.         *)
FreshGates ==
    /\ job' = [p \in Proposals |-> NoJob]
    /\ proxy' = NoLedger /\ real' = NoLedger /\ cache' = {} /\ limit' = 0

(* The verifier process dies: a restarted server has no impl.              *)
LoseVerifier ==
    /\ server = "ready" /\ faults < MaxFaults
    /\ faults' = faults + 1
    /\ server' = "empty"
    /\ FreshGates
    /\ UNCHANGED <<mode, cp, kaggle>>

(* The run ends: teardown destroys the launched process and what ran in it.*)
Teardown ==
    /\ server # "down" /\ current = 0
    /\ server' = "down"
    /\ FreshGates
    /\ UNCHANGED <<mode, cp, kaggle, faults>>

(* A run over the same store provisions a new process: setup first, which  *)
(* fails, and the run with it, unless every object the gates hold is sent. *)
HoldoutObjects == {"train.csv", "holdout.csv", "holdout_labels.csv"}
KaggleObjects == HoldoutObjects \cup {"full_train.csv", "test.csv"}

Provision(shipped) ==
    /\ server = "down" /\ current = 0
    /\ (IF mode = "kaggle" THEN KaggleObjects ELSE HoldoutObjects) \subseteq shipped
    /\ server' = "ready"
    /\ FreshGates
    /\ UNCHANGED <<mode, cp, kaggle, faults>>

(* Kaggle and the rest of the team, on their own time.                     *)
TeamSubmits ==
    /\ mode = "kaggle"
    /\ Cardinality({i \in DOMAIN board : board[i].who = 0}) < MaxTeam
    /\ UsedToday < DailyCap
    /\ board' = Append(board, Entry(0))
    /\ UNCHANGED <<mode, cp, process, today, faults>>

Grade(i, g) ==
    /\ i \in DOMAIN board /\ board[i].grade = Pending
    /\ board' = [board EXCEPT ![i].grade = g]
    /\ UNCHANGED <<mode, cp, process, today, faults>>

NewDay ==
    /\ today < MaxDays /\ board # <<>>
    /\ today' = today + 1
    /\ UNCHANGED <<mode, cp, process, board, faults>>

(* What the verifier process does for the evaluation of p.                 *)
Step(p) ==
    \/ Runnable(p) \/ Selection(p) \/ ScoreAndAccept(p) \/ ProxyImproves(p)
    \/ \E s \in Standings : Competitive(p, s)
    \/ Regenerate(p) \/ AwaitBudget(p) \/ BudgetDeadline(p) \/ Submit(p)
    \/ PollScore(p) \/ PollFails(p)
    \/ \E kind \in {"GateUnavailable", "RuntimeError"} : GateUnavailable(p, kind)

Next ==
    \/ \E p \in Proposals : Step(p) \/ Reply(p) \/ Abandon(p)
    \/ \E p \in Proposals, s \in Submission : Dispatch(p, s)
    \/ LoseVerifier \/ Teardown \/ TeamSubmits \/ NewDay
    \/ \E shipped \in SUBSET KaggleObjects : Provision(shipped)
    \/ \E i \in 1 .. MaxProposals + MaxTeam, g \in Scores \cup {Errored} : Grade(i, g)

(* The event loop runs every coroutine that can run, and both waits have a *)
(* deadline; GateUnavailable is not something to wait for.                 *)
Fairness == \A p \in Proposals :
    /\ WF_vars(Runnable(p) \/ Selection(p) \/ ScoreAndAccept(p) \/ ProxyImproves(p))
    /\ WF_vars(\E s \in Standings : Competitive(p, s))
    /\ WF_vars(Regenerate(p) \/ AwaitBudget(p) \/ BudgetDeadline(p) \/ Submit(p))
    /\ WF_vars(PollScore(p) \/ PollFails(p))
    /\ WF_vars(Reply(p))

Spec == Init /\ [][Next]_vars /\ Fairness

-----------------------------------------------------------------------------
(* Properties *)

(* The store never holds two rival winners, and the one it holds scored    *)
(* above everything it retired, under the score of the hard gate: also     *)
(* when the process that measured the incumbent is gone and its ledger     *)
(* with it, and when abandoned evaluations ran beside the one that won.    *)
(* The permissive policy retires nothing.  (_best_incumbent, _best)        *)
IncumbentIsBest ==
    IF mode = "always" THEN \A q \in Proposals : status[q] # "superseded"
    ELSE /\ Cardinality(Accepted) <= 1
         /\ \A a \in Accepted, r \in Proposals :
               status[r] = "superseded" => recorded[a][HardGate] > recorded[r][HardGate]

(* "A Kaggle call is never spent on a locally-worse-or-equal attempt": a   *)
(* submission of an evaluation the control plane still awaited beats, by   *)
(* more than the margin, the hold-out score of what was accepted when it   *)
(* was sent, whatever process measured that.  (proxy_improves)             *)
SpendsOnlyOnImprovement ==
    \A i \in DOMAIN board : \A q \in board[i].over :
        balanced_accuracy(board[i].who) > recorded[q]["proxy-improves"] + Margin

(* The score taken for a proposal is never that of a submission made       *)
(* before its own.  (_poll_score reads the newest submission of the team:  *)
(* it may be a later one, never an earlier one.)                           *)
ScoreNotStale ==
    \A p \in Proposals :
        job[p].phase = "done" /\ job[p].scores["kaggle"] # NoScore =>
            \E i \in job[p].own .. Len(board) : board[i].grade = job[p].scores["kaggle"]

(* Every evaluation ends, though no grade ever arrives and the daily cap   *)
(* never frees: "bounded by wait_deadline_s ... so it never hangs".        *)
EvaluationEnds ==
    \A p \in Proposals : job[p].phase # "idle" ~> job[p].phase = "idle"

(* What the feedback promises: "the gate installs EXACTLY what             *)
(* requirements.txt lists into a fresh container", so a submission that    *)
(* would run is not rejected as one that does not.                         *)
VerdictFitsSubmission ==
    \A p \in Proposals :
        status[p] = "rejected" /\ recorded[p] = NoScores => Execute(sub[p]) # "full"

=============================================================================
