---------------------- MODULE SubmissionVerifierProofs ----------------------
(***************************************************************************)
(* TLAPS proofs about SubmissionVerifier, for any number of proposals and  *)
(* faults, any scale, margins and daily caps, and all three pipelines.     *)
(*                                                                         *)
(* The properties compare scores that were measured at different moments,  *)
(* by different processes, and come back to the control plane by different *)
(* ways.  They hold because of three facts that no single rung shows: the  *)
(* slice of the evaluation that is awaited is still the accepted set when  *)
(* it commits (Awaited), a ledger agrees with the decisions recorded       *)
(* (Evaluated), and what was accepted keeps its scores (Filed).            *)
(***************************************************************************)
EXTENDS SubmissionVerifier, FiniteSetTheorems, SequenceTheorems, TLAPS

USE VerifierAssumption DEF NoScore, Pending, Errored

ScoreSet == Scores \cup {NoScore}

Phases == {"idle", "runs-clean", "selection", "score-and-accept", "proxy-improves", "competitive",
           "regenerate", "budget", "submit", "poll", "done"}

\* The phases of an evaluation, by pipeline.
Ladder == [improve |-> {"idle", "runs-clean", "selection", "done"},
           always  |-> {"idle", "runs-clean", "score-and-accept", "done"},
           kaggle  |-> {"idle", "runs-clean", "proxy-improves", "competitive", "regenerate",
                        "budget", "submit", "poll", "done"}]

\* The rungs after the local score was found to improve.
Improved == {"competitive", "regenerate", "budget", "submit", "poll"}

Statuses == {"none", "proposed", "accepted", "rejected", "revised", "superseded"}

Evaluation ==
    [phase : Phases, incumbents : SUBSET Proposals, trials : Nat, scores : [Gate -> ScoreSet],
     bundle : {"none", "accepted", "rejected", "revised", "unavailable"},
     supersedes : 0 .. MaxProposals, own : Nat]

Listed == [who : 0 .. MaxProposals, day : Nat, grade : ScoreSet \cup {Errored}, over : SUBSET Proposals]

Types ==
    /\ mode \in Modes
    /\ current \in 0 .. MaxProposals
    /\ sub \in [Proposals -> Submission \cup {NoSubmission}]
    /\ status \in [Proposals -> Statuses]
    /\ recorded \in [Proposals -> [Gate -> ScoreSet]]
    /\ job \in [Proposals -> Evaluation]
    /\ proxy \in [Proposals -> ScoreSet] /\ real \in [Proposals -> ScoreSet]
    /\ board \in Seq(Listed) /\ today \in Nat

\* The scores s, of an evaluation of p or recorded for it, are those its gates
\* measure: the hold-out ones are that of its script.
Measured(p, s) ==
    /\ s["selection"] \in {NoScore, balanced_accuracy(p)}
    /\ s["proxy-improves"] \in {NoScore, balanced_accuracy(p)}
    /\ mode = "improve" => \A g \in Gate \ {"selection"} : s[g] = NoScore

\* The scores s are those of a proposal that went up the whole ladder.
Cleared(p, s) ==
    /\ mode = "improve" => s["selection"] = balanced_accuracy(p)
    /\ mode = "kaggle" => s["proxy-improves"] = balanced_accuracy(p) /\ s["kaggle"] \in Scores

\* Some submission from index own on has that grade.
Graded(own, n) == \E i \in own .. Len(board) : board[i].grade = n

\* An evaluation that ended.
Ended(p) ==
    /\ job[p].bundle # "none"
    /\ job[p].bundle = "accepted" => Cleared(p, job[p].scores)
    /\ job[p].scores["kaggle"] # NoScore => job[p].own > 0 /\ Graded(job[p].own, job[p].scores["kaggle"])
    /\ real[p] # NoScore => real[p] = job[p].scores["kaggle"]

\* An evaluation inside the process, awaited or not, and the ledgers' entries.
Evaluated(p) ==
    /\ job[p].phase # "idle" => status[p] = "proposed"
    /\ job[p].phase \in Ladder[mode]
    /\ \A a \in job[p].incumbents : status[a] \in {"accepted", "superseded"}
    /\ mode # "always" => \A a, b \in job[p].incumbents : a = b
    /\ Measured(p, job[p].scores)
    /\ proxy[p] \in {NoScore, balanced_accuracy(p)}
    /\ status[p] = "none" => proxy[p] = NoScore /\ real[p] = NoScore
    /\ job[p].phase \in Improved => job[p].scores["proxy-improves"] = balanced_accuracy(p)
    /\ job[p].phase \notin {"idle", "done"} => job[p].scores["kaggle"] = NoScore /\ real[p] = NoScore
    /\ job[p].phase = "poll" => job[p].own \in 1 .. Len(board)
    /\ job[p].phase = "done" => Ended(p)
    /\ job[p].phase = "idle" => job[p] = NoJob
    /\ job[p].phase = "idle" => recorded[p]["kaggle"] = NoScore \/ real[p] \in {NoScore, recorded[p]["kaggle"]}
    /\ job[p].supersedes # 0 => job[p].phase = "done" /\ job[p].bundle = "accepted" /\ mode # "always"

\* The decisions recorded for a proposal.
Filed(p) ==
    /\ status[p] \in {"none", "proposed"} => recorded[p] = NoScores
    /\ Measured(p, recorded[p])
    /\ status[p] \in {"accepted", "superseded"} => Cleared(p, recorded[p])

\* The evaluation the control plane awaits: its slice is not stale, and what
\* its rungs established against the slice still holds against the store.
Awaited ==
    current # 0 =>
        /\ status[current] = "proposed"
        /\ job[current].phase # "idle" => job[current].incumbents = Accepted
        /\ job[current].phase \in Improved =>
               \A q \in Accepted : balanced_accuracy(current) > recorded[q]["proxy-improves"] + Margin
        /\ job[current].supersedes # 0 => job[current].supersedes \in Accepted
        /\ job[current].phase = "done" /\ job[current].bundle = "accepted" /\ mode # "always" =>
               \A a \in Accepted : /\ job[current].supersedes = a
                                   /\ job[current].scores[HardGate] > recorded[a][HardGate]

\* One winner, above all it retired.
Rivals ==
    IF mode = "always" THEN \A q \in Proposals : status[q] # "superseded"
    ELSE /\ \A a, b \in Accepted : a = b
         /\ \A r \in Proposals : status[r] = "superseded" =>
                /\ Accepted # {}
                /\ \A a \in Accepted : recorded[a][HardGate] > recorded[r][HardGate]

\* What was spent was spent on an improvement over what was then accepted.
Spent(i) ==
    \A q \in board[i].over :
        /\ board[i].who \in Proposals /\ status[board[i].who] # "none"
        /\ status[q] \in {"accepted", "superseded"}
        /\ balanced_accuracy(board[i].who) > recorded[q]["proxy-improves"] + Margin

IInv ==
    /\ Types
    /\ \A p \in Proposals : Evaluated(p) /\ Filed(p)
    /\ Awaited /\ Rivals
    /\ \A i \in DOMAIN board : Spent(i)

-----------------------------------------------------------------------------
(* Ranges *)

LEMMA Ranges ==
    /\ 0 \notin Proposals /\ Proposals \subseteq 0 .. MaxProposals
    /\ 0 \in Scores /\ Scores \subseteq Nat /\ NoScore \notin Scores /\ ScoreSet \subseteq Int
  BY DEF Proposals, Scores, ScoreSet

LEMMA ScriptScore ==
    ASSUME Types, NEW p \in Proposals
    PROVE  balanced_accuracy(p) \in Scores
<1>1. sub[p] \in Submission \/ sub[p] = NoSubmission
  BY DEF Types
<1>2. CASE sub[p] \in Submission
  <2>1. sub[p].script \in Script
    BY <1>2 DEF Submission
  <2> QED
    BY <2>1 DEF Script, balanced_accuracy
<1>3. CASE sub[p] = NoSubmission
  BY <1>3, Ranges DEF NoSubmission, balanced_accuracy
<1> QED
  BY <1>1, <1>2, <1>3

LEMMA NoScoresFacts ==
    NoScores \in [Gate -> ScoreSet] /\ \A g \in Gate : NoScores[g] = NoScore
  BY DEF NoScores, ScoreSet

LEMMA NoJobFacts ==
    /\ NoJob \in Evaluation
    /\ NoJob.phase = "idle" /\ NoJob.incumbents = {} /\ NoJob.scores = NoScores
    /\ NoJob.bundle = "none" /\ NoJob.supersedes = 0 /\ NoJob.own = 0
  BY NoScoresFacts DEF NoJob, Evaluation, Phases

\* What a rung that clears does to the evaluation.
LEMMA ClearsEffect ==
    ASSUME Types, NEW p \in Proposals, NEW next \in Phases, NEW s \in [Gate -> ScoreSet],
           Clears(p, next, s)
    PROVE  /\ job' \in [Proposals -> Evaluation]
           /\ \A q \in Proposals : q # p => job'[q] = job[q]
           /\ job'[p].phase = next /\ job'[p].scores = s
           /\ job'[p].incumbents = job[p].incumbents
           /\ job'[p].bundle = job[p].bundle /\ job'[p].supersedes = job[p].supersedes
           /\ job'[p].own = job[p].own
<1> DEFINE j == [job[p] EXCEPT !.phase = next, !.scores = s]
<1>1. job[p] \in Evaluation /\ job' = [job EXCEPT ![p] = j]
  BY DEF Types, Clears
<1>2. /\ j \in Evaluation /\ j.phase = next /\ j.scores = s /\ j.incumbents = job[p].incumbents
      /\ j.bundle = job[p].bundle /\ j.supersedes = job[p].supersedes /\ j.own = job[p].own
  BY <1>1 DEF Evaluation
<1> HIDE DEF j
<1> QED
  BY <1>1, <1>2 DEF Types

\* What the end of an evaluation does to it.
Stops(p, bundle, s, x) ==
    /\ job' \in [Proposals -> Evaluation]
    /\ \A q \in Proposals : q # p => job'[q] = job[q]
    /\ job'[p].phase = "done" /\ job'[p].scores = s
    /\ job'[p].incumbents = job[p].incumbents
    /\ job'[p].bundle = bundle /\ job'[p].supersedes = x
    /\ job'[p].own = job[p].own

LEMMA EndsEffect ==
    ASSUME Types, NEW p \in Proposals, NEW s \in [Gate -> ScoreSet],
           NEW bundle \in {"accepted", "rejected", "revised", "unavailable"},
           NEW x \in 0 .. MaxProposals, Ends(p, bundle, s, x)
    PROVE  Stops(p, bundle, s, x)
<1> DEFINE j == [job[p] EXCEPT !.phase = "done", !.bundle = bundle, !.scores = s, !.supersedes = x]
<1>1. job[p] \in Evaluation /\ job' = [job EXCEPT ![p] = j]
  BY DEF Types, Ends
<1>2. /\ j \in Evaluation /\ j.phase = "done" /\ j.scores = s /\ j.incumbents = job[p].incumbents
      /\ j.bundle = bundle /\ j.supersedes = x /\ j.own = job[p].own
  BY <1>1 DEF Evaluation, Phases
<1> HIDE DEF j
<1> QED
  BY <1>1, <1>2 DEF Types, Stops

\* Adding the score of a gate.
LEMMA ScoreEffect ==
    ASSUME Types, NEW p \in Proposals, NEW gate \in Gate, NEW n \in ScoreSet
    PROVE  /\ Score(p, gate, n) \in [Gate -> ScoreSet]
           /\ Score(p, gate, n)[gate] = n
           /\ \A g \in Gate : g # gate => Score(p, gate, n)[g] = job[p].scores[g]
  BY DEF Types, Score, Evaluation

-----------------------------------------------------------------------------
(* The incumbent to beat *)

\* Of a slice with at most one accepted proposal, whose score is known.
LEMMA BestOfOne ==
    ASSUME NEW p, NEW ledger, NEW gate,
           \A a, b \in job[p].incumbents : a = b,
           \A a \in job[p].incumbents : ScoreOf(ledger, gate, a) \in Scores
    PROVE  /\ BestScore(p, ledger, gate) \in Nat
           /\ BestId(p, ledger, gate) \in {0} \cup job[p].incumbents
           /\ \A a \in job[p].incumbents : /\ BestId(p, ledger, gate) = a
                                           /\ BestScore(p, ledger, gate) >= ScoreOf(ledger, gate, a)
<1> DEFINE S == job[p].incumbents
<1>1. Scored(p, ledger, gate) = S
  BY Ranges DEF Scored
<1>2. CASE S = {}
  <2>1. BestScore(p, ledger, gate) = Max({0})
    BY <1>1, <1>2 DEF BestScore
  <2>2. Max({0}) = 0
    BY DEF Max
  <2>3. BestId(p, ledger, gate) = 0
    BY <1>1, <1>2 DEF BestId
  <2> QED
    BY <1>2, <2>1, <2>2, <2>3
<1>3. ASSUME NEW a \in S
      PROVE  /\ BestScore(p, ledger, gate) \in Nat /\ BestId(p, ledger, gate) = a
             /\ BestScore(p, ledger, gate) >= ScoreOf(ledger, gate, a)
  <2> DEFINE x == ScoreOf(ledger, gate, a)
  <2>1. S = {a} /\ x \in Nat
    BY <1>3, Ranges
  <2>2. {0} \cup {ScoreOf(ledger, gate, q) : q \in Scored(p, ledger, gate)} = {0, x}
    BY <1>1, <2>1
  <2> HIDE DEF x
  <2>3. Max({0, x}) = x
    <3>1. x \in {0, x} /\ \A y \in {0, x} : x >= y
      BY <2>1
    <3>2. \A m \in {0, x} : (\A y \in {0, x} : m >= y) => m = x
      BY <2>1
    <3> QED
      BY <3>1, <3>2 DEF Max
  <2>4. BestScore(p, ledger, gate) = x
    BY <2>2, <2>3 DEF BestScore
  <2>5. BestId(p, ledger, gate) = a
    <3>1. Scored(p, ledger, gate) = {a}
      BY <1>1, <2>1
    <3>2. \E q \in {a} : ScoreOf(ledger, gate, q) = BestScore(p, ledger, gate)
      BY <2>4 DEF x
    <3> QED
      BY <3>1, <3>2 DEF BestId
  <2> QED
    BY <2>1, <2>4, <2>5 DEF x
<1> QED
  BY <1>2, <1>3

\* The score of a proposal that was accepted, from whichever source, is the
\* one recorded for it.
LEMMA ScoreKnown ==
    ASSUME Types, NEW a \in Proposals, Evaluated(a), Filed(a), status[a] \in {"accepted", "superseded"}
    PROVE  /\ mode = "improve" => /\ ScoreOf(proxy, "selection", a) = recorded[a]["selection"]
                                  /\ recorded[a]["selection"] \in Scores
           /\ mode = "kaggle" =>
                  /\ ScoreOf(proxy, "proxy-improves", a) = recorded[a]["proxy-improves"]
                  /\ recorded[a]["proxy-improves"] \in Scores
                  /\ ScoreOf(real, "kaggle", a) = recorded[a]["kaggle"]
                  /\ recorded[a]["kaggle"] \in Scores
<1>1. /\ balanced_accuracy(a) \in Scores /\ Cleared(a, recorded[a]) /\ Measured(a, recorded[a])
      /\ proxy[a] \in {NoScore, balanced_accuracy(a)}
      /\ job[a].phase = "idle" /\ recorded[a] \in [Gate -> ScoreSet]
  BY ScriptScore DEF Evaluated, Filed, Types
<1>2. CASE mode = "improve"
  <2>1. recorded[a]["selection"] = balanced_accuracy(a)
        /\ \A g \in Gate \ {"selection"} : recorded[a][g] = NoScore
    BY <1>1, <1>2 DEF Cleared, Measured
  <2> DEFINE x == balanced_accuracy(a)
  <2>2. {recorded_scores(a)[g] : g \in Gate} = {NoScore, x}
    BY <2>1 DEF Gate, recorded_scores
  <2>3. x \in Nat
    BY <1>1, Ranges
  <2> HIDE DEF x
  <2>4. Max({NoScore, x}) = x
    <3>1. x \in {NoScore, x} /\ \A y \in {NoScore, x} : x >= y
      BY <2>3
    <3>2. \A m \in {NoScore, x} : (\A y \in {NoScore, x} : m >= y) => m = x
      BY <2>3
    <3> QED
      BY <3>1, <3>2 DEF Max
  <2> QED
    BY <1>1, <1>2, <2>1, <2>2, <2>4 DEF ScoreOf, x
<1>3. CASE mode = "kaggle"
  <2>1. recorded[a]["proxy-improves"] = balanced_accuracy(a) /\ recorded[a]["kaggle"] \in Scores
    BY <1>1, <1>3 DEF Cleared
  <2>2. real[a] \in {NoScore, recorded[a]["kaggle"]}
    BY <1>1, <2>1, Ranges DEF Evaluated
  <2> QED
    BY <1>1, <1>3, <2>1, <2>2 DEF ScoreOf, recorded_scores
<1> QED
  BY <1>2, <1>3

-----------------------------------------------------------------------------
(* Steps of an evaluation *)

\* A step of the evaluation of p: the store and the other evaluations stay,
\* and Kaggle's list only grows.
Rung(p) ==
    /\ UNCHANGED <<mode, current, sub, status, recorded>>
    /\ job' \in [Proposals -> Evaluation]
    /\ proxy' \in [Proposals -> ScoreSet] /\ real' \in [Proposals -> ScoreSet]
    /\ \A q \in Proposals : q # p => job'[q] = job[q] /\ proxy'[q] = proxy[q] /\ real'[q] = real[q]
    /\ board' \in Seq(Listed) /\ Len(board) <= Len(board')
    /\ \A i \in 1 .. Len(board) : board'[i] = board[i]
    /\ today' = today

LEMMA RungKeeps ==
    ASSUME IInv, NEW p \in Proposals, Rung(p), Evaluated(p)', current = p => Awaited',
           \A i \in DOMAIN board' : i > Len(board) => Spent(i)'
    PROVE  IInv'
<1> USE DEF Rung
<1>1. Types'
  BY DEF IInv, Types
<1>2. ASSUME NEW q \in Proposals
      PROVE  Evaluated(q)' /\ Filed(q)'
  <2>1. Filed(q)'
    BY DEF IInv, Filed, Measured, Cleared, balanced_accuracy
  <2>2. CASE q # p
    <3>1. Len(board) \in Nat /\ Len(board') \in Nat
      BY DEF IInv, Types
    <3>2. ASSUME NEW own \in Nat, NEW n, own > 0, Graded(own, n)
          PROVE  Graded(own, n)'
      <4>1. PICK i \in own .. Len(board) : board[i].grade = n
        BY <3>2 DEF Graded
      <4>2. i \in 1 .. Len(board) /\ i \in own .. Len(board')
        BY <3>1, <3>2
      <4> QED
        BY <4>1, <4>2 DEF Graded
    <3>3. job[q] \in Evaluation /\ job'[q] = job[q] /\ proxy'[q] = proxy[q] /\ real'[q] = real[q]
      BY <2>2 DEF IInv, Types
    <3> DEFINE o == job[q].own
               k == job[q].scores["kaggle"]
    <3>4. o \in Nat
      BY <3>3 DEF Evaluation
    <3>5. Evaluated(q)
      BY DEF IInv
    <3>6. o \in 1 .. Len(board) => o \in 1 .. Len(board')
      <4> HIDE DEF o
      <4> QED
        BY <3>1, <3>4
    <3>7. o > 0 /\ Graded(o, k) => \E i \in o .. Len(board') : board'[i].grade = k
      <4> HIDE DEF o, k
      <4> QED
        BY <3>2, <3>4 DEF Graded
    <3>8. Ended(q) => Ended(q)'
      BY <3>3, <3>7 DEF Ended, Cleared, Graded, balanced_accuracy
    <3> QED
      BY <2>1, <3>3, <3>5, <3>6, <3>8 DEF Evaluated, Measured, balanced_accuracy
  <2> QED
    BY <2>1, <2>2
<1>3. Awaited'
  <2>1. CASE current = p
    BY <2>1
  <2>2. CASE current # p /\ current # 0
    <3>1. current \in Proposals
      BY <2>2 DEF IInv, Types, Proposals
    <3> QED
      BY <2>2, <3>1 DEF IInv, Awaited, Accepted, HardGate, balanced_accuracy
  <2>3. CASE current = 0
    BY <2>3 DEF Awaited
  <2> QED
    BY <2>1, <2>2, <2>3
<1>4. Rivals'
  BY DEF IInv, Rivals, Accepted, HardGate
<1>5. ASSUME NEW i \in DOMAIN board'
      PROVE  Spent(i)'
  <2>1. CASE i > Len(board)
    BY <2>1
  <2>2. CASE ~(i > Len(board))
    <3>1. i \in 1 .. Len(board) /\ i \in DOMAIN board
      BY <2>2 DEF IInv, Types
    <3>2. board'[i] = board[i] /\ Spent(i)
      BY <3>1 DEF IInv
    <3> QED
      BY <3>2 DEF Spent, balanced_accuracy
  <2> QED
    BY <2>1, <2>2
<1> QED
  BY <1>1, <1>2, <1>3, <1>4, <1>5 DEF IInv

\* A rung that clears, with its scores, within its ladder.
LEMMA ClearKeeps ==
    ASSUME IInv, NEW p \in Proposals, job[p].phase \notin {"idle", "done"},
           NEW next \in Ladder[mode] \ {"idle", "done", "poll"}, NEW s \in [Gate -> ScoreSet],
           Clears(p, next, s),
           Measured(p, s), s["kaggle"] = NoScore,
           next \in Improved => s["proxy-improves"] = balanced_accuracy(p),
           next \in Improved /\ current = p =>
               \A q \in Accepted : balanced_accuracy(p) > recorded[q]["proxy-improves"] + Margin,
           proxy' \in [Proposals -> ScoreSet], \A q \in Proposals : q # p => proxy'[q] = proxy[q],
           proxy'[p] \in {NoScore, balanced_accuracy(p)},
           UNCHANGED <<mode, cp, real, kaggle>>
    PROVE  IInv'
<1>1. Types /\ Evaluated(p) /\ job[p] \in Evaluation /\ real[p] = NoScore /\ job[p].supersedes = 0
  BY DEF IInv, Types, Evaluated
<1>2. next \in Phases
  BY <1>1 DEF Types, Ladder, Phases
<1>3. /\ job' \in [Proposals -> Evaluation]
      /\ \A q \in Proposals : q # p => job'[q] = job[q]
      /\ job'[p].phase = next /\ job'[p].scores = s
      /\ job'[p].incumbents = job[p].incumbents
      /\ job'[p].supersedes = 0
  BY <1>1, <1>2, ClearsEffect
<1>4. Rung(p)
  BY <1>1, <1>3 DEF Rung, Types, cp, kaggle
<1>5. Evaluated(p)'
  BY <1>1, <1>3 DEF Evaluated, Measured, balanced_accuracy, cp
<1>6. current = p => Awaited'
  BY <1>1, <1>3 DEF IInv, Awaited, Accepted, balanced_accuracy, cp
<1> QED
  BY <1>1, <1>4, <1>5, <1>6, RungKeeps DEF kaggle, Types

LEMMA LadderEnds ==
    ASSUME mode \in Modes
    PROVE  "done" \in Ladder[mode] /\ "done" \notin Improved
  BY DEF Ladder, Improved

LEMMA LadderStarts ==
    ASSUME mode \in Modes
    PROVE  {"idle", "runs-clean"} \subseteq Ladder[mode] /\ "runs-clean" \notin Improved /\ "idle" \notin Improved
  BY DEF Ladder, Improved

\* An evaluation that ends: what an acceptance must have established against
\* its slice, and a public score against Kaggle's list.
LEMMA EndKeeps ==
    ASSUME IInv, NEW p \in Proposals, job[p].phase \notin {"idle", "done"},
           NEW bundle \in {"accepted", "rejected", "revised", "unavailable"},
           NEW s \in [Gate -> ScoreSet], NEW x \in {0} \cup job[p].incumbents,
           Ends(p, bundle, s, x), Measured(p, s),
           x # 0 => bundle = "accepted" /\ mode # "always",
           bundle = "accepted" => Cleared(p, s),
           bundle = "accepted" /\ mode # "always" =>
               \A a \in job[p].incumbents : x = a /\ s[HardGate] > recorded[a][HardGate],
           s["kaggle"] # NoScore => job[p].own > 0 /\ board' = board /\ Graded(job[p].own, s["kaggle"]),
           proxy' \in [Proposals -> ScoreSet], \A q \in Proposals : q # p => proxy'[q] = proxy[q],
           proxy'[p] \in {NoScore, balanced_accuracy(p)},
           real' \in [Proposals -> ScoreSet], \A q \in Proposals : q # p => real'[q] = real[q],
           real'[p] \in {NoScore, s["kaggle"]},
           UNCHANGED <<mode, cp, today>>,
           board' \in Seq(Listed), Len(board) <= Len(board'), \A i \in 1 .. Len(board) : board'[i] = board[i],
           \A i \in DOMAIN board' : i > Len(board) => Spent(i)'
    PROVE  IInv'
<1>1. Types /\ Evaluated(p) /\ job[p] \in Evaluation /\ job[p].incumbents \subseteq Proposals
  BY DEF IInv, Types, Evaluation
<1>2. x \in 0 .. MaxProposals
  BY <1>1, Ranges
<1>3. /\ job' \in [Proposals -> Evaluation]
      /\ \A q \in Proposals : q # p => job'[q] = job[q]
      /\ job'[p].phase = "done" /\ job'[p].scores = s
      /\ job'[p].incumbents = job[p].incumbents /\ job'[p].own = job[p].own
      /\ job'[p].supersedes = x /\ job'[p].bundle = bundle
  <2>1. Stops(p, bundle, s, x)
    BY <1>1, <1>2, EndsEffect
  <2> QED
    BY <2>1 DEF Stops
<1>4. Rung(p)
  <2>1. UNCHANGED <<mode, current, sub, status, recorded>> /\ today' = today
    BY DEF cp
  <2> QED
    BY <1>3, <2>1 DEF Rung
<1>5. "done" \in Ladder[mode] /\ "done" \notin Improved
  BY <1>1, LadderEnds DEF Types
<1>6. Ended(p)'
  BY <1>1, <1>3 DEF Ended, Cleared, Graded, balanced_accuracy, cp
<1>7. Evaluated(p)'
  BY <1>1, <1>3, <1>5, <1>6 DEF Evaluated, Measured, balanced_accuracy, cp
<1>8. current = p => Awaited'
  BY <1>1, <1>3, <1>5 DEF IInv, Awaited, Accepted, HardGate, cp
<1> QED
  BY <1>1, <1>4, <1>7, <1>8, RungKeeps

\* The common case: no acceptance, and nothing measured but the local score.
LEMMA StopKeeps ==
    ASSUME IInv, NEW p \in Proposals, job[p].phase \notin {"idle", "done"},
           NEW bundle \in {"rejected", "revised", "unavailable"}, NEW s \in [Gate -> ScoreSet],
           Ends(p, bundle, s, 0), Measured(p, s), s["kaggle"] = NoScore,
           proxy' \in [Proposals -> ScoreSet], \A q \in Proposals : q # p => proxy'[q] = proxy[q],
           proxy'[p] \in {NoScore, balanced_accuracy(p)},
           UNCHANGED <<mode, cp, real, kaggle>>
    PROVE  IInv'
<1>1. /\ real[p] = NoScore /\ real \in [Proposals -> ScoreSet] /\ board \in Seq(Listed)
      /\ Len(board) \in Nat /\ DOMAIN board = 1 .. Len(board)
  BY DEF IInv, Types, Evaluated
<1>2. /\ bundle \in {"accepted", "rejected", "revised", "unavailable"} /\ bundle # "accepted"
      /\ 0 \in {0} \cup job[p].incumbents
  OBVIOUS
<1>3. UNCHANGED <<mode, cp, today>> /\ board' = board /\ real' = real
  BY DEF kaggle
<1>4. /\ Len(board) <= Len(board') /\ \A i \in 1 .. Len(board) : board'[i] = board[i]
      /\ \A i \in DOMAIN board' : i > Len(board) => Spent(i)'
  BY <1>1, <1>3
<1>5. /\ real'[p] \in {NoScore, s["kaggle"]} /\ real' \in [Proposals -> ScoreSet]
      /\ \A q \in Proposals : q # p => real'[q] = real[q]
  BY <1>1, <1>3
<1> HIDE DEF NoScore
<1> QED
  BY <1>1, <1>2, <1>3, <1>4, <1>5, EndKeeps

\* An acceptance by a hold-out gate.
LEMMA AcceptKeeps ==
    ASSUME IInv, NEW p \in Proposals, job[p].phase \notin {"idle", "done"},
           NEW s \in [Gate -> ScoreSet], NEW x \in {0} \cup job[p].incumbents,
           Ends(p, "accepted", s, x), Measured(p, s), s["kaggle"] = NoScore, Cleared(p, s),
           mode = "always" => x = 0,
           mode # "always" => \A a \in job[p].incumbents : x = a /\ s[HardGate] > recorded[a][HardGate],
           proxy' \in [Proposals -> ScoreSet], \A q \in Proposals : q # p => proxy'[q] = proxy[q],
           proxy'[p] \in {NoScore, balanced_accuracy(p)},
           UNCHANGED <<mode, cp, real, kaggle>>
    PROVE  IInv'
<1>1. /\ real[p] = NoScore /\ real \in [Proposals -> ScoreSet] /\ board \in Seq(Listed)
      /\ Len(board) \in Nat /\ DOMAIN board = 1 .. Len(board)
  BY DEF IInv, Types, Evaluated
<1>3. UNCHANGED <<mode, cp, today>> /\ board' = board /\ real' = real
  BY DEF kaggle
<1>4. /\ Len(board) <= Len(board') /\ \A i \in 1 .. Len(board) : board'[i] = board[i]
      /\ \A i \in DOMAIN board' : i > Len(board) => Spent(i)'
  BY <1>1, <1>3
<1>5. /\ real'[p] \in {NoScore, s["kaggle"]} /\ real' \in [Proposals -> ScoreSet]
      /\ \A q \in Proposals : q # p => real'[q] = real[q]
  BY <1>1, <1>3
<1> HIDE DEF NoScore
<1> QED
  BY <1>1, <1>3, <1>4, <1>5, EndKeeps

\* The incumbents of an evaluation and their scores.
LEMMA Incumbents ==
    ASSUME IInv, NEW p \in Proposals, job[p].phase # "idle", NEW a \in job[p].incumbents
    PROVE  /\ a \in Proposals /\ a # p
           /\ mode = "improve" => /\ ScoreOf(proxy, "selection", a) = recorded[a]["selection"]
                                  /\ recorded[a]["selection"] \in Scores
           /\ mode = "kaggle" =>
                  /\ ScoreOf(proxy, "proxy-improves", a) = recorded[a]["proxy-improves"]
                  /\ recorded[a]["proxy-improves"] \in Scores
                  /\ ScoreOf(real, "kaggle", a) = recorded[a]["kaggle"]
                  /\ recorded[a]["kaggle"] \in Scores
<1>1. a \in Proposals
  BY DEF IInv, Types, Evaluation
<1>2. status[a] \in {"accepted", "superseded"} /\ status[p] = "proposed"
  BY DEF IInv, Evaluated
<1> QED
  BY <1>1, <1>2, ScoreKnown DEF IInv

LEMMA MeasuredNone ==
    ASSUME NEW p
    PROVE  Measured(p, NoScores)
  BY NoScoresFacts DEF Measured, Gate

LEMMA RunnableInv ==
    ASSUME IInv, NEW p \in Proposals, Runnable(p)
    PROVE  IInv'
<1>1. /\ job[p].phase = "runs-clean" /\ proxy \in [Proposals -> ScoreSet]
      /\ proxy[p] \in {NoScore, balanced_accuracy(p)} /\ mode \in {"improve", "always", "kaggle"}
      /\ UNCHANGED <<mode, cp, real, kaggle>> /\ proxy' = proxy
  BY DEF Runnable, IInv, Types, Evaluated
<1>2. NoScores \in [Gate -> ScoreSet] /\ NoScores["kaggle"] = NoScore /\ Measured(p, NoScores)
  BY NoScoresFacts, MeasuredNone DEF Gate
<1> DEFINE next == IF mode = "kaggle" THEN KagglePipeline[2] ELSE HoldoutPipeline[2]
<1>3. next \in Ladder[mode] \ {"idle", "done", "poll"} /\ next \notin Improved
  BY <1>1 DEF Ladder, Improved, KagglePipeline, HoldoutPipeline
<1>4. Clears(p, next, NoScores) \/ Ends(p, "rejected", NoScores, 0)
  BY DEF Runnable
<1> HIDE DEF next
<1>5. CASE Clears(p, next, NoScores)
  BY <1>1, <1>2, <1>3, <1>5, ClearKeeps
<1>6. CASE Ends(p, "rejected", NoScores, 0)
  BY <1>1, <1>2, <1>6, StopKeeps
<1> QED
  BY <1>4, <1>5, <1>6

\* A hold-out gate adds its score.
LEMMA LocalScore ==
    ASSUME IInv, NEW p \in Proposals, NEW gate \in Gate \ {"kaggle"},
           gate = "selection" \/ mode # "improve", job[p].phase \notin {"idle", "done"}
    PROVE  /\ Score(p, gate, balanced_accuracy(p)) \in [Gate -> ScoreSet]
           /\ Score(p, gate, balanced_accuracy(p))[gate] = balanced_accuracy(p)
           /\ Score(p, gate, balanced_accuracy(p))["kaggle"] = NoScore
           /\ Measured(p, Score(p, gate, balanced_accuracy(p)))
<1>1. Types /\ Measured(p, job[p].scores) /\ job[p].scores["kaggle"] = NoScore
  BY DEF IInv, Evaluated
<1>2. balanced_accuracy(p) \in ScoreSet /\ gate \in Gate
  BY <1>1, ScriptScore DEF ScoreSet
<1> DEFINE s == Score(p, gate, balanced_accuracy(p))
<1>3. /\ s \in [Gate -> ScoreSet] /\ s[gate] = balanced_accuracy(p)
      /\ \A g \in Gate : g # gate => s[g] = job[p].scores[g]
  BY <1>1, <1>2, ScoreEffect
<1> HIDE DEF s
<1>4. Measured(p, s)
  BY <1>1, <1>3 DEF Measured, Gate
<1>5. s["kaggle"] = NoScore
  BY <1>1, <1>3 DEF Gate
<1> QED
  BY <1>3, <1>4, <1>5 DEF s

\* The ledger after a hold-out score.
LEMMA LocalLedger ==
    ASSUME IInv, NEW p \in Proposals, proxy' = [proxy EXCEPT ![p] = balanced_accuracy(p)]
    PROVE  /\ proxy' \in [Proposals -> ScoreSet]
           /\ \A q \in Proposals : q # p => proxy'[q] = proxy[q]
           /\ proxy'[p] = balanced_accuracy(p)
<1>1. balanced_accuracy(p) \in ScoreSet /\ proxy \in [Proposals -> ScoreSet]
  BY ScriptScore DEF IInv, ScoreSet, Types
<1> QED
  BY <1>1

\* The incumbent of a slice, under a gate whose scores are those recorded.
LEMMA BarOf ==
    ASSUME IInv, NEW p \in Proposals, job[p].phase # "idle", mode # "always",
           NEW ledger, NEW gate \in Gate,
           \A a \in job[p].incumbents : /\ ScoreOf(ledger, gate, a) = recorded[a][gate]
                                        /\ recorded[a][gate] \in Scores
    PROVE  /\ BestScore(p, ledger, gate) \in Nat
           /\ BestId(p, ledger, gate) \in {0} \cup job[p].incumbents
           /\ \A a \in job[p].incumbents : /\ BestId(p, ledger, gate) = a
                                           /\ BestScore(p, ledger, gate) >= recorded[a][gate]
<1>1. \A a, b \in job[p].incumbents : a = b
  BY DEF IInv, Evaluated
<1>2. \A a \in job[p].incumbents : ScoreOf(ledger, gate, a) \in Scores
  OBVIOUS
<1>3. /\ BestScore(p, ledger, gate) \in Nat
      /\ BestId(p, ledger, gate) \in {0} \cup job[p].incumbents
      /\ \A a \in job[p].incumbents : /\ BestId(p, ledger, gate) = a
                                      /\ BestScore(p, ledger, gate) >= ScoreOf(ledger, gate, a)
  BY <1>1, <1>2, BestOfOne
<1> QED
  BY <1>3

LEMMA SelectionInv ==
    ASSUME IInv, NEW p \in Proposals, Selection(p)
    PROVE  IInv'
<1> DEFINE n == balanced_accuracy(p)
           s == Score(p, "selection", n)
           best == BestScore(p, proxy, "selection")
           x == BestId(p, proxy, "selection")
<1>1. /\ job[p].phase = "selection" /\ mode = "improve" /\ job[p].trials \in Nat
      /\ UNCHANGED <<mode, cp, real, kaggle>> /\ proxy' = [proxy EXCEPT ![p] = n]
  <2>1. job[p].phase \in Ladder[mode] /\ mode \in {"improve", "always", "kaggle"} /\ job[p] \in Evaluation
    BY DEF IInv, Types, Evaluated
  <2>2. job[p].phase = "selection"
    BY DEF Selection
  <2> QED
    BY <2>1, <2>2 DEF Selection, Ladder, Evaluation
<1>2. s \in [Gate -> ScoreSet] /\ s["selection"] = n /\ s["kaggle"] = NoScore /\ Measured(p, s)
  BY <1>1, LocalScore DEF Gate
<1>3. proxy' \in [Proposals -> ScoreSet] /\ (\A q \in Proposals : q # p => proxy'[q] = proxy[q]) /\ proxy'[p] = n
  BY <1>1, LocalLedger
<1>4. \A a \in job[p].incumbents : /\ ScoreOf(proxy, "selection", a) = recorded[a]["selection"]
                                   /\ recorded[a]["selection"] \in Scores
  BY <1>1, Incumbents
<1>5. /\ best \in Nat /\ x \in {0} \cup job[p].incumbents
      /\ \A a \in job[p].incumbents : x = a /\ best >= recorded[a]["selection"]
  BY <1>1, <1>4, BarOf DEF Gate
<1>6. /\ n > best + Margin + TrialDeflation * job[p].trials => Ends(p, "accepted", s, x)
      /\ ~(n > best + Margin + TrialDeflation * job[p].trials) => Ends(p, "rejected", s, 0)
  BY DEF Selection
<1>7. n \in Nat
  BY ScriptScore, Ranges DEF IInv
<1> HIDE DEF n, s, best, x
<1>8. CASE n > best + Margin + TrialDeflation * job[p].trials
  <2>1. TrialDeflation * job[p].trials \in Nat /\ Margin \in Nat
    BY <1>1
  <2>2. ASSUME NEW a \in job[p].incumbents
        PROVE  x = a /\ s[HardGate] > recorded[a][HardGate]
    <3>1. HardGate = "selection"
      BY <1>1 DEF HardGate
    <3>2. recorded[a]["selection"] \in Nat /\ best >= recorded[a]["selection"] /\ x = a
      BY <1>4, <1>5, Ranges
    <3>3. n > recorded[a]["selection"]
      BY <1>5, <1>7, <1>8, <2>1, <3>2
    <3> QED
      BY <1>2, <3>1, <3>2, <3>3
  <2>3. Cleared(p, s)
    BY <1>1, <1>2 DEF Cleared, n
  <2>4. Ends(p, "accepted", s, x)
    BY <1>6, <1>8
  <2> QED
    BY <1>1, <1>2, <1>3, <1>5, <2>2, <2>3, <2>4, AcceptKeeps DEF n
<1>9. CASE ~(n > best + Margin + TrialDeflation * job[p].trials)
  <2>1. Ends(p, "rejected", s, 0)
    BY <1>6, <1>9
  <2> QED
    BY <1>1, <1>2, <1>3, <2>1, StopKeeps DEF n
<1> QED
  BY <1>8, <1>9

LEMMA ScoreAndAcceptInv ==
    ASSUME IInv, NEW p \in Proposals, ScoreAndAccept(p)
    PROVE  IInv'
<1> DEFINE n == balanced_accuracy(p)
           s == Score(p, "score-and-accept", n)
<1>1. /\ job[p].phase = "score-and-accept" /\ mode = "always"
      /\ UNCHANGED <<mode, cp, real, kaggle>> /\ proxy' = [proxy EXCEPT ![p] = n]
  <2>1. job[p].phase \in Ladder[mode] /\ mode \in {"improve", "always", "kaggle"}
    BY DEF IInv, Types, Evaluated
  <2>2. job[p].phase = "score-and-accept"
    BY DEF ScoreAndAccept
  <2> QED
    BY <2>1, <2>2 DEF ScoreAndAccept, Ladder
<1>2. s \in [Gate -> ScoreSet] /\ s["kaggle"] = NoScore /\ Measured(p, s)
  BY <1>1, LocalScore DEF Gate
<1>3. proxy' \in [Proposals -> ScoreSet] /\ (\A q \in Proposals : q # p => proxy'[q] = proxy[q]) /\ proxy'[p] = n
  BY <1>1, LocalLedger
<1>4. Ends(p, "accepted", s, 0)
  BY DEF ScoreAndAccept
<1> HIDE DEF n, s
<1>5. Cleared(p, s) /\ 0 \in {0} \cup job[p].incumbents
  BY <1>1 DEF Cleared
<1> QED
  BY <1>1, <1>2, <1>3, <1>4, <1>5, AcceptKeeps DEF n


\* What is known of an evaluation of the Kaggle ladder at a rung that does
\* not measure: the scores it has are kept.
Waiting(p) ==
    /\ job[p].phase \notin {"idle", "done"}
    /\ job[p].scores \in [Gate -> ScoreSet] /\ job[p].scores["kaggle"] = NoScore
    /\ Measured(p, job[p].scores)
    /\ proxy \in [Proposals -> ScoreSet] /\ proxy[p] \in {NoScore, balanced_accuracy(p)}
    /\ job[p].phase \in Improved =>
           /\ mode = "kaggle" /\ job[p].scores["proxy-improves"] = balanced_accuracy(p)
           /\ current = p =>
                \A q \in Accepted : balanced_accuracy(p) > recorded[q]["proxy-improves"] + Margin

LEMMA WaitingHolds ==
    ASSUME IInv, NEW p \in Proposals, job[p].phase \notin {"idle", "done"}
    PROVE  Waiting(p)
<1>1. /\ job[p] \in Evaluation /\ Evaluated(p) /\ proxy \in [Proposals -> ScoreSet]
      /\ mode \in {"improve", "always", "kaggle"}
  BY DEF IInv, Types
<1>2. job[p].phase \in Improved => mode = "kaggle"
  BY <1>1 DEF Evaluated, Improved, Ladder
<1>3. job[p].phase \in Improved /\ current = p =>
          \A q \in Accepted : balanced_accuracy(p) > recorded[q]["proxy-improves"] + Margin
  BY Ranges DEF IInv, Awaited
<1> QED
  BY <1>1, <1>2, <1>3 DEF Waiting, Evaluated, Evaluation

\* A rung that hands over with the scores it found, or stops there.
LEMMA HandsOver ==
    ASSUME IInv, NEW p \in Proposals, job[p].phase \in Improved,
           NEW next \in {"regenerate", "budget", "submit"}, Clears(p, next, job[p].scores),
           UNCHANGED <<mode, cp, proxy, real, kaggle>>
    PROVE  IInv'
<1>1. Waiting(p) /\ job[p].phase \notin {"idle", "done"}
  BY WaitingHolds DEF Improved
<1>2. next \in Ladder[mode] \ {"idle", "done", "poll"}
  BY <1>1 DEF Waiting, Ladder
<1>3. /\ proxy' = proxy /\ UNCHANGED <<mode, cp, real, kaggle>>
      /\ \A q \in Proposals : q # p => proxy'[q] = proxy[q]
  OBVIOUS
<1> QED
  BY <1>1, <1>2, <1>3, ClearKeeps DEF Waiting

LEMMA StopsThere ==
    ASSUME IInv, NEW p \in Proposals, job[p].phase \notin {"idle", "done"},
           NEW bundle \in {"rejected", "revised", "unavailable"}, Ends(p, bundle, job[p].scores, 0),
           UNCHANGED <<mode, cp, proxy, real, kaggle>>
    PROVE  IInv'
<1>1. Waiting(p)
  BY WaitingHolds
<1>2. /\ proxy' = proxy /\ UNCHANGED <<mode, cp, real, kaggle>>
      /\ \A q \in Proposals : q # p => proxy'[q] = proxy[q]
  OBVIOUS
<1> QED
  BY <1>1, <1>2, StopKeeps DEF Waiting

LEMMA ProxyImprovesInv ==
    ASSUME IInv, NEW p \in Proposals, ProxyImproves(p)
    PROVE  IInv'
<1> DEFINE n == balanced_accuracy(p)
           s == Score(p, "proxy-improves", n)
           best == BestScore(p, proxy, "proxy-improves")
<1>1. /\ job[p].phase = "proxy-improves" /\ mode = "kaggle"
      /\ UNCHANGED <<mode, cp, real, kaggle>> /\ proxy' = [proxy EXCEPT ![p] = n]
  <2>1. job[p].phase \in Ladder[mode] /\ mode \in {"improve", "always", "kaggle"}
    BY DEF IInv, Types, Evaluated
  <2>2. job[p].phase = "proxy-improves"
    BY DEF ProxyImproves
  <2> QED
    BY <2>1, <2>2 DEF ProxyImproves, Ladder
<1>2. s \in [Gate -> ScoreSet] /\ s["proxy-improves"] = n /\ s["kaggle"] = NoScore /\ Measured(p, s)
  BY <1>1, LocalScore DEF Gate
<1>3. proxy' \in [Proposals -> ScoreSet] /\ (\A q \in Proposals : q # p => proxy'[q] = proxy[q]) /\ proxy'[p] = n
  BY <1>1, LocalLedger
<1>4. \A a \in job[p].incumbents : /\ ScoreOf(proxy, "proxy-improves", a) = recorded[a]["proxy-improves"]
                                   /\ recorded[a]["proxy-improves"] \in Scores
  BY <1>1, Incumbents
<1>5. /\ best \in Nat
      /\ \A a \in job[p].incumbents : best >= recorded[a]["proxy-improves"]
  BY <1>1, <1>4, BarOf DEF Gate
<1>6. /\ n <= best + Margin => Ends(p, "rejected", s, 0)
      /\ ~(n <= best + Margin) => Clears(p, "competitive", s)
  BY DEF ProxyImproves, NoImprovement, KagglePipeline
<1>7. n \in Nat
  BY ScriptScore, Ranges DEF IInv
<1> HIDE DEF n, s, best
<1>8. CASE n <= best + Margin
  <2>1. Ends(p, "rejected", s, 0)
    BY <1>6, <1>8
  <2> QED
    BY <1>1, <1>2, <1>3, <2>1, StopKeeps DEF n
<1>9. CASE ~(n <= best + Margin)
  <2>1. Clears(p, "competitive", s)
    BY <1>6, <1>9
  <2>2. current = p => \A q \in Accepted : n > recorded[q]["proxy-improves"] + Margin
    <3> SUFFICES ASSUME current = p, NEW q \in Accepted
                 PROVE  n > recorded[q]["proxy-improves"] + Margin
      OBVIOUS
    <3>1. q \in job[p].incumbents
      BY <1>1, Ranges DEF IInv, Awaited
    <3>2. best >= recorded[q]["proxy-improves"] /\ recorded[q]["proxy-improves"] \in Nat
      BY <1>4, <1>5, <3>1, Ranges
    <3> QED
      BY <1>5, <1>7, <1>9, <3>2
  <2>3. "competitive" \in Ladder[mode] \ {"idle", "done", "poll"}
    BY <1>1 DEF Ladder
  <2> QED
    BY <1>1, <1>2, <1>3, <2>1, <2>2, <2>3, ClearKeeps DEF n
<1> QED
  BY <1>8, <1>9

LEMMA CompetitiveInv ==
    ASSUME IInv, NEW p \in Proposals, NEW standings, Competitive(p, standings)
    PROVE  IInv'
<1>1. job[p].phase = "competitive" /\ UNCHANGED <<mode, cp, proxy, real, kaggle>>
  BY DEF Competitive
<1>2. Clears(p, "regenerate", job[p].scores) \/ Ends(p, "revised", job[p].scores, 0)
  BY DEF Competitive, KagglePipeline
<1>3. CASE Clears(p, "regenerate", job[p].scores)
  BY <1>1, <1>3, HandsOver DEF Improved
<1>4. CASE Ends(p, "revised", job[p].scores, 0)
  BY <1>1, <1>4, StopsThere
<1> QED
  BY <1>2, <1>3, <1>4

LEMMA RegenerateInv ==
    ASSUME IInv, NEW p \in Proposals, Regenerate(p)
    PROVE  IInv'
<1>1. job[p].phase = "regenerate" /\ UNCHANGED <<mode, cp, proxy, real, kaggle>>
  BY DEF Regenerate
<1>2. Clears(p, "budget", job[p].scores) \/ Ends(p, "rejected", job[p].scores, 0)
  BY DEF Regenerate
<1>3. CASE Clears(p, "budget", job[p].scores)
  BY <1>1, <1>3, HandsOver DEF Improved
<1>4. CASE Ends(p, "rejected", job[p].scores, 0)
  BY <1>1, <1>4, StopsThere
<1> QED
  BY <1>2, <1>3, <1>4

LEMMA WaitsInv ==
    ASSUME IInv, NEW p \in Proposals,
           \/ AwaitBudget(p) \/ BudgetDeadline(p) \/ PollFails(p)
           \/ \E kind \in {"GateUnavailable", "RuntimeError"} : GateUnavailable(p, kind)
    PROVE  IInv'
<1>1. CASE AwaitBudget(p)
  <2>1. /\ job[p].phase = "budget" /\ Clears(p, "submit", job[p].scores)
        /\ UNCHANGED <<mode, cp, proxy, real, kaggle>>
    BY <1>1 DEF AwaitBudget
  <2> QED
    BY <2>1, HandsOver DEF Improved
<1>2. CASE BudgetDeadline(p) \/ PollFails(p)
           \/ \E kind \in {"GateUnavailable", "RuntimeError"} : GateUnavailable(p, kind)
  <2>1. /\ job[p].phase \notin {"idle", "done"} /\ Ends(p, "unavailable", job[p].scores, 0)
        /\ UNCHANGED <<mode, cp, proxy, real, kaggle>>
    BY <1>2 DEF BudgetDeadline, PollFails, GateUnavailable
  <2> QED
    BY <2>1, StopsThere
<1> QED
  BY <1>1, <1>2


\* Kaggle's list after a submission: the entry of p is a justified expense.
LEMMA EntryAdded ==
    ASSUME IInv, NEW p \in Proposals \cup {0}, board' = Append(board, Entry(p)),
           p # 0 => job[p].phase = "submit", UNCHANGED <<mode, cp>>
    PROVE  /\ board' \in Seq(Listed) /\ Len(board') = Len(board) + 1 /\ Len(board) \in Nat
           /\ \A i \in 1 .. Len(board) : board'[i] = board[i]
           /\ \A i \in DOMAIN board' : i > Len(board) => Spent(i)'
<1>1. board \in Seq(Listed) /\ Len(board) \in Nat /\ today \in Nat
  BY DEF IInv, Types
<1>2. Accepted \subseteq Proposals
  BY DEF Accepted
<1>3. Entry(p) \in Listed
  <2> DEFINE over == IF p # 0 /\ current = p THEN Accepted ELSE {}
  <2>1. over \in SUBSET Proposals /\ p \in 0 .. MaxProposals
    BY <1>2, Ranges
  <2>2. Pending \in ScoreSet \cup {Errored}
    BY DEF ScoreSet
  <2>3. Entry(p) = [who |-> p, day |-> today, grade |-> Pending, over |-> over]
    BY DEF Entry
  <2> HIDE DEF over, Pending
  <2> QED
    BY ONLY <1>1, <2>1, <2>2, <2>3 DEF Listed
<1>4. /\ board' \in Seq(Listed) /\ Len(board') = Len(board) + 1
      /\ \A i \in 1 .. Len(board) : board'[i] = board[i]
      /\ board'[Len(board) + 1] = Entry(p) /\ DOMAIN board' = 1 .. Len(board) + 1
  BY <1>1, <1>3
<1>5. Entry(p).who = p /\ Entry(p).over = IF p # 0 /\ current = p THEN Accepted ELSE {}
  BY DEF Entry
<1>6. ASSUME NEW i \in DOMAIN board', i > Len(board)
      PROVE  Spent(i)'
  <2>1. i = Len(board) + 1
    BY <1>1, <1>4, <1>6
  <2>2. board'[i] = Entry(p)
    BY <1>4, <2>1
  <2>3. ASSUME NEW q \in Entry(p).over
        PROVE  /\ p \in Proposals /\ status[p] # "none" /\ status[q] = "accepted"
               /\ balanced_accuracy(p) > recorded[q]["proxy-improves"] + Margin
    <3>1. p # 0 /\ current = p /\ q \in Accepted /\ p \in Proposals
      BY <1>5, <2>3
    <3>2. job[p].phase = "submit" /\ job[p].phase \notin {"idle", "done"} /\ job[p].phase \in Improved
      BY <3>1 DEF Improved
    <3>3. Waiting(p) /\ Evaluated(p)
      BY <3>1, <3>2, WaitingHolds DEF IInv
    <3> QED
      BY <3>1, <3>2, <3>3 DEF Waiting, Evaluated, Accepted
  <2> QED
    BY <1>5, <2>2, <2>3 DEF Spent, balanced_accuracy, cp
<1> QED
  BY <1>1, <1>4, <1>6

\* An evaluation that stops after Kaggle's list may have grown.
LEMMA SpentStops ==
    ASSUME IInv, NEW p \in Proposals, job[p].phase = "submit",
           board' = Append(board, Entry(p)), Ends(p, "unavailable", job[p].scores, 0),
           UNCHANGED <<mode, cp, proxy, real, today>>
    PROVE  IInv'
<1>1. Waiting(p) /\ real[p] = NoScore /\ real \in [Proposals -> ScoreSet]
  BY WaitingHolds DEF IInv, Types, Evaluated
<1>2. /\ board' \in Seq(Listed) /\ Len(board') = Len(board) + 1 /\ Len(board) \in Nat
      /\ \A i \in 1 .. Len(board) : board'[i] = board[i]
      /\ \A i \in DOMAIN board' : i > Len(board) => Spent(i)'
  BY EntryAdded, Ranges
<1>3. Len(board) <= Len(board')
  BY <1>2
<1> DEFINE s == job[p].scores
<1>4. /\ s \in [Gate -> ScoreSet] /\ s["kaggle"] = NoScore /\ Measured(p, s)
      /\ proxy' \in [Proposals -> ScoreSet] /\ proxy'[p] \in {NoScore, balanced_accuracy(p)}
      /\ \A q \in Proposals : q # p => proxy'[q] = proxy[q]
      /\ real' \in [Proposals -> ScoreSet] /\ real'[p] \in {NoScore, s["kaggle"]}
      /\ \A q \in Proposals : q # p => real'[q] = real[q]
  BY <1>1 DEF Waiting
<1>5. Ends(p, "unavailable", s, 0) /\ UNCHANGED <<mode, cp, today>>
  OBVIOUS
<1> HIDE DEF s, NoScore
<1> QED
  BY <1>2, <1>3, <1>4, <1>5, EndKeeps

\* The evaluation e once its submission is the one at index own.
Polling(e, own) == [e EXCEPT !.phase = "poll", !.own = own]

LEMMA PollEffect ==
    ASSUME NEW e \in Evaluation, NEW own \in Nat
    PROVE  /\ Polling(e, own) \in Evaluation /\ Polling(e, own).phase = "poll"
           /\ Polling(e, own).scores = e.scores /\ Polling(e, own).incumbents = e.incumbents
           /\ Polling(e, own).bundle = e.bundle /\ Polling(e, own).supersedes = e.supersedes
           /\ Polling(e, own).own = own
  BY DEF Evaluation, Phases, Polling

\* The submission that Kaggle acknowledged waits for its grade.
LEMMA SpentWaits ==
    ASSUME IInv, NEW p \in Proposals, job[p].phase = "submit",
           board' = Append(board, Entry(p)),
           job' = [job EXCEPT ![p] = [@ EXCEPT !.phase = "poll", !.own = Len(board) + 1]],
           UNCHANGED <<mode, cp, proxy, real, today>>
    PROVE  IInv'
<1>1. Waiting(p) /\ Types /\ Evaluated(p) /\ job[p] \in Evaluation
  BY WaitingHolds DEF IInv, Types
<1>2. /\ board' \in Seq(Listed) /\ Len(board') = Len(board) + 1 /\ Len(board) \in Nat
      /\ \A i \in 1 .. Len(board) : board'[i] = board[i]
      /\ \A i \in DOMAIN board' : i > Len(board) => Spent(i)'
  BY EntryAdded, Ranges
<1> DEFINE j == Polling(job[p], Len(board) + 1)
<1>3. /\ j \in Evaluation /\ j.phase = "poll" /\ j.scores = job[p].scores
      /\ j.incumbents = job[p].incumbents
      /\ j.bundle = job[p].bundle /\ j.supersedes = job[p].supersedes /\ j.own = Len(board) + 1
  <2> DEFINE e == job[p]
             own == Len(board) + 1
  <2>1. e \in Evaluation /\ own \in Nat /\ j = Polling(e, own)
    BY <1>1, <1>2
  <2>2. /\ Polling(e, own) \in Evaluation /\ Polling(e, own).phase = "poll"
        /\ Polling(e, own).scores = e.scores /\ Polling(e, own).incumbents = e.incumbents
        /\ Polling(e, own).bundle = e.bundle /\ Polling(e, own).supersedes = e.supersedes
        /\ Polling(e, own).own = own
    <3> HIDE DEF e, own
    <3> QED
      BY ONLY <2>1, PollEffect
  <2> QED
    BY <2>1, <2>2
<1>4. job' = [job EXCEPT ![p] = j] /\ job \in [Proposals -> Evaluation]
  BY <1>1 DEF Types, Polling
<1> HIDE DEF j
<1>5. /\ job' \in [Proposals -> Evaluation] /\ job'[p] = j
      /\ \A q \in Proposals : q # p => job'[q] = job[q]
  BY <1>3, <1>4
<1>6. Rung(p)
  <2>1. UNCHANGED <<mode, current, sub, status, recorded>> /\ today' = today
        /\ proxy' \in [Proposals -> ScoreSet] /\ real' \in [Proposals -> ScoreSet]
        /\ proxy' = proxy /\ real' = real
    BY <1>1 DEF cp, Types
  <2>2. Len(board) <= Len(board')
    BY <1>2
  <2> QED
    BY <1>2, <1>5, <2>1, <2>2 DEF Rung
<1>7. "poll" \in Ladder[mode] /\ "submit" \in Improved /\ "poll" \in Improved
  BY <1>1 DEF Waiting, Ladder, Improved
<1>8. j.own \in 1 .. Len(board')
  BY <1>2, <1>3
<1>9. Evaluated(p)'
  BY <1>1, <1>3, <1>5, <1>7, <1>8 DEF Evaluated, Measured, balanced_accuracy, cp
<1>10. current = p => Awaited'
  BY <1>1, <1>3, <1>5, <1>7 DEF IInv, Evaluated, Awaited, Accepted, balanced_accuracy, cp
<1> QED
  BY <1>2, <1>6, <1>9, <1>10, RungKeeps

LEMMA SubmitInv ==
    ASSUME IInv, NEW p \in Proposals, Submit(p)
    PROVE  IInv'
<1>1. job[p].phase = "submit" /\ UNCHANGED <<mode, cp, proxy, real, today>>
  BY DEF Submit
<1>2. \/ board' = Append(board, Entry(p)) /\ Ends(p, "unavailable", job[p].scores, 0)
      \/ /\ board' = Append(board, Entry(p))
         /\ job' = [job EXCEPT ![p] = [@ EXCEPT !.phase = "poll", !.own = Len(board) + 1]]
      \/ board' = board /\ Ends(p, "unavailable", job[p].scores, 0)
  BY DEF Submit
<1>3. CASE board' = Append(board, Entry(p)) /\ Ends(p, "unavailable", job[p].scores, 0)
  BY <1>1, <1>3, SpentStops
<1>4. CASE /\ board' = Append(board, Entry(p))
           /\ job' = [job EXCEPT ![p] = [@ EXCEPT !.phase = "poll", !.own = Len(board) + 1]]
  BY <1>1, <1>4, SpentWaits
<1>5. CASE board' = board /\ Ends(p, "unavailable", job[p].scores, 0)
  BY <1>1, <1>5, StopsThere DEF kaggle
<1> QED
  BY <1>2, <1>3, <1>4, <1>5

LEMMA PollScoreInv ==
    ASSUME IInv, NEW p \in Proposals, PollScore(p)
    PROVE  IInv'
<1> DEFINE n == board[Newest].grade
           ledger == [real EXCEPT ![p] = n]
           s == Score(p, "kaggle", n)
           best == BestScore(p, ledger, "kaggle")
           x == BestId(p, ledger, "kaggle")
<1>1. /\ job[p].phase = "poll" /\ n \in Scores /\ real' = ledger
      /\ UNCHANGED <<mode, cp, proxy, kaggle>>
      /\ n > best => Ends(p, "accepted", s, x)
      /\ ~(n > best) => Ends(p, "rejected", s, 0)
  BY DEF PollScore
<1>2. /\ Types /\ Evaluated(p) /\ Waiting(p) /\ mode = "kaggle"
      /\ job[p].scores["proxy-improves"] = balanced_accuracy(p)
  BY <1>1, WaitingHolds DEF IInv, Waiting, Improved
<1>3. /\ s \in [Gate -> ScoreSet] /\ s["kaggle"] = n
      /\ \A g \in Gate : g # "kaggle" => s[g] = job[p].scores[g]
  BY <1>1, <1>2, ScoreEffect DEF Gate, ScoreSet
<1>4. /\ job[p].own \in 1 .. Len(board) /\ Len(board) \in Nat /\ board \in Seq(Listed)
      /\ DOMAIN board = 1 .. Len(board)
  BY <1>1, <1>2 DEF Evaluated, Types
<1>5. job[p].own > 0 /\ Graded(job[p].own, n)
  <2>1. Len(board) \in job[p].own .. Len(board) /\ job[p].own > 0
    BY <1>4
  <2>2. board[Len(board)].grade = n
    BY DEF Newest
  <2> QED
    BY <2>1, <2>2 DEF Graded
<1>6. ASSUME NEW a \in job[p].incumbents
      PROVE  ScoreOf(ledger, "kaggle", a) = recorded[a]["kaggle"] /\ recorded[a]["kaggle"] \in Scores
  <2>1. /\ a \in Proposals /\ a # p /\ ScoreOf(real, "kaggle", a) = recorded[a]["kaggle"]
        /\ recorded[a]["kaggle"] \in Scores
    BY <1>1, <1>2, <1>6, Incumbents
  <2>2. ledger[a] = real[a]
    BY <1>2, <2>1 DEF Types
  <2> HIDE DEF ledger
  <2> QED
    BY <2>1, <2>2 DEF ScoreOf
<1>7. /\ real' \in [Proposals -> ScoreSet] /\ real'[p] = n
      /\ \A q \in Proposals : q # p => real'[q] = real[q]
  BY <1>1, <1>2 DEF Types, ScoreSet
<1> HIDE DEF ledger
<1>8. /\ best \in Nat /\ x \in {0} \cup job[p].incumbents
      /\ \A a \in job[p].incumbents : x = a /\ best >= recorded[a]["kaggle"]
  BY <1>1, <1>2, <1>6, BarOf DEF Gate
<1> HIDE DEF n, s, best, x
<1>9. Measured(p, s)
  BY <1>2, <1>3 DEF Measured, Waiting, Gate
<1>10. Cleared(p, s)
  BY <1>1, <1>2, <1>3 DEF Cleared, Gate
<1>11. /\ board' = board /\ today' = today /\ board' \in Seq(Listed) /\ Len(board) <= Len(board')
       /\ \A i \in 1 .. Len(board) : board'[i] = board[i]
       /\ \A i \in DOMAIN board' : i > Len(board) => Spent(i)'
  BY <1>1, <1>4 DEF kaggle
<1>12. /\ proxy' \in [Proposals -> ScoreSet] /\ proxy'[p] \in {NoScore, balanced_accuracy(p)}
       /\ \A q \in Proposals : q # p => proxy'[q] = proxy[q]
       /\ UNCHANGED <<mode, cp, today>>
       /\ real'[p] \in {NoScore, s["kaggle"]}
       /\ job[p].phase \notin {"idle", "done"}
  BY <1>1, <1>2, <1>3, <1>7, <1>11 DEF Waiting
<1>13. s["kaggle"] # NoScore => job[p].own > 0 /\ board' = board /\ Graded(job[p].own, s["kaggle"])
  BY <1>3, <1>5, <1>11
<1>14. CASE n > best
  <2>1. ASSUME NEW a \in job[p].incumbents
        PROVE  x = a /\ s[HardGate] > recorded[a][HardGate]
    <3>1. HardGate = "kaggle"
      BY <1>2 DEF HardGate
    <3>2. recorded[a]["kaggle"] \in Nat /\ best >= recorded[a]["kaggle"] /\ x = a /\ n \in Nat
      BY <1>1, <1>6, <1>8, Ranges
    <3>3. n > recorded[a]["kaggle"]
      BY <1>8, <1>14, <3>2
    <3> QED
      BY <1>3, <3>1, <3>2, <3>3
  <2>2. Ends(p, "accepted", s, x) /\ mode # "always"
    BY <1>1, <1>2, <1>14
  <2> HIDE DEF NoScore
  <2> QED
    BY <1>3, <1>7, <1>8, <1>9, <1>10, <1>11, <1>12, <1>13, <2>1, <2>2, EndKeeps
<1>15. CASE ~(n > best)
  <2>1. Ends(p, "rejected", s, 0) /\ 0 \in {0} \cup job[p].incumbents
    BY <1>1, <1>15
  <2> HIDE DEF NoScore
  <2> QED
    BY <1>3, <1>7, <1>9, <1>11, <1>12, <1>13, <2>1, EndKeeps
<1> QED
  BY <1>14, <1>15


-----------------------------------------------------------------------------
(* Kaggle's own steps *)

\* Kaggle's list may grow and its pending entries be graded.
Listing ==
    /\ board' \in Seq(Listed) /\ today' \in Nat /\ Len(board) <= Len(board')
    /\ \A i \in 1 .. Len(board) : /\ board'[i].who = board[i].who /\ board'[i].over = board[i].over
                                  /\ board[i].grade # NoScore => board'[i].grade = board[i].grade
    /\ \A i \in DOMAIN board' : i > Len(board) => Spent(i)'

LEMMA ListingKeeps ==
    ASSUME IInv, Listing, UNCHANGED <<mode, cp, process>>
    PROVE  IInv'
<1>0. UNCHANGED <<mode, current, sub, status, recorded, job, proxy, real>>
  BY DEF cp, process
<1>1. Types'
  BY <1>0 DEF IInv, Types, Listing
<1>2. Len(board) \in Nat /\ Len(board') \in Nat /\ DOMAIN board = 1 .. Len(board)
      /\ DOMAIN board' = 1 .. Len(board')
  BY DEF IInv, Types, Listing
<1>3. ASSUME NEW own \in Nat, NEW n, n # NoScore, own > 0, Graded(own, n)
      PROVE  \E i \in own .. Len(board') : board'[i].grade = n
  <2>1. PICK i \in own .. Len(board) : board[i].grade = n
    BY <1>3 DEF Graded
  <2>2. i \in 1 .. Len(board) /\ i \in own .. Len(board')
    BY <1>2, <1>3 DEF Listing
  <2>3. board'[i].grade = n
    BY <1>3, <2>1, <2>2 DEF Listing
  <2> QED
    BY <2>2, <2>3
<1>4. ASSUME NEW q \in Proposals
      PROVE  Evaluated(q)' /\ Filed(q)'
  <2>1. Filed(q)'
    BY <1>0 DEF IInv, Filed, Measured, Cleared, balanced_accuracy
  <2> DEFINE o == job[q].own
             k == job[q].scores["kaggle"]
  <2>2. o \in Nat /\ Evaluated(q)
    BY DEF IInv, Types, Evaluation
  <2>3. o \in 1 .. Len(board) => o \in 1 .. Len(board')
    <3> HIDE DEF o
    <3> QED
      BY <1>2, <2>2 DEF Listing
  <2>4. k # NoScore /\ o > 0 /\ Graded(o, k) => \E i \in o .. Len(board') : board'[i].grade = k
    <3> HIDE DEF o, k
    <3> QED
      BY <1>3, <2>2
  <2>5. Ended(q) => Ended(q)'
    BY <1>0, <2>4 DEF Ended, Cleared, Graded, balanced_accuracy
  <2> QED
    BY <1>0, <2>1, <2>2, <2>3, <2>5 DEF Evaluated, Measured, balanced_accuracy
<1>5. Awaited' /\ Rivals'
  BY <1>0 DEF IInv, Awaited, Rivals, Accepted, HardGate, balanced_accuracy
<1>6. ASSUME NEW i \in DOMAIN board'
      PROVE  Spent(i)'
  <2>1. CASE i > Len(board)
    BY <2>1 DEF Listing
  <2>2. CASE ~(i > Len(board))
    <3>1. i \in 1 .. Len(board)
      BY <1>2, <2>2
    <3>2. board'[i].who = board[i].who /\ board'[i].over = board[i].over /\ Spent(i)
      BY <1>2, <3>1 DEF IInv, Listing
    <3> QED
      BY <1>0, <3>2 DEF Spent, balanced_accuracy
  <2> QED
    BY <2>1, <2>2
<1> QED
  BY <1>1, <1>4, <1>5, <1>6 DEF IInv

LEMMA KaggleInv ==
    ASSUME IInv, \/ TeamSubmits \/ NewDay
                 \/ \E i \in 1 .. MaxProposals + MaxTeam, g \in Scores \cup {Errored} : Grade(i, g)
    PROVE  IInv'
<1>0. /\ board \in Seq(Listed) /\ today \in Nat /\ Len(board) \in Nat /\ DOMAIN board = 1 .. Len(board)
  BY DEF IInv, Types
<1>1. CASE TeamSubmits
  <2>1. board' = Append(board, Entry(0)) /\ UNCHANGED <<mode, cp, process, today>>
    BY <1>1 DEF TeamSubmits
  <2>2. /\ board' \in Seq(Listed) /\ Len(board') = Len(board) + 1
        /\ \A i \in 1 .. Len(board) : board'[i] = board[i]
        /\ \A i \in DOMAIN board' : i > Len(board) => Spent(i)'
    BY <2>1, EntryAdded
  <2>3. Listing
    BY <1>0, <2>1, <2>2 DEF Listing
  <2> QED
    BY <2>1, <2>3, ListingKeeps
<1>2. CASE NewDay
  <2>1. board' = board /\ today' = today + 1 /\ UNCHANGED <<mode, cp, process>>
    BY <1>2 DEF NewDay
  <2>2. Listing
    BY <1>0, <2>1 DEF Listing
  <2> QED
    BY <2>1, <2>2, ListingKeeps
<1>3. ASSUME NEW i, NEW g \in Scores \cup {Errored}, Grade(i, g)
      PROVE  IInv'
  <2>1. /\ i \in DOMAIN board /\ board[i].grade = Pending /\ board' = [board EXCEPT ![i].grade = g]
        /\ UNCHANGED <<mode, cp, process, today>>
    BY <1>3 DEF Grade
  <2> DEFINE e == [board[i] EXCEPT !.grade = g]
  <2>2. board[i] \in Listed
    BY <1>0, <2>1
  <2>3. e \in Listed /\ e.who = board[i].who /\ e.over = board[i].over
    BY <2>2 DEF Listed, ScoreSet
  <2>4. board' = [board EXCEPT ![i] = e]
    BY <2>1
  <2> HIDE DEF e
  <2>5. /\ board' \in Seq(Listed) /\ Len(board') = Len(board) /\ DOMAIN board' = 1 .. Len(board)
        /\ \A k \in 1 .. Len(board) : board'[k] = IF k = i THEN e ELSE board[k]
    <3>1. i \in 1 .. Len(board)
      BY <1>0, <2>1
    <3> QED
      BY ONLY <1>0, <2>3, <2>4, <3>1, ExceptSeq
  <2>6. ASSUME NEW k \in 1 .. Len(board)
        PROVE  /\ board'[k].who = board[k].who /\ board'[k].over = board[k].over
               /\ board[k].grade # NoScore => board'[k].grade = board[k].grade
    BY <2>1, <2>3, <2>5
  <2>7. Len(board) <= Len(board') /\ \A k \in DOMAIN board' : ~(k > Len(board))
    BY <1>0, <2>5
  <2>8. Listing
    BY <1>0, <2>1, <2>5, <2>6, <2>7 DEF Listing
  <2> QED
    BY <2>1, <2>8, ListingKeeps
<1> QED
  BY <1>1, <1>2, <1>3

-----------------------------------------------------------------------------
(* Steps of the control plane and the life of the process *)

LEMMA AbandonInv ==
    ASSUME IInv, NEW p \in Proposals, Abandon(p)
    PROVE  IInv'
<1>1. /\ current' = 0
      /\ UNCHANGED <<mode, sub, status, recorded, job, proxy, real, board, today>>
  BY DEF Abandon, process, kaggle
<1>2. Types' /\ Awaited'
  BY <1>1 DEF IInv, Types, Awaited
<1>3. ASSUME NEW q \in Proposals
      PROVE  Evaluated(q)' /\ Filed(q)'
  BY <1>1 DEF IInv, Evaluated, Ended, Graded, Filed, Measured, Cleared, balanced_accuracy
<1>4. Rivals' /\ \A i \in DOMAIN board' : Spent(i)'
  BY <1>1 DEF IInv, Rivals, Spent, Accepted, HardGate, balanced_accuracy
<1> QED
  BY <1>2, <1>3, <1>4 DEF IInv

LEMMA FreshInv ==
    ASSUME IInv, FreshGates, UNCHANGED <<mode, cp, kaggle>>
    PROVE  IInv'
<1>1. /\ UNCHANGED <<mode, current, sub, status, recorded, board, today>>
      /\ job' = [p \in Proposals |-> NoJob] /\ proxy' = NoLedger /\ real' = NoLedger
  BY DEF FreshGates, cp, kaggle
<1>2. \A p \in Proposals : job'[p] = NoJob /\ proxy'[p] = NoScore /\ real'[p] = NoScore
  BY <1>1 DEF NoLedger
<1>3. job' \in [Proposals -> Evaluation] /\ proxy' \in [Proposals -> ScoreSet] /\ real' \in [Proposals -> ScoreSet]
  BY <1>1, NoJobFacts DEF NoLedger, ScoreSet
<1>4. Types'
  BY <1>1, <1>3 DEF IInv, Types
<1>5. ASSUME NEW q \in Proposals
      PROVE  Evaluated(q)' /\ Filed(q)'
  <2>1. Filed(q)'
    BY <1>1 DEF IInv, Filed, Measured, Cleared, balanced_accuracy
  <2>2. Measured(q, NoScores)'
    BY NoScoresFacts DEF Measured, Gate
  <2>3. "idle" \in Ladder[mode] /\ "idle" \notin Improved
    BY DEF IInv, Types, Ladder, Improved
  <2>4. job'[q] = NoJob /\ proxy'[q] = NoScore /\ real'[q] = NoScore
    BY <1>2
  <2> HIDE DEF NoScore
  <2> QED
    BY <1>1, <2>1, <2>2, <2>3, <2>4, NoJobFacts DEF Evaluated
<1>6. Awaited'
  <2>1. current # 0 => current \in Proposals
    BY DEF IInv, Types, Proposals
  <2>2. current # 0 => job'[current] = NoJob
    BY <1>2, <2>1
  <2> QED
    BY <1>1, <2>2, NoJobFacts DEF IInv, Awaited, Improved
<1>7. Rivals' /\ \A i \in DOMAIN board' : Spent(i)'
  BY <1>1 DEF IInv, Rivals, Spent, Accepted, HardGate, balanced_accuracy
<1> QED
  BY <1>4, <1>5, <1>6, <1>7 DEF IInv


\* The evaluation a dispatch starts.
Started(slice, trials) == [NoJob EXCEPT !.phase = "runs-clean", !.incumbents = slice, !.trials = trials]

LEMMA StartedFacts ==
    ASSUME NEW slice \in SUBSET Proposals, NEW trials \in Nat
    PROVE  /\ Started(slice, trials) \in Evaluation /\ Started(slice, trials).phase = "runs-clean"
           /\ Started(slice, trials).incumbents = slice /\ Started(slice, trials).scores = NoScores
           /\ Started(slice, trials).supersedes = 0
<1>1. /\ NoJob \in Evaluation /\ NoJob.scores = NoScores /\ NoJob.supersedes = 0
  BY NoJobFacts
<1> QED
  BY <1>1 DEF Started, Evaluation, Phases

LEMMA DispatchInv ==
    ASSUME IInv, NEW p \in Proposals, NEW s \in Submission, Dispatch(p, s)
    PROVE  IInv'
<1> DEFINE rejections == Cardinality({q \in Proposals : status[q] = "rejected"})
<1>1. /\ current = 0 /\ status[p] = "none"
      /\ sub' = [sub EXCEPT ![p] = s] /\ status' = [status EXCEPT ![p] = "proposed"]
      /\ UNCHANGED <<mode, recorded, proxy, real, board, today>>
      /\ \/ current' = p /\ job' = [job EXCEPT ![p] = Started(Accepted, rejections)]
         \/ current' = 0 /\ job' = job
  BY DEF Dispatch, Started, kaggle
<1>2. rejections \in Nat
  <2>1. IsFiniteSet(Proposals)
    <3>1. 1 \in Int /\ MaxProposals \in Int
      OBVIOUS
    <3> QED
      BY <3>1, FS_Interval DEF Proposals
  <2>2. IsFiniteSet({q \in Proposals : status[q] = "rejected"})
    BY <2>1, FS_Subset
  <2> QED
    BY <2>2, FS_CardinalityType
<1>3. /\ Accepted \in SUBSET Proposals
      /\ Evaluated(p) /\ Filed(p) /\ job[p].phase = "idle" /\ job[p] = NoJob
      /\ recorded[p] = NoScores /\ proxy[p] = NoScore /\ real[p] = NoScore
  BY <1>1 DEF Accepted, IInv, Evaluated, Filed
<1> HIDE DEF rejections
<1> DEFINE e == Started(Accepted, rejections)
<1>4. /\ e \in Evaluation /\ e.phase = "runs-clean" /\ e.incumbents = Accepted
      /\ e.scores = NoScores /\ e.supersedes = 0
  BY <1>2, <1>3, StartedFacts
<1> HIDE DEF e
<1>5. /\ \A q \in Proposals : q # p => job'[q] = job[q] /\ status'[q] = status[q] /\ sub'[q] = sub[q]
      /\ status'[p] = "proposed" /\ job'[p] \in {NoJob, e} /\ job' \in [Proposals -> Evaluation]
      /\ status' \in [Proposals -> Statuses] /\ sub' \in [Proposals -> Submission \cup {NoSubmission}]
      /\ current' # 0 => current' = p /\ job'[p] = e
  <2>1. job \in [Proposals -> Evaluation] /\ status \in [Proposals -> Statuses]
        /\ sub \in [Proposals -> Submission \cup {NoSubmission}] /\ p # 0 /\ "proposed" \in Statuses
    BY Ranges DEF IInv, Types, Statuses
  <2>2. \/ current' = p /\ job' = [job EXCEPT ![p] = e]
        \/ current' = 0 /\ job' = job
    BY <1>1 DEF e
  <2>3. /\ \A q \in Proposals : q # p => job'[q] = job[q]
        /\ job'[p] \in {NoJob, e} /\ job' \in [Proposals -> Evaluation]
        /\ current' # 0 => current' = p /\ job'[p] = e
    BY <1>3, <1>4, <2>1, <2>2
  <2>4. /\ \A q \in Proposals : q # p => status'[q] = status[q] /\ sub'[q] = sub[q]
        /\ status'[p] = "proposed" /\ status' \in [Proposals -> Statuses]
        /\ sub' \in [Proposals -> Submission \cup {NoSubmission}]
    BY <1>1, <2>1
  <2> QED
    BY <2>3, <2>4
<1>6. Types'
  BY <1>1, <1>5, Ranges DEF IInv, Types
<1>7. Accepted' = Accepted
  BY <1>1, <1>5 DEF Accepted
<1>8. mode # "always" => \A a, b \in Accepted : a = b
  BY DEF IInv, Rivals
<1>9. ASSUME NEW q \in Proposals
      PROVE  Evaluated(q)' /\ Filed(q)'
  <2>1. CASE q # p
    <3>1. /\ job'[q] = job[q] /\ status'[q] = status[q] /\ sub'[q] = sub[q]
          /\ Evaluated(q) /\ Filed(q)
      BY <1>5, <2>1 DEF IInv
    <3>2. \A a \in job[q].incumbents : status'[a] \in {"accepted", "superseded"}
      <4>1. job[q].incumbents \subseteq Proposals
        BY DEF IInv, Types, Evaluation
      <4> QED
        BY <1>1, <1>5, <3>1, <4>1 DEF Evaluated
    <3>3. Filed(q)'
      BY <1>1, <3>1 DEF Filed, Measured, Cleared, balanced_accuracy
    <3>4. Ended(q) => Ended(q)'
      BY <1>1, <3>1 DEF Ended, Cleared, Graded, balanced_accuracy
    <3> QED
      BY <1>1, <3>1, <3>2, <3>3, <3>4 DEF Evaluated, Measured, balanced_accuracy
  <2>2. CASE q = p
    <3>1. {"idle", "runs-clean"} \subseteq Ladder[mode] /\ "runs-clean" \notin Improved /\ "idle" \notin Improved
      BY LadderStarts DEF IInv, Types
    <3>2. NoScores["kaggle"] = NoScore
      BY NoScoresFacts DEF Gate
    <3>3. \A a \in Accepted : status'[a] = "accepted"
      BY <1>7 DEF Accepted
    <3>4. /\ job'[p].scores = NoScores /\ job'[p].supersedes = 0
          /\ \/ job'[p].phase = "idle" /\ job'[p].incumbents = {} /\ job'[p] = NoJob
             \/ job'[p].phase = "runs-clean" /\ job'[p].incumbents = Accepted
      BY <1>4, <1>5, NoJobFacts
    <3>5. /\ proxy'[p] = NoScore /\ real'[p] = NoScore /\ recorded'[p] = NoScores /\ status'[p] = "proposed"
          /\ mode' = mode
      BY <1>1, <1>3, <1>5
    <3>6. Filed(p)'
      BY <3>5, NoScoresFacts DEF Filed, Measured, Gate
    <3>7. Measured(p, job[p].scores)'
      BY <3>4, NoScoresFacts DEF Measured, Gate
    <3>8. /\ \A a \in job'[p].incumbents : status'[a] \in {"accepted", "superseded"}
          /\ mode # "always" => \A a, b \in job'[p].incumbents : a = b
      BY <1>8, <3>3, <3>4
    <3>9. job'[p].phase \in {"idle", "runs-clean"} /\ (job'[p].phase = "idle" => job'[p] = NoJob)
      BY <3>4
    <3>10. job'[p].scores["kaggle"] = NoScore /\ recorded'[p]["kaggle"] = NoScore
      BY <3>2, <3>4, <3>5
    <3>11. job'[p].phase \in Ladder[mode'] /\ job'[p].phase \notin Improved \cup {"poll", "done"}
      BY <3>1, <3>5, <3>9
    <3>12. /\ status'[p] = "proposed" /\ job'[p].supersedes = 0 /\ real'[p] = NoScore
           /\ proxy'[p] \in {NoScore, balanced_accuracy(p)'} /\ mode' = mode
      BY <3>4, <3>5
    <3>13. Evaluated(p)'
      <4>1. /\ job'[p].phase # "idle" => status'[p] = "proposed"
            /\ job'[p].phase \in Ladder[mode']
            /\ \A a \in job'[p].incumbents : status'[a] \in {"accepted", "superseded"}
            /\ mode' # "always" => \A a, b \in job'[p].incumbents : a = b
        BY <3>8, <3>11, <3>12
      <4>2. /\ job'[p].phase \notin Improved /\ job'[p].phase # "poll" /\ job'[p].phase # "done"
            /\ status'[p] # "none"
        BY <3>11, <3>12
      <4> QED
        BY <3>7, <3>9, <3>10, <3>12, <4>1, <4>2 DEF Evaluated
    <3> QED
      BY <2>2, <3>6, <3>13
  <2> QED
    BY <2>1, <2>2
<1>10. Awaited'
  BY <1>4, <1>5, <1>7 DEF Awaited, Improved
<1>11. Rivals'
  BY <1>1, <1>5, <1>7 DEF IInv, Rivals, HardGate
<1>12. ASSUME NEW i \in DOMAIN board'
       PROVE  Spent(i)'
  <2>1. board' = board /\ recorded' = recorded /\ i \in DOMAIN board /\ Spent(i) /\ board[i] \in Listed
    BY <1>1 DEF IInv, Types
  <2>2. board[i].over \subseteq Proposals
    BY <2>1 DEF Listed
  <2> SUFFICES ASSUME NEW q \in board[i].over
               PROVE  /\ board[i].who \in Proposals /\ status'[board[i].who] # "none"
                      /\ status'[q] \in {"accepted", "superseded"}
                      /\ sub'[board[i].who].script.score > recorded[q]["proxy-improves"] + Margin
    BY <2>1 DEF Spent, balanced_accuracy
  <2>3. /\ board[i].who \in Proposals /\ board[i].who # p /\ q \in Proposals /\ q # p
        /\ status[board[i].who] # "none" /\ status[q] \in {"accepted", "superseded"}
        /\ sub[board[i].who].script.score > recorded[q]["proxy-improves"] + Margin
    BY <1>1, <2>1, <2>2 DEF Spent, balanced_accuracy
  <2> QED
    BY <1>5, <2>3
<1> QED
  BY <1>6, <1>9, <1>10, <1>11, <1>12 DEF IInv


\* The reply that nobody records: of an abandoned call, or without a verdict.
LEMMA UnrecordedReplyInv ==
    ASSUME IInv, NEW p \in Proposals, job[p].phase = "done", job' = [job EXCEPT ![p] = NoJob],
           current' = IF current = p THEN 0 ELSE current,
           UNCHANGED <<mode, sub, status, recorded, proxy, real, board, today>>
    PROVE  IInv'
<1>1. /\ job' \in [Proposals -> Evaluation] /\ job'[p] = NoJob
      /\ \A q \in Proposals : q # p => job'[q] = job[q]
  BY NoJobFacts DEF IInv, Types
<1>2. Types'
  BY <1>1 DEF IInv, Types
<1>3. ASSUME NEW q \in Proposals
      PROVE  Evaluated(q)' /\ Filed(q)'
  <2>1. Filed(q)'
    BY DEF IInv, Filed, Measured, Cleared, balanced_accuracy
  <2>2. CASE q # p
    <3>1. job'[q] = job[q] /\ Evaluated(q)
      BY <1>1, <2>2 DEF IInv
    <3>2. Ended(q) => Ended(q)'
      BY <3>1 DEF Ended, Cleared, Graded, balanced_accuracy
    <3>3. Evaluated(q)'
      BY <3>1, <3>2 DEF Evaluated, Measured, balanced_accuracy
    <3> QED
      BY <2>1, <3>3
  <2>3. CASE q = p
    <3>1. {"idle", "runs-clean"} \subseteq Ladder[mode] /\ "idle" \notin Improved
      BY LadderStarts DEF IInv, Types
    <3>2. /\ job'[p].phase = "idle" /\ job'[p].incumbents = {} /\ job'[p].scores = NoScores
          /\ job'[p].supersedes = 0
      BY <1>1, NoJobFacts
    <3>3. Measured(p, job[p].scores)'
      BY <3>2, NoScoresFacts DEF Measured, Gate
    <3>4. status[p] = "proposed" /\ proxy[p] \in {NoScore, balanced_accuracy(p)} /\ recorded[p] = NoScores
      BY DEF IInv, Evaluated, Filed
    <3>5. recorded'[p]["kaggle"] = NoScore
      BY <3>4, NoScoresFacts DEF Gate
    <3>6. Evaluated(p)'
      BY <1>1, <3>1, <3>2, <3>3, <3>4, <3>5 DEF Evaluated, balanced_accuracy
    <3> QED
      BY <2>1, <2>3, <3>6
  <2> QED
    BY <2>2, <2>3
<1>4. Awaited'
  <2>1. CASE current = p
    BY <2>1 DEF Awaited
  <2>2. CASE current # p /\ current # 0
    <3>1. job'[current] = job[current] /\ current' = current
      BY <1>1, <2>2 DEF IInv, Types, Proposals
    <3> QED
      BY <2>2, <3>1 DEF IInv, Awaited, Accepted, HardGate, balanced_accuracy
  <2>3. CASE current # p /\ current = 0
    BY <2>3 DEF Awaited
  <2> QED
    BY <2>1, <2>2, <2>3
<1>5. Rivals' /\ \A i \in DOMAIN board' : Spent(i)'
  BY DEF IInv, Rivals, Spent, Accepted, HardGate, balanced_accuracy
<1> QED
  BY <1>2, <1>3, <1>4, <1>5 DEF IInv

\* The reply that commits: decisions, resting status and supersession.
LEMMA RecordedReplyInv ==
    ASSUME IInv, NEW p \in Proposals, job[p].phase = "done", current = p, job[p].bundle # "unavailable",
           job' = [job EXCEPT ![p] = NoJob], current' = 0,
           recorded' = [recorded EXCEPT ![p] = job[p].scores],
           status' = [q \in Proposals |->
                        IF q = p THEN job[p].bundle
                        ELSE IF q = job[p].supersedes THEN "superseded" ELSE status[q]],
           UNCHANGED <<mode, sub, proxy, real, board, today>>
    PROVE  IInv'
<1> DEFINE x == job[p].supersedes
           v == job[p].bundle
           s == job[p].scores
<1>1. Types /\ Evaluated(p) /\ Filed(p) /\ job[p] \in Evaluation /\ Awaited /\ Rivals /\ Ended(p) /\ p # 0
      /\ status[p] = "proposed" /\ p \notin Accepted
  BY Ranges DEF IInv, Types, Evaluated, Accepted
<1>2. /\ v \in {"accepted", "rejected", "revised"} /\ s \in [Gate -> ScoreSet]
      /\ x # 0 => v = "accepted" /\ mode # "always" /\ x \in Accepted
      /\ v = "accepted" /\ mode # "always" =>
             \A a \in Accepted : x = a /\ s[HardGate] > recorded[a][HardGate]
      /\ v = "accepted" => Cleared(p, s)
      /\ Measured(p, s) /\ (real[p] # NoScore => real[p] = s["kaggle"])
  BY <1>1 DEF Evaluated, Ended, Awaited, Evaluation
<1> HIDE DEF x, v, s
<1>3. /\ job' \in [Proposals -> Evaluation] /\ job'[p] = NoJob
      /\ \A q \in Proposals : q # p => job'[q] = job[q] /\ recorded'[q] = recorded[q]
      /\ recorded'[p] = s /\ recorded' \in [Proposals -> [Gate -> ScoreSet]]
  <2>1. job \in [Proposals -> Evaluation] /\ recorded \in [Proposals -> [Gate -> ScoreSet]]
        /\ recorded' = [recorded EXCEPT ![p] = s]
    BY <1>1 DEF Types, s
  <2> QED
    BY <1>2, <2>1, NoJobFacts
<1>4. /\ status'[p] = v
      /\ \A q \in Proposals : q # p => status'[q] = IF q = x THEN "superseded" ELSE status[q]
      /\ status' \in [Proposals -> Statuses]
  <2>1. status' = [q \in Proposals |-> IF q = p THEN v ELSE IF q = x THEN "superseded" ELSE status[q]]
    BY DEF v, x
  <2>2. status \in [Proposals -> Statuses] /\ "superseded" \in Statuses /\ v \in Statuses
    BY <1>1, <1>2 DEF Types, Statuses
  <2> QED
    BY <2>1, <2>2
<1>5. Types'
  BY <1>1, <1>3, <1>4 DEF Types
<1>6. \A q \in Proposals : q = x => status[q] = "accepted"
  BY <1>2, Ranges DEF Accepted
<1>7. \A q \in Proposals : status[q] \in {"accepted", "superseded"} =>
                               q # p /\ status'[q] \in {"accepted", "superseded"}
  BY <1>1, <1>4
<1>8. ASSUME NEW q \in Proposals, q # p
      PROVE  Evaluated(q)' /\ Filed(q)'
  <2>1. job'[q] = job[q] /\ recorded'[q] = recorded[q] /\ Evaluated(q) /\ Filed(q)
    BY <1>3, <1>8 DEF IInv
  <2>2. /\ status[q] # "accepted" => status'[q] = status[q]
        /\ status[q] = "accepted" => status'[q] \in {"accepted", "superseded"}
    BY <1>4, <1>6, <1>8
  <2>3. \A a \in job[q].incumbents : status'[a] \in {"accepted", "superseded"}
    <3>1. job[q].incumbents \subseteq Proposals
      BY <1>1 DEF Types, Evaluation
    <3> QED
      BY <1>7, <2>1, <3>1 DEF Evaluated
  <2>4. Filed(q)'
    BY <2>1, <2>2 DEF Filed, Measured, Cleared, balanced_accuracy
  <2>5. Ended(q) => Ended(q)'
    BY <2>1 DEF Ended, Cleared, Graded, balanced_accuracy
  <2>6. Evaluated(q)'
    <3>1. Measured(q, job[q].scores)'
      BY <2>1 DEF Evaluated, Measured, balanced_accuracy
    <3>2. job[q].phase # "idle" => status'[q] = "proposed"
      BY <2>1, <2>2 DEF Evaluated
    <3>3. status'[q] = "none" => proxy[q] = NoScore /\ real[q] = NoScore
      BY <2>1, <2>2 DEF Evaluated
    <3> QED
      BY <2>1, <2>3, <2>5, <3>1, <3>2, <3>3 DEF Evaluated, balanced_accuracy
  <2> QED
    BY <2>4, <2>6
<1>9. Evaluated(p)' /\ Filed(p)'
  <2>1. {"idle", "runs-clean"} \subseteq Ladder[mode] /\ "idle" \notin Improved
    BY <1>1, LadderStarts DEF Types
  <2>2. /\ job'[p].phase = "idle" /\ job'[p].incumbents = {} /\ job'[p].scores = NoScores
        /\ job'[p].supersedes = 0
    BY <1>3, NoJobFacts
  <2>3. Measured(p, job[p].scores)'
    BY <2>2, NoScoresFacts DEF Measured, Gate
  <2>4. /\ status'[p] \notin {"none", "proposed", "superseded"} /\ status'[p] = v
        /\ proxy[p] \in {NoScore, balanced_accuracy(p)}
    BY <1>1, <1>2, <1>4 DEF Evaluated
  <2>5. recorded'[p] = s /\ real'[p] \in {NoScore, recorded'[p]["kaggle"]}
    BY <1>2, <1>3
  <2>6. Filed(p)'
    BY <1>2, <2>4, <2>5 DEF Filed, Measured, Cleared, balanced_accuracy
  <2>7. Evaluated(p)'
    BY <1>3, <2>1, <2>2, <2>3, <2>4, <2>5 DEF Evaluated, balanced_accuracy
  <2> QED
    BY <2>6, <2>7
<1>10. Awaited'
  BY DEF Awaited
<1>11. Rivals'
  <2>1. CASE mode = "always"
    <3>1. x = 0 /\ \A q \in Proposals : status[q] # "superseded"
      BY <1>1, <1>2, <2>1 DEF Rivals
    <3> QED
      BY <1>2, <1>4, <2>1, <3>1, Ranges DEF Rivals
  <2>2. CASE mode # "always" /\ v # "accepted"
    <3>1. x = 0
      BY <1>2, <2>2
    <3>2. \A q \in Proposals : q # p => status'[q] = status[q]
      BY <1>4, <3>1, Ranges
    <3>3. Accepted' = Accepted
      BY <1>1, <1>4, <2>2, <3>2 DEF Accepted
    <3>4. \A r \in Proposals : status'[r] = "superseded" => r # p /\ status[r] = "superseded"
      BY <1>2, <1>4, <3>2
    <3>5. HardGate' = HardGate /\ \A a \in Accepted : a \in Proposals /\ a # p
      BY <1>1 DEF HardGate, Accepted
    <3>6. \A r \in Proposals : status'[r] = "superseded" =>
              Accepted' # {} /\ \A a \in Accepted' : recorded'[a][HardGate'] > recorded'[r][HardGate']
      BY <1>1, <1>3, <2>2, <3>3, <3>4, <3>5 DEF Rivals
    <3> QED
      BY <1>1, <2>2, <3>3, <3>6 DEF Rivals
  <2>3. CASE mode # "always" /\ v = "accepted"
    <3>1. \A a \in Accepted : x = a /\ s[HardGate] > recorded[a][HardGate]
      BY <1>2, <2>3
    <3>2. Accepted' = {p}
      BY <1>4, <2>3, <3>1 DEF Accepted
    <3>3. HardGate' = HardGate /\ HardGate \in Gate
      BY <1>1 DEF HardGate, Gate, Types
    <3>4. ASSUME NEW r \in Proposals, status'[r] = "superseded"
          PROVE  s[HardGate] > recorded'[r][HardGate]
      <4>1. r # p /\ recorded'[r] = recorded[r]
        BY <1>3, <1>4, <2>3, <3>4
      <4>2. CASE r = x
        <5>1. r \in Accepted
          BY <1>6, <4>2 DEF Accepted
        <5> QED
          BY <3>1, <4>1, <5>1
      <4>3. CASE r # x
        <5>1. status[r] = "superseded"
          BY <1>4, <3>4, <4>1, <4>3
        <5>2. PICK a \in Accepted : TRUE
          BY <1>1, <2>3, <5>1 DEF Rivals
        <5>3. recorded[a][HardGate] > recorded[r][HardGate] /\ s[HardGate] > recorded[a][HardGate]
          BY <1>1, <2>3, <3>1, <5>1, <5>2 DEF Rivals
        <5>4. recorded[a][HardGate] \in Int /\ recorded[r][HardGate] \in Int /\ s[HardGate] \in Int
          <6>1. a \in Proposals /\ ScoreSet \subseteq Int /\ recorded \in [Proposals -> [Gate -> ScoreSet]]
            BY <1>1, <5>2, Ranges DEF Types, Accepted
          <6>2. recorded[a] \in [Gate -> ScoreSet] /\ recorded[r] \in [Gate -> ScoreSet]
            BY <6>1
          <6>3. /\ recorded[a][HardGate] \in ScoreSet /\ recorded[r][HardGate] \in ScoreSet
                /\ s[HardGate] \in ScoreSet
            BY <1>2, <3>3, <6>2
          <6> QED
            BY <6>1, <6>3
        <5>5. s[HardGate] > recorded[r][HardGate]
          BY <5>3, <5>4
        <5> QED
          BY <4>1, <5>5
      <4> QED
        BY <4>2, <4>3
    <3>5. \A r \in Proposals : status'[r] = "superseded" =>
              Accepted' # {} /\ \A a \in Accepted' : recorded'[a][HardGate'] > recorded'[r][HardGate']
      BY <1>3, <3>2, <3>3, <3>4
    <3> QED
      BY <2>3, <3>2, <3>5 DEF Rivals
  <2> QED
    BY <2>1, <2>2, <2>3
<1>12. ASSUME NEW i \in DOMAIN board'
       PROVE  Spent(i)'
  <2>1. board' = board /\ sub' = sub /\ i \in DOMAIN board /\ Spent(i) /\ board[i] \in Listed
    BY <1>1 DEF IInv, Types
  <2>2. board[i].over \subseteq Proposals
    BY <2>1 DEF Listed
  <2> SUFFICES ASSUME NEW q \in board[i].over
               PROVE  /\ board[i].who \in Proposals /\ status'[board[i].who] # "none"
                      /\ status'[q] \in {"accepted", "superseded"}
                      /\ sub[board[i].who].script.score > recorded'[q]["proxy-improves"] + Margin
    BY <2>1 DEF Spent, balanced_accuracy
  <2>3. /\ board[i].who \in Proposals /\ q \in Proposals
        /\ status[board[i].who] # "none" /\ status[q] \in {"accepted", "superseded"}
        /\ sub[board[i].who].script.score > recorded[q]["proxy-improves"] + Margin
    BY <2>1, <2>2 DEF Spent, balanced_accuracy
  <2>4. status'[board[i].who] # "none"
    BY <1>2, <1>4, <2>3
  <2> QED
    BY <1>3, <1>7, <2>3, <2>4
<1> QED
  BY <1>5, <1>8, <1>9, <1>10, <1>11, <1>12 DEF IInv

LEMMA ReplyInv ==
    ASSUME IInv, NEW p \in Proposals, Reply(p)
    PROVE  IInv'
<1>1. /\ job[p].phase = "done" /\ job' = [job EXCEPT ![p] = NoJob]
      /\ current' = IF current = p THEN 0 ELSE current
      /\ UNCHANGED <<mode, sub, proxy, real, board, today>>
  BY DEF Reply, kaggle
<1>2. CASE current = p /\ job[p].bundle # "unavailable"
  <2>1. /\ recorded' = [recorded EXCEPT ![p] = job[p].scores] /\ current' = 0
        /\ status' = [q \in Proposals |->
                        IF q = p THEN job[p].bundle
                        ELSE IF q = job[p].supersedes THEN "superseded" ELSE status[q]]
    BY <1>1, <1>2 DEF Reply
  <2> QED
    BY <1>1, <1>2, <2>1, RecordedReplyInv
<1>3. CASE ~(current = p /\ job[p].bundle # "unavailable")
  <2>1. UNCHANGED <<recorded, status>>
    BY <1>3 DEF Reply
  <2> QED
    BY <1>1, <2>1, UnrecordedReplyInv
<1> QED
  BY <1>2, <1>3


-----------------------------------------------------------------------------
(* The invariant, and the properties it gives *)

LEMMA InitInv == Init => IInv
<1> SUFFICES ASSUME Init
             PROVE  IInv
  OBVIOUS
<1>1. /\ mode \in Modes /\ current = 0 /\ board = <<>> /\ today = 1
      /\ sub = [p \in Proposals |-> NoSubmission] /\ status = [p \in Proposals |-> "none"]
      /\ recorded = [p \in Proposals |-> NoScores] /\ job = [p \in Proposals |-> NoJob]
      /\ proxy = NoLedger /\ real = NoLedger
  BY DEF Init
<1>2. \A p \in Proposals : /\ status[p] = "none" /\ recorded[p] = NoScores /\ job[p] = NoJob
                           /\ proxy[p] = NoScore /\ real[p] = NoScore
  BY <1>1 DEF NoLedger
<1>3. Types
  <2>1. status \in [Proposals -> Statuses] /\ sub \in [Proposals -> Submission \cup {NoSubmission}]
    BY <1>1 DEF Statuses
  <2>2. recorded \in [Proposals -> [Gate -> ScoreSet]] /\ job \in [Proposals -> Evaluation]
    BY <1>1, NoScoresFacts, NoJobFacts
  <2>3. proxy \in [Proposals -> ScoreSet] /\ real \in [Proposals -> ScoreSet]
    BY <1>1 DEF NoLedger, ScoreSet
  <2>4. board \in Seq(Listed) /\ today \in Nat /\ current \in 0 .. MaxProposals
    BY <1>1
  <2> QED
    BY <1>1, <2>1, <2>2, <2>3, <2>4 DEF Types
<1>4. ASSUME NEW p \in Proposals
      PROVE  Evaluated(p) /\ Filed(p)
  <2>1. {"idle", "runs-clean"} \subseteq Ladder[mode] /\ "idle" \notin Improved
    BY <1>1, LadderStarts
  <2>2. /\ job[p].phase = "idle" /\ job[p].incumbents = {} /\ job[p].scores = NoScores
        /\ job[p].supersedes = 0 /\ job[p] = NoJob
    BY <1>2, NoJobFacts
  <2>3. Measured(p, NoScores) /\ NoScores["kaggle"] = NoScore
    BY MeasuredNone, NoScoresFacts DEF Gate
  <2> QED
    BY <1>2, <2>1, <2>2, <2>3 DEF Evaluated, Filed
<1>5. Awaited /\ Rivals /\ DOMAIN board = {}
  BY <1>1, <1>2 DEF Awaited, Rivals, Accepted
<1> QED
  BY <1>3, <1>4, <1>5 DEF IInv

LEMMA StepInv ==
    ASSUME IInv, NEW p \in Proposals, Step(p)
    PROVE  IInv'
  BY RunnableInv, SelectionInv, ScoreAndAcceptInv, ProxyImprovesInv, CompetitiveInv, RegenerateInv,
     WaitsInv, SubmitInv, PollScoreInv DEF Step

LEMMA NextInv == IInv /\ [Next]_vars => IInv'
<1> SUFFICES ASSUME IInv, [Next]_vars
             PROVE  IInv'
  OBVIOUS
<1>1. ASSUME NEW p \in Proposals, Step(p) \/ Reply(p) \/ Abandon(p)
      PROVE  IInv'
  BY <1>1, StepInv, ReplyInv, AbandonInv
<1>2. ASSUME NEW p \in Proposals, NEW s \in Submission, Dispatch(p, s)
      PROVE  IInv'
  BY <1>2, DispatchInv
<1>3. CASE LoseVerifier \/ Teardown \/ \E shipped \in SUBSET KaggleObjects : Provision(shipped)
  <2>1. FreshGates /\ UNCHANGED <<mode, cp, kaggle>>
    BY <1>3 DEF LoseVerifier, Teardown, Provision
  <2> QED
    BY <2>1, FreshInv
<1>4. CASE \/ TeamSubmits \/ NewDay
           \/ \E i \in 1 .. MaxProposals + MaxTeam, g \in Scores \cup {Errored} : Grade(i, g)
  BY <1>4, KaggleInv
<1>5. CASE UNCHANGED vars
  <2>1. UNCHANGED <<mode, cp, process>> /\ board' = board /\ today' = today
    BY <1>5 DEF vars, kaggle
  <2>2. /\ board \in Seq(Listed) /\ today \in Nat /\ Len(board) \in Nat /\ DOMAIN board = 1 .. Len(board)
    BY DEF IInv, Types
  <2>3. Listing
    BY <2>1, <2>2 DEF Listing
  <2> QED
    BY <2>1, <2>3, ListingKeeps
<1> QED
  BY <1>1, <1>2, <1>3, <1>4, <1>5 DEF Next

LEMMA Invariance == Spec => []IInv
  BY InitInv, NextInv, PTL DEF Spec

(***************************************************************************)
(* The store never holds two rival winners and the one it holds scored     *)
(* above everything it retired, whatever process measured the incumbent,   *)
(* whatever evaluations were abandoned meanwhile.  (_best_incumbent)       *)
(***************************************************************************)
THEOREM WinnersAreBest == Spec => []IncumbentIsBest
<1>1. IInv => IncumbentIsBest
  <2> SUFFICES ASSUME IInv
               PROVE  IncumbentIsBest
    OBVIOUS
  <2>1. CASE mode = "always"
    BY <2>1 DEF IInv, Rivals, IncumbentIsBest
  <2>2. CASE mode # "always"
    <3>1. \A a, b \in Accepted : a = b
      BY <2>2 DEF IInv, Rivals
    <3>2. Cardinality(Accepted) <= 1
      <4>1. CASE Accepted = {}
        BY <4>1, FS_EmptySet
      <4>2. CASE Accepted # {}
        <5>1. PICK a \in Accepted : TRUE
          BY <4>2
        <5>2. Accepted = {a}
          BY <3>1, <5>1
        <5>3. Cardinality({a}) = 1
          BY FS_Singleton
        <5> QED
          BY <5>2, <5>3
      <4> QED
        BY <4>1, <4>2
    <3>3. \A a \in Accepted, r \in Proposals :
              status[r] = "superseded" => recorded[a][HardGate] > recorded[r][HardGate]
      BY <2>2 DEF IInv, Rivals
    <3> QED
      BY <2>2, <3>2, <3>3 DEF IncumbentIsBest
  <2> QED
    BY <2>1, <2>2
<1> QED
  BY <1>1, Invariance, PTL

(***************************************************************************)
(* A Kaggle submission made for an evaluation still awaited beats, by more *)
(* than the margin, the hold-out score of all that was accepted then: the  *)
(* slice taken at dispatch cannot be stale at the submission.              *)
(* (proxy_improves)                                                        *)
(***************************************************************************)
THEOREM ImprovementsOnly == Spec => []SpendsOnlyOnImprovement
<1>1. IInv => SpendsOnlyOnImprovement
  BY DEF IInv, Spent, SpendsOnlyOnImprovement
<1> QED
  BY <1>1, Invariance, PTL

(***************************************************************************)
(* The score taken for a proposal is that of its own submission or of a    *)
(* later one, never of one made before.  (_poll_score, _newest)            *)
(***************************************************************************)
THEOREM ScoresAreCurrent == Spec => []ScoreNotStale
<1>1. IInv => ScoreNotStale
  BY DEF IInv, Evaluated, Ended, Graded, ScoreNotStale
<1> QED
  BY <1>1, Invariance, PTL

-----------------------------------------------------------------------------
(* The competitive bar *)

\* The clamped rank of the top tenth is a place of the leaderboard.
BarRank(n) == Max({1, Min({n, (n + 9) \div 10})})

LEMMA RankOnBoard ==
    ASSUME NEW n \in Nat, n > 0
    PROVE  BarRank(n) \in 1 .. n
<1> DEFINE t == (n + 9) \div 10
           low == Min({n, t})
<1>1. t \in Nat /\ 1 <= t
  BY Z3
<1> HIDE DEF t
<1>2. \E x \in {n, t} : \A y \in {n, t} : x <= y
  BY <1>1
<1>3. low \in {n, t} /\ \A y \in {n, t} : low <= y
  BY <1>2 DEF Min
<1>4. low \in Nat /\ 1 <= low /\ low <= n
  BY <1>1, <1>3
<1> HIDE DEF low
<1>5. \E x \in {1, low} : \A y \in {1, low} : x >= y
  BY <1>4
<1>6. Max({1, low}) \in {1, low}
  BY <1>5 DEF Max
<1> QED
  BY <1>4, <1>6 DEF BarRank, low, t

\* p lists the places of s from the best score down, each place once.
Descends(p, s) ==
    /\ p \in Bijection(1 .. Len(s), 1 .. Len(s))
    /\ \A i, j \in 1 .. Len(s) : i <= j => s[p[i]] >= s[p[j]]

(***************************************************************************)
(* The bar of the competitive gate is the score at the rank of the top     *)
(* tenth, clamped to the leaderboard, in whatever order the standings are  *)
(* listed and however they are sorted, ties included: the definition by    *)
(* counting that the model uses is the code's sort and index.              *)
(* (top_fraction_threshold)                                                *)
(***************************************************************************)
THEOREM BarIsTopTenth ==
    ASSUME NEW s \in Standings, s # << >>, NEW p, Descends(p, s)
    PROVE  top_fraction_threshold(s) = s[p[BarRank(Len(s))]]
<1> DEFINE n == Len(s)
           k == BarRank(n)
           v == s[p[k]]
           above(x) == {i \in 1 .. n : s[i] > x}
           from(x) == {i \in 1 .. n : s[i] >= x}
           fits(x) == Cardinality(above(x)) < k /\ Cardinality(from(x)) >= k
<1>1. n \in Nat /\ n > 0 /\ \A i \in 1 .. n : s[i] \in Nat
  <2>1. PICK m \in 0 .. MaxStandings : s \in [1 .. m -> Scores]
    BY DEF Standings
  <2>2. m \in Nat /\ s \in Seq(Scores) /\ Len(s) = m /\ Scores \subseteq Nat
    BY <2>1 DEF Scores
  <2>3. m # 0
    BY <2>1, <2>2
  <2>4. \A i \in 1 .. m : s[i] \in Nat
    BY <2>1, <2>2
  <2>5. n = m /\ m > 0
    BY <2>2, <2>3
  <2> QED
    BY <2>2, <2>4, <2>5
<1>2. k \in 1 .. n
  BY <1>1, RankOnBoard
<1>3. /\ \A i \in 1 .. n : p[i] \in 1 .. n
      /\ \A i, j \in 1 .. n : p[i] = p[j] => i = j
      /\ \A i \in 1 .. n : \E j \in 1 .. n : p[j] = i
      /\ \A i, j \in 1 .. n : i <= j => s[p[i]] >= s[p[j]]
  BY DEF Descends, Bijection, Injection, Surjection, IsInjective
<1>4. top_fraction_threshold(s) = CHOOSE x \in {s[i] : i \in 1 .. n} : fits(x)
  BY DEF top_fraction_threshold, BarRank
<1> HIDE DEF n, k
<1>5. v \in Nat /\ v \in {s[i] : i \in 1 .. n} /\ k \in Nat /\ k > 0
  <2>1. p[k] \in 1 .. n
    BY <1>2, <1>3
  <2>2. s[p[k]] \in Nat /\ s[p[k]] \in {s[i] : i \in 1 .. n}
    BY <1>1, <2>1
  <2>3. k \in Nat /\ k > 0
    BY <1>1, <1>2
  <2> QED
    BY <2>2, <2>3
<1>6. \A x \in Nat : /\ IsFiniteSet(above(x)) /\ Cardinality(above(x)) \in Nat
                     /\ IsFiniteSet(from(x)) /\ Cardinality(from(x)) \in Nat
  <2>1. IsFiniteSet(1 .. n)
    <3>1. 1 \in Int /\ n \in Int
      BY <1>1
    <3> QED
      BY <3>1, FS_Interval
  <2>2. ASSUME NEW A \in SUBSET (1 .. n) PROVE IsFiniteSet(A) /\ Cardinality(A) \in Nat
    BY <2>1, FS_Subset, FS_CardinalityType
  <2>3. \A x : above(x) \in SUBSET (1 .. n) /\ from(x) \in SUBSET (1 .. n)
    OBVIOUS
  <2> HIDE DEF above, from
  <2> QED
    BY <2>2, <2>3
<1>7. Cardinality(above(v)) < k
  <2> DEFINE H == {p[j] : j \in 1 .. k - 1}
             f == [j \in 1 .. k - 1 |-> p[j]]
  <2>1. f \in Surjection(1 .. k - 1, H)
    BY DEF Surjection
  <2>2. IsFiniteSet(1 .. k - 1) /\ Cardinality(1 .. k - 1) = k - 1
    <3>1. 1 \in Int /\ k - 1 \in Int
      BY <1>5
    <3>2. IsFiniteSet(1 .. k - 1) /\ Cardinality(1 .. k - 1) = IF 1 > k - 1 THEN 0 ELSE (k - 1) - 1 + 1
      BY <3>1, FS_Interval
    <3> QED
      BY <1>5, <3>2
  <2> HIDE DEF f
  <2>3. IsFiniteSet(H) /\ Cardinality(H) <= k - 1
    BY <2>1, <2>2, FS_Surjection
  <2>4. above(v) \in SUBSET H
    <3> SUFFICES ASSUME NEW i \in 1 .. n, s[i] > v PROVE i \in H
      OBVIOUS
    <3>1. PICK j \in 1 .. n : p[j] = i
      BY <1>3
    <3>2. ~(k <= j)
      <4>1. k <= j => v >= s[i]
        BY <1>2, <1>3, <3>1
      <4>2. s[i] \in Nat /\ v \in Nat /\ s[i] > v
        BY <1>1, <1>5
      <4> HIDE DEF v
      <4> QED
        BY <4>1, <4>2
    <3>3. j \in 1 .. k - 1
      BY <1>1, <1>5, <3>2
    <3> QED
      BY <3>1, <3>3
  <2> DEFINE A == above(v)
  <2> HIDE DEF H, A
  <2>5. Cardinality(A) <= Cardinality(H) /\ Cardinality(H) \in Nat
    BY <2>3, <2>4, FS_Subset, FS_CardinalityType DEF A
  <2>6. Cardinality(A) \in Nat
    BY <1>5, <1>6 DEF A
  <2>7. Cardinality(A) < k
    BY <1>5, <2>3, <2>5, <2>6
  <2> QED
    BY <2>7 DEF A
<1>8. Cardinality(from(v)) >= k
  <2> DEFINE B == from(v)
             f == [j \in 1 .. k |-> p[j]]
  <2>1. ASSUME NEW j \in 1 .. k PROVE j \in 1 .. n /\ p[j] \in B
    <3>1. j \in 1 .. n /\ j <= k
      BY <1>1, <1>2
    <3> QED
      BY <1>2, <1>3, <3>1
  <2>2. f \in Injection(1 .. k, B)
    BY <1>3, <2>1 DEF Injection, IsInjective
  <2>3. IsFiniteSet(B) /\ Cardinality(B) \in Nat
    BY <1>5, <1>6
  <2>4. Cardinality(1 .. k) = k
    <3>1. 1 \in Int /\ k \in Int
      BY <1>5
    <3>2. Cardinality(1 .. k) = IF 1 > k THEN 0 ELSE k - 1 + 1
      BY <3>1, FS_Interval
    <3> QED
      BY <1>5, <3>2
  <2> HIDE DEF f, B
  <2>5. Cardinality(1 .. k) <= Cardinality(B)
    BY <2>2, <2>3, FS_Injection
  <2>6. Cardinality(B) >= k
    BY <1>5, <2>3, <2>4, <2>5
  <2> QED
    BY <2>6 DEF B
<1>9. ASSUME NEW x \in Nat, NEW y \in Nat, fits(x), fits(y), x < y PROVE FALSE
  <2>1. from(y) \in SUBSET above(x)
    BY <1>1, <1>9
  <2> DEFINE A == above(x)
             B == from(y)
  <2>2. IsFiniteSet(A) /\ Cardinality(A) \in Nat /\ Cardinality(B) \in Nat
    BY <1>6
  <2>3. Cardinality(A) < k /\ Cardinality(B) >= k /\ B \in SUBSET A
    BY <1>9, <2>1
  <2> HIDE DEF A, B
  <2>4. Cardinality(B) <= Cardinality(A)
    BY <2>2, <2>3, FS_Subset
  <2> QED
    BY <1>5, <2>2, <2>3, <2>4
<1>10. fits(v)
  BY <1>7, <1>8
<1>11. \A x \in {s[i] : i \in 1 .. n} : x \in Nat
  BY <1>1
<1> HIDE DEF v, fits
<1>12. \A x \in {s[i] : i \in 1 .. n} : fits(x) => x = v
  <2> SUFFICES ASSUME NEW x \in {s[i] : i \in 1 .. n}, fits(x) PROVE x = v
    OBVIOUS
  <2>1. x \in Nat /\ v \in Nat
    BY <1>5, <1>11
  <2>2. ~(x < v)
    BY <1>9, <1>10, <2>1
  <2>3. ~(v < x)
    BY <1>9, <1>10, <2>1
  <2> QED
    BY <2>1, <2>2, <2>3
<1>13. top_fraction_threshold(s) = v
  BY <1>4, <1>5, <1>10, <1>12
<1> QED
  BY <1>13 DEF v, k, n


=============================================================================
