---------------------------- MODULE AgentProofs ----------------------------
(***************************************************************************)
(* TLAPS proofs about the agent's cycle: what it is given (ContextServing) *)
(* and what its loop makes of its budget (AgentLoop).                      *)
(*                                                                         *)
(* ContextServing, for every number of cycles, restarts and artifacts and  *)
(* every limit.  A served context is a function of the store, so the       *)
(* inductive invariant is about the store alone: stamps increase with the  *)
(* ids and along the trail, the two tables hold the trail, the correction  *)
(* carried on is its end, and between cycles the workspace is empty.  That *)
(* the sorted digest is then the trail reversed, that a policy selects     *)
(* each submission once, and what the admission loop has counted after     *)
(* every round, are lemmas about the operators; where they take induction, *)
(* it is by a least counterexample.                                        *)
(*                                                                         *)
(* AgentLoop, for every budget, limit and timeout and every set of declared*)
(* files.  That the budget holds needs to know that the middleware's       *)
(* counter is the truth while the agent can still make a step, how it      *)
(* bounds the framework's count, and that the warning came with the step   *)
(* it is due at.  That a failure is explained needs to know what is in the *)
(* log when the worker leaves by itself.                                   *)
(***************************************************************************)
EXTENDS ContextServing, AgentLoop, FiniteSetTheorems, WellFoundedInduction, SequenceTheorems, TLAPS

-----------------------------------------------------------------------------
(* Least counterexamples, ranks and sorted sequences *)

\* A nonempty set of numbers has a least member.
LEMMA LeastNat ==
    ASSUME NEW T, T \subseteq Nat, T # {}
    PROVE  \E x \in T : \A y \in T : x <= y
<1> DEFINE R == OpToRel(<, Nat)
<1>1. IsWellFoundedOn(R, Nat)
  BY NatLessThanWellFounded
<1>2. \A x, y \in Nat : <<y, x>> \in R <=> y < x
  BY DEF OpToRel
<1> HIDE DEF R
<1>3. PICK x \in T : \A y \in T : <<y, x>> \notin R
  BY <1>1, WFMin, Zenon
<1>4. ASSUME NEW y \in T PROVE x <= y
  <2>1. x \in Nat /\ y \in Nat /\ <<y, x>> \notin R
    BY <1>3
  <2>2. ~(y < x)
    BY <1>2, <2>1
  <2> QED
    BY <2>1, <2>2
<1> QED
  BY <1>3, <1>4

\* A strict total order, as a set of pairs.
StrictTotal(R, S) ==
    /\ \A x \in S : <<x, x>> \notin R
    /\ \A x, y, z \in S : <<x, y>> \in R /\ <<y, z>> \in R => <<x, z>> \in R
    /\ \A x, y \in S : x = y \/ <<x, y>> \in R \/ <<y, x>> \in R

Below(x, R, S) == {y \in S : <<y, x>> \in R}

\* The number of members before one determines it, and takes every value.
LEMMA RankBijective ==
    ASSUME NEW S, IsFiniteSet(S), NEW R, StrictTotal(R, S)
    PROVE  /\ Cardinality(S) \in Nat
           /\ \A x \in S : Cardinality(Below(x, R, S)) \in 0 .. Cardinality(S) - 1
           /\ \A x, y \in S : Cardinality(Below(x, R, S)) = Cardinality(Below(y, R, S)) => x = y
           /\ \A k \in 0 .. Cardinality(S) - 1 : \E x \in S : Cardinality(Below(x, R, S)) = k
<1> DEFINE n == Cardinality(S)
           rank == [x \in S |-> Cardinality(Below(x, R, S))]
<1>1. n \in Nat
  BY FS_CardinalityType
<1>2. \A x \in S : IsFiniteSet(Below(x, R, S)) /\ Cardinality(Below(x, R, S)) \in Nat
  BY FS_Subset, FS_CardinalityType DEF Below
<1>3. ASSUME NEW x \in S PROVE Cardinality(Below(x, R, S)) \in 0 .. n - 1
  <2>1. Below(x, R, S) \in SUBSET (S \ {x})
    BY DEF Below, StrictTotal
  <2>2. IsFiniteSet(S \ {x}) /\ Cardinality(S \ {x}) = n - 1
    BY FS_RemoveElement
  <2>3. Cardinality(Below(x, R, S)) <= n - 1
    BY <2>1, <2>2, FS_Subset
  <2> QED
    BY <1>1, <1>2, <2>3
<1>4. ASSUME NEW x \in S, NEW y \in S, <<x, y>> \in R
      PROVE  Cardinality(Below(x, R, S)) # Cardinality(Below(y, R, S))
  <2>1. Below(x, R, S) \in SUBSET Below(y, R, S)
    BY <1>4 DEF Below, StrictTotal
  <2>2. x \in Below(y, R, S) /\ x \notin Below(x, R, S)
    BY <1>4 DEF Below, StrictTotal
  <2> QED
    BY <1>2, <2>1, <2>2, FS_Subset
<1>5. ASSUME NEW x \in S, NEW y \in S, Cardinality(Below(x, R, S)) = Cardinality(Below(y, R, S))
      PROVE  x = y
  BY <1>4, <1>5 DEF StrictTotal
<1>6. rank \in Injection(S, 0 .. n - 1)
  BY <1>3, <1>5 DEF Injection, IsInjective
<1>7. IsFiniteSet(0 .. n - 1) /\ Cardinality(0 .. n - 1) = n
  <2>1. 0 \in Int /\ n - 1 \in Int
    BY <1>1
  <2> QED
    BY <1>1, <2>1, FS_Interval
<1>8. rank \in Surjection(S, 0 .. n - 1)
  BY <1>6, <1>7, FS_Injection
<1> QED
  BY <1>1, <1>3, <1>5, <1>8 DEF Surjection

\* A sequence lists a set: each member, once.
Lists(s, S) == s \in Seq(S) /\ Range(s) = S /\ \A i, j \in 1 .. Len(s) : s[i] = s[j] => i = j

\* A sequence that puts every member at its rank lists the set, once each.
LEMMA RankedSequence ==
    ASSUME NEW S, IsFiniteSet(S), NEW R, StrictTotal(R, S),
           NEW s \in [1 .. Cardinality(S) -> S],
           \A i \in 1 .. Cardinality(S) : Cardinality(Below(s[i], R, S)) = i - 1
    PROVE  Lists(s, S)
<1> DEFINE n == Cardinality(S)
<1>1. n \in Nat
  BY FS_CardinalityType
<1> HIDE DEF n
<1>2. s \in Seq(S) /\ Len(s) = n /\ DOMAIN s = 1 .. n
  BY <1>1 DEF n
<1>3. ASSUME NEW i \in 1 .. n, NEW j \in 1 .. n, s[i] = s[j] PROVE i = j
  <2>1. Cardinality(Below(s[i], R, S)) = i - 1 /\ Cardinality(Below(s[j], R, S)) = j - 1
    BY DEF n
  <2> QED
    BY <1>1, <1>3, <2>1
<1>4. ASSUME NEW x \in S PROVE x \in Range(s)
  <2> DEFINE k == Cardinality(Below(x, R, S))
  <2>1. k \in 0 .. n - 1
    BY RankBijective DEF n
  <2> HIDE DEF k
  <2>2. k + 1 \in 1 .. n /\ (k + 1) - 1 = k
    BY <1>1, <2>1
  <2>3. s[k + 1] \in S /\ Cardinality(Below(s[k + 1], R, S)) = k
    BY <2>2 DEF n
  <2>4. s[k + 1] = x
    BY <2>3, RankBijective DEF k
  <2> QED
    BY <1>2, <2>2, <2>4 DEF Range
<1>5. Range(s) = S
  <2>1. \A i \in 1 .. n : s[i] \in S
    BY DEF n
  <2> QED
    BY <1>2, <1>4, <2>1 DEF Range
<1> QED
  BY <1>2, <1>3, <1>5 DEF Lists
\* A finite set listed once each by an interval has as many members.
LEMMA CountByIndex ==
    ASSUME NEW a \in Int, NEW b \in Int, a <= b + 1, NEW f, NEW S,
           \A i \in a .. b : f[i] \in S, \A x \in S : \E i \in a .. b : x = f[i],
           \A i, j \in a .. b : f[i] = f[j] => i = j
    PROVE  IsFiniteSet(S) /\ Cardinality(S) = b - a + 1
<1> DEFINE g == [i \in a .. b |-> f[i]]
<1>1. g \in Bijection(a .. b, S)
  BY DEF Bijection, Injection, Surjection, IsInjective
<1>2. IsFiniteSet(a .. b) /\ Cardinality(a .. b) = b - a + 1
  BY FS_Interval
<1>3. ExistsBijection(a .. b, S)
  BY <1>1 DEF ExistsBijection
<1> QED
  BY <1>2, <1>3, FS_Bijection

\* A list whose times increase is, reversed, its lines sorted by recency.
LEMMA SortedIsReversed ==
    ASSUME NEW S, NEW t \in Seq(S), \A i \in 1 .. Len(t) : t[i].at \in Int,
           \A i, j \in 1 .. Len(t) : i < j => t[i].at < t[j].at
    PROVE  InOrder(Range(t), Later) = Reverse(t)
<1> DEFINE n == Len(t)
           L == Range(t)
           After(x) == {y \in L : Later(y, x)}
<1>1. n \in Nat /\ DOMAIN t = 1 .. n /\ \A x \in L : \E i \in 1 .. n : x = t[i]
  BY DEF Range
<1>2. \A i \in 1 .. n : t[i] \in L
  BY DEF Range
<1> HIDE DEF n, L
<1>3. \A i, j \in 1 .. n : t[i].at < t[j].at <=> i < j
  BY <1>1 DEF n
<1>4. \A i, j \in 1 .. n : t[i] = t[j] => i = j
  BY <1>1, <1>3
<1>5. Cardinality(L) = n
  <2>1. 1 \in Int /\ n \in Int /\ 1 <= n + 1
    BY <1>1
  <2>2. Cardinality(L) = n - 1 + 1
    BY <1>1, <1>2, <1>4, <2>1, CountByIndex
  <2> QED
    BY <1>1, <2>2
<1>6. ASSUME NEW k \in 1 .. n PROVE Cardinality(After(t[k])) = n - k
  <2>1. k + 1 \in Int /\ n \in Int /\ k + 1 <= n + 1 /\ \A i \in k + 1 .. n : i \in 1 .. n /\ k < i
    BY <1>1
  <2>2. \A i \in k + 1 .. n : t[i] \in After(t[k])
    <3> SUFFICES ASSUME NEW i \in k + 1 .. n PROVE t[i] \in After(t[k])
      OBVIOUS
    <3>1. i \in 1 .. n /\ k < i
      BY <2>1
    <3>2. t[k].at < t[i].at /\ t[k].at \in Int /\ t[i].at \in Int
      BY <1>3, <3>1 DEF n
    <3> QED
      BY <1>2, <3>1, <3>2 DEF Later
  <2>3. ASSUME NEW x \in After(t[k]) PROVE \E i \in k + 1 .. n : x = t[i]
    <3>1. PICK i \in 1 .. n : x = t[i]
      BY <1>1, <2>3
    <3>2. t[i].at > t[k].at /\ t[k].at \in Int /\ t[i].at \in Int
      BY <2>3, <3>1 DEF Later, n
    <3>3. k < i
      BY <1>3, <3>1, <3>2
    <3> QED
      BY <1>1, <3>1, <3>3
  <2>4. \A i, j \in k + 1 .. n : t[i] = t[j] => i = j
    BY <1>4, <2>1
  <2> HIDE DEF After
  <2>5. Cardinality(After(t[k])) = n - (k + 1) + 1
    BY <2>1, <2>2, <2>3, <2>4, CountByIndex
  <2> QED
    BY <1>1, <2>5
<1>7. ASSUME NEW i \in 1 .. n
      PROVE  (CHOOSE x \in L : Cardinality(After(x)) = i - 1) = t[(n - i) + 1]
  <2> DEFINE c == CHOOSE x \in L : Cardinality(After(x)) = i - 1
             k == (n - i) + 1
  <2>1. k \in 1 .. n /\ n - k = i - 1
    BY <1>1
  <2> HIDE DEF k, After
  <2>2. t[k] \in L /\ Cardinality(After(t[k])) = i - 1
    BY <1>2, <1>6, <2>1
  <2>3. c \in L /\ Cardinality(After(c)) = i - 1
    BY <2>2
  <2> HIDE DEF c
  <2>4. PICK j \in 1 .. n : c = t[j]
    BY <1>1, <2>3
  <2>5. n - j = i - 1
    BY <1>6, <2>3, <2>4
  <2>6. j = k
    BY <1>1, <2>1, <2>5
  <2> QED
    BY <2>4, <2>6 DEF c, k
<1>8. InOrder(L, Later) = [i \in 1 .. n |-> CHOOSE x \in L : Cardinality(After(x)) = i - 1]
  BY <1>5 DEF InOrder
<1>9. Reverse(t) = [i \in 1 .. n |-> t[(n - i) + 1]]
  BY DEF Reverse, n
<1> HIDE DEF After
<1>10. InOrder(L, Later) = Reverse(t)
  BY <1>7, <1>8, <1>9
<1> QED
  BY <1>10 DEF L


-----------------------------------------------------------------------------
(* The inductive invariant *)

\* What a submission records, and a line of the digest.
Rulings0 == {<< >>} \cup {r.decisions : r \in Rulings}
Submission == [status : Statuses, at : Nat, objects : ObjectSets, decisions : Rulings0]
Line == [at : Nat, what : Kinds \cup Gates \cup {"gate"}]

Types ==
    /\ art \in Seq(Submission) /\ failures \in Seq(Line) /\ trail \in Seq(Line) /\ clock \in Nat
    /\ policy.select \in {"best", "last", "all"}
    /\ policy.max_artifacts \in Nat \cup {Unlimited} /\ policy.max_bytes \in Nat \cup {Unlimited}

\* Stamps increase with the ids and along the trail, and lie in the past.
Increasing(s) == \A i, j \in 1 .. Len(s) : i < j => s[i].at < s[j].at
Timed(s) == \A i \in 1 .. Len(s) : s[i].at \in Nat
Past(s, now) == \A i \in 1 .. Len(s) : s[i].at < now
Stamped == Increasing(art) /\ Past(art, clock) /\ Increasing(trail) /\ Past(trail, clock)

\* The two tables hold the trail.
TablesHoldTrail == Range(trail) = digest_lines

\* The correction carried on is the end of the trail.
Corrections == {"sandbox-error", "shape-error", "gate"} \cup Gates
CorrectionIsLast == feedback \in Corrections => trail # << >> /\ trail[Len(trail)].what = feedback

\* Between cycles the workspace is as provisioned.
Fresh == phase \in {"down", "idle"} => scratch = Empty

StoreInv == Types /\ Stamped /\ TablesHoldTrail /\ CorrectionIsLast /\ Fresh

IInv == StoreInv /\ DigestIsTrail /\ ProvisionedFromStore

-----------------------------------------------------------------------------
(* Lines of the digest *)

\* The gate that rejected, told from the decisions.
GateOf(d) ==
    LET rejects == {i \in DOMAIN d : d[i].verdict = "reject"}
    IN  IF rejects = {} THEN "gate" ELSE d[CHOOSE i \in rejects : \A j \in rejects : i <= j].gate

LineOf(x) == [at |-> x.at, what |-> GateOf(x.decisions)]
ArtLines(s) == {LineOf(s[a]) : a \in {b \in DOMAIN s : s[b].status = "rejected"}}
FailLines(f) == {f[i] : i \in {g \in DOMAIN f : f[g].what # "gate-error"}}

\* The lines are those of the two tables.
LEMMA TwoTables ==
    /\ digest_lines = ArtLines(art) \cup FailLines(failures)
    /\ digest_lines' = ArtLines(art') \cup FailLines(failures')
  BY DEF digest_lines, ArtLines, FailLines, LineOf, GateOf, rejecting_decision, ids

\* A submission adds its line if it was rejected.
LEMMA ArtLinesAppend ==
    ASSUME NEW S, NEW s \in Seq(S), NEW x \in S
    PROVE  ArtLines(Append(s, x)) = ArtLines(s) \cup (IF x.status = "rejected" THEN {LineOf(x)} ELSE {})
<1> DEFINE t == Append(s, x)
           n == Len(s)
<1>1. /\ n \in Nat /\ DOMAIN s = 1 .. n /\ DOMAIN t = 1 .. n + 1
      /\ t[n + 1] = x /\ \A i \in 1 .. n : t[i] = s[i]
  BY AppendProperties
<1> HIDE DEF t, n
<1>2. ASSUME NEW a \in 1 .. n + 1, t[a].status = "rejected"
      PROVE  LineOf(t[a]) \in ArtLines(s) \cup (IF x.status = "rejected" THEN {LineOf(x)} ELSE {})
  <2>1. CASE a = n + 1
    BY <1>1, <1>2, <2>1
  <2>2. CASE a # n + 1
    <3>1. a \in 1 .. n /\ t[a] = s[a]
      BY <1>1, <2>2
    <3> QED
      BY <1>1, <1>2, <3>1 DEF ArtLines
  <2> QED
    BY <2>1, <2>2
<1>3. ASSUME NEW a \in 1 .. n, s[a].status = "rejected" PROVE LineOf(s[a]) \in ArtLines(t)
  <2>1. a \in 1 .. n + 1 /\ t[a] = s[a]
    BY <1>1
  <2> QED
    BY <1>1, <1>3, <2>1 DEF ArtLines
<1>4. x.status = "rejected" => LineOf(x) \in ArtLines(t)
  <2>1. n + 1 \in 1 .. n + 1
    BY <1>1
  <2> QED
    BY <1>1, <2>1 DEF ArtLines
<1>5. ArtLines(t) = ArtLines(s) \cup (IF x.status = "rejected" THEN {LineOf(x)} ELSE {})
  BY <1>1, <1>2, <1>3, <1>4 DEF ArtLines
<1> QED
  BY <1>5 DEF t

\* Retiring an accepted submission adds and removes none.
LEMMA RetireKeeps ==
    ASSUME NEW s \in Seq(Submission), NEW old \in DOMAIN s, s[old].status = "accepted",
           NEW t, t = [s EXCEPT ![old].status = "superseded"]
    PROVE  /\ t \in Seq(Submission) /\ Len(t) = Len(s) /\ DOMAIN t = DOMAIN s
           /\ \A i \in DOMAIN s : t[i].at = s[i].at
           /\ ArtLines(t) = ArtLines(s)
<1> DEFINE x == [s[old] EXCEPT !.status = "superseded"]
<1>1. old \in 1 .. Len(s) /\ DOMAIN s = 1 .. Len(s) /\ s[old] \in Submission
  OBVIOUS
<1>2. x \in Submission /\ x.status = "superseded" /\ x.at = s[old].at
  BY <1>1 DEF Submission, Statuses
<1>3. t = [s EXCEPT ![old] = x]
  OBVIOUS
<1> HIDE DEF x
<1>4. /\ t \in Seq(Submission) /\ Len(t) = Len(s) /\ DOMAIN t = DOMAIN s
      /\ t[old] = x /\ \A i \in DOMAIN s : i # old => t[i] = s[i]
  BY <1>1, <1>2, <1>3
<1>5. {b \in DOMAIN t : t[b].status = "rejected"} = {b \in DOMAIN s : s[b].status = "rejected"}
  BY <1>2, <1>4
<1>6. ArtLines(t) = ArtLines(s)
  BY <1>2, <1>4, <1>5 DEF ArtLines
<1> QED
  BY <1>2, <1>4, <1>6

\* A failed cycle adds its line unless a gate could not rule.
LEMMA FailLinesAppend ==
    ASSUME NEW S, NEW f \in Seq(S), NEW x \in S
    PROVE  FailLines(Append(f, x)) = FailLines(f) \cup (IF x.what # "gate-error" THEN {x} ELSE {})
<1> DEFINE t == Append(f, x)
           n == Len(f)
<1>1. /\ n \in Nat /\ DOMAIN f = 1 .. n /\ DOMAIN t = 1 .. n + 1
      /\ t[n + 1] = x /\ \A i \in 1 .. n : t[i] = f[i]
  BY AppendProperties
<1> HIDE DEF t, n
<1>2. ASSUME NEW a \in 1 .. n + 1, t[a].what # "gate-error"
      PROVE  t[a] \in FailLines(f) \cup (IF x.what # "gate-error" THEN {x} ELSE {})
  <2>1. CASE a = n + 1
    BY <1>1, <1>2, <2>1
  <2>2. CASE a # n + 1
    <3>1. a \in 1 .. n /\ t[a] = f[a]
      BY <1>1, <2>2
    <3> QED
      BY <1>1, <1>2, <3>1 DEF FailLines
  <2> QED
    BY <2>1, <2>2
<1>3. ASSUME NEW a \in 1 .. n, f[a].what # "gate-error" PROVE f[a] \in FailLines(t)
  <2>1. a \in 1 .. n + 1 /\ t[a] = f[a]
    BY <1>1
  <2> QED
    BY <1>1, <1>3, <2>1 DEF FailLines
<1>4. x.what # "gate-error" => x \in FailLines(t)
  <2>1. n + 1 \in 1 .. n + 1
    BY <1>1
  <2> QED
    BY <1>1, <2>1 DEF FailLines
<1>5. FailLines(t) = FailLines(f) \cup (IF x.what # "gate-error" THEN {x} ELSE {})
  BY <1>1, <1>2, <1>3, <1>4 DEF FailLines
<1> QED
  BY <1>5 DEF t

\* Appending a line with the present time.
LEMMA AppendLine ==
    ASSUME NEW S, NEW s \in Seq(S), NEW x \in S, NEW now \in Nat, NEW later \in Nat,
           Timed(s), Increasing(s), Past(s, now), now <= x.at,
           x.at \in Nat, x.at < later
    PROVE  /\ Append(s, x) \in Seq(S) /\ Increasing(Append(s, x)) /\ Past(Append(s, x), later)
           /\ Range(Append(s, x)) = Range(s) \cup {x}
           /\ Append(s, x) # << >> /\ Append(s, x)[Len(Append(s, x))] = x
<1> DEFINE t == Append(s, x)
           n == Len(s)
<1>1. /\ n \in Nat /\ DOMAIN s = 1 .. n /\ DOMAIN t = 1 .. n + 1 /\ Len(t) = n + 1 /\ t \in Seq(S)
      /\ t # << >> /\ t[n + 1] = x /\ \A i \in 1 .. n : t[i] = s[i]
  BY AppendProperties
<1>2. \A i \in 1 .. n : s[i].at \in Nat /\ s[i].at < now
  BY DEF Past, Timed
<1>3. \A i, j \in 1 .. n : i < j => s[i].at < s[j].at
  BY DEF Increasing
<1> HIDE DEF t, n
<1>4. \A i \in 1 .. n + 1 : i = n + 1 \/ i \in 1 .. n
  BY <1>1
<1>5. \A i \in 1 .. n : t[i].at \in Nat /\ t[i].at < x.at
  BY <1>1, <1>2
<1>6. Increasing(t)
  <2> SUFFICES ASSUME NEW i \in 1 .. n + 1, NEW j \in 1 .. n + 1, i < j PROVE t[i].at < t[j].at
    BY <1>1 DEF Increasing
  <2>1. i \in 1 .. n
    BY <1>1
  <2>2. CASE j = n + 1
    BY <1>1, <1>5, <2>1, <2>2
  <2>3. CASE j \in 1 .. n
    BY <1>1, <1>3, <2>1, <2>3
  <2> QED
    BY <1>4, <2>2, <2>3
<1>7. Past(t, later)
  BY <1>1, <1>4, <1>5 DEF Past
<1>8. Range(t) = Range(s) \cup {x}
  <2>1. \A i \in 1 .. n : i \in 1 .. n + 1
    BY <1>1
  <2>2. n + 1 \in 1 .. n + 1
    BY <1>1
  <2> QED
    BY <1>1, <1>4, <2>1, <2>2 DEF Range
<1> QED
  BY <1>1, <1>6, <1>7, <1>8 DEF t

\* A rejection's line names the gate that is fed back.
LEMMA RulingLines ==
    ASSUME NEW r \in Rulings
    PROVE  /\ r.status \in Statuses /\ r.decisions \in Rulings0
           /\ r.status = "rejected" => GateOf(r.decisions) = r.correction /\ r.correction \in Gates \cup {"gate"}
           /\ r.status # "rejected" => r.correction \notin Corrections
<1>1. r.decisions \in Rulings0
  BY DEF Rulings0
<1>2. \/ \E s \in 0 .. MaxScore : r = [status |-> "accepted", decisions |-> <<Clean, Ruling("accept", s)>>, correction |-> "none"]
      \/ r = [status |-> "rejected", decisions |-> <<[Clean EXCEPT !.verdict = "reject"]>>, correction |-> "runs-clean"]
      \/ r = [status |-> "rejected", decisions |-> <<Clean, Ruling("reject", 0)>>, correction |-> "improves"]
      \/ r = [status |-> "revised", decisions |-> <<Clean, Ruling("refine", 0)>>, correction |-> "refine"]
      \/ r = [status |-> "rejected", decisions |-> <<Clean, Ruling("refine", 0)>>, correction |-> "gate"]
  BY DEF Rulings
<1>3. GateOf(<<[Clean EXCEPT !.verdict = "reject"]>>) = "runs-clean"
  <2> DEFINE d == <<[Clean EXCEPT !.verdict = "reject"]>>
  <2>1. DOMAIN d = {1} /\ d[1].verdict = "reject" /\ d[1].gate = "runs-clean"
    BY DEF Clean
  <2> HIDE DEF d
  <2>2. {i \in DOMAIN d : d[i].verdict = "reject"} = {1}
    BY <2>1
  <2>3. (CHOOSE i \in {1} : \A j \in {1} : i <= j) = 1
    OBVIOUS
  <2>4. GateOf(d) = "runs-clean"
    BY <2>1, <2>2, <2>3 DEF GateOf
  <2> QED
    BY <2>4 DEF d
<1>4. GateOf(<<Clean, Ruling("reject", 0)>>) = "improves"
  <2> DEFINE d == <<Clean, Ruling("reject", 0)>>
  <2>1. DOMAIN d = {1, 2} /\ d[1].verdict = "accept" /\ d[2].verdict = "reject" /\ d[2].gate = "improves"
    BY DEF Clean, Ruling
  <2> HIDE DEF d
  <2>2. {i \in DOMAIN d : d[i].verdict = "reject"} = {2}
    BY <2>1
  <2>3. (CHOOSE i \in {2} : \A j \in {2} : i <= j) = 2
    OBVIOUS
  <2>4. GateOf(d) = "improves"
    BY <2>1, <2>2, <2>3 DEF GateOf
  <2> QED
    BY <2>4 DEF d
<1>5. GateOf(<<Clean, Ruling("refine", 0)>>) = "gate"
  <2> DEFINE d == <<Clean, Ruling("refine", 0)>>
  <2>1. DOMAIN d = {1, 2} /\ d[1].verdict = "accept" /\ d[2].verdict = "refine"
    BY DEF Clean, Ruling
  <2> HIDE DEF d
  <2>2. {i \in DOMAIN d : d[i].verdict = "reject"} = {}
    BY <2>1
  <2>4. GateOf(d) = "gate"
    BY <2>2 DEF GateOf
  <2> QED
    BY <2>4 DEF d
<1> QED
  BY <1>1, <1>2, <1>3, <1>4, <1>5 DEF Statuses, Gates, Corrections


-----------------------------------------------------------------------------
(* The trail is kept *)

\* What a step that ends no cycle leaves of the invariant.
LEMMA StoreUntouched ==
    ASSUME StoreInv, UNCHANGED <<art, failures, clock, policy, trail>>,
           feedback' \in {feedback, "none"}, phase' \in {"down", "idle"} => scratch' = Empty
    PROVE  StoreInv'
<1>1. Types' /\ Stamped' /\ Fresh'
  BY DEF StoreInv, Types, Stamped, Fresh
<1>2. TablesHoldTrail'
  BY TwoTables DEF StoreInv, TablesHoldTrail
<1>3. CorrectionIsLast'
  BY DEF StoreInv, CorrectionIsLast, Corrections, Gates
<1> QED
  BY <1>1, <1>2, <1>3 DEF StoreInv

\* The times of lines and submissions are numbers.
LEMMA TimesAreNumbers ==
    /\ \A s \in Seq(Line) : Timed(s)
    /\ \A s \in Seq(Submission) : Timed(s)
<1>1. ASSUME NEW s \in Seq(Line) PROVE Timed(s)
  <2>1. \A i \in 1 .. Len(s) : s[i] \in Line
    BY ElementOfSeq
  <2> QED
    BY <2>1 DEF Timed, Line
<1>2. ASSUME NEW s \in Seq(Submission) PROVE Timed(s)
  <2>1. \A i \in 1 .. Len(s) : s[i] \in Submission
    BY ElementOfSeq
  <2> QED
    BY <2>1 DEF Timed, Submission
<1> QED
  BY <1>1, <1>2

\* A past time stays past.
LEMMA StaysPast ==
    ASSUME NEW s, NEW now \in Nat, NEW later \in Nat, now <= later, Timed(s), Past(s, now)
    PROVE  Past(s, later)
  BY DEF Timed, Past

\* A cycle that fails leaves its line on the trail and in the table.
LEMMA FailureTrailed ==
    ASSUME StoreInv, NEW kind \in Kinds, FailedCycle(kind)
    PROVE  StoreInv'
<1> DEFINE intake == kind = "gate-error"
           row == [at |-> IF intake THEN clock + 1 ELSE clock, what |-> kind]
<1> USE DEF StoreInv
<1>1. /\ failures' = Append(failures, row) /\ clock' = row.at + 1
      /\ trail' = IF intake THEN trail ELSE Append(trail, row)
      /\ phase' = "idle" /\ scratch' = Empty /\ feedback' = kind /\ policy' = policy
      /\ \/ intake /\ \E objects \in ObjectSets :
               art' = Append(art, [status |-> "proposed", at |-> clock, objects |-> objects,
                                   decisions |-> <<>>])
         \/ ~intake /\ UNCHANGED art
  BY DEF FailedCycle, EndCycle, Regenerated
<1>2. /\ clock \in Nat /\ row \in Line /\ row.at \in Nat /\ clock <= row.at /\ row.what = kind
      /\ clock' \in Nat /\ row.at < clock'
  BY <1>1 DEF Types, Line
<1> HIDE DEF row
<1>0. /\ Timed(trail) /\ Timed(art) /\ trail \in Seq(Line) /\ art \in Seq(Submission)
      /\ Increasing(trail) /\ Increasing(art) /\ Past(trail, clock) /\ Past(art, clock)
  BY TimesAreNumbers DEF Types, Stamped
<1>3. Fresh'
  BY <1>1 DEF Fresh
<1>4. failures' \in Seq(Line)
  BY <1>1, <1>2 DEF Types
<1>5. FailLines(failures') = FailLines(failures) \cup (IF intake THEN {} ELSE {row})
  BY <1>1, <1>2, FailLinesAppend DEF Types
<1>6. CASE ~intake
  <2>1. art' = art /\ trail' = Append(trail, row)
    BY <1>1, <1>6
  <2>2. /\ trail' \in Seq(Line) /\ Increasing(trail') /\ Past(trail', clock')
        /\ Range(trail') = Range(trail) \cup {row}
        /\ trail' # << >> /\ trail'[Len(trail')] = row
    BY <1>0, <1>2, <2>1, AppendLine
  <2>3. Past(art, clock')
    <3>1. clock <= clock'
      BY <1>2
    <3> QED
      BY <1>0, <1>2, <3>1, StaysPast
  <2>4. Types' /\ Stamped'
    BY <1>1, <1>2, <1>4, <2>1, <2>2, <2>3 DEF Types, Stamped
  <2>5. TablesHoldTrail'
    BY <1>5, <1>6, <2>1, <2>2, TwoTables DEF TablesHoldTrail
  <2>6. CorrectionIsLast'
    BY <1>1, <1>2, <2>2 DEF CorrectionIsLast
  <2> QED
    BY <1>3, <2>4, <2>5, <2>6
<1>7. CASE intake
  <2>1. PICK objects \in ObjectSets :
            art' = Append(art, [status |-> "proposed", at |-> clock, objects |-> objects,
                                decisions |-> <<>>])
    BY <1>1, <1>7
  <2> DEFINE new == [status |-> "proposed", at |-> clock, objects |-> objects, decisions |-> <<>>]
  <2>2. new \in Submission /\ new.at = clock /\ new.status = "proposed"
    BY <1>2 DEF Submission, Statuses, Rulings0
  <2> HIDE DEF new
  <2>3. trail' = trail /\ art' = Append(art, new)
    BY <1>1, <1>7, <2>1 DEF new
  <2>4. art' \in Seq(Submission) /\ Increasing(art') /\ Past(art', clock')
    <3>1. clock <= new.at /\ new.at \in Nat /\ new.at < clock'
      BY <1>2, <2>2
    <3> QED
      BY <1>0, <1>2, <2>2, <2>3, <3>1, AppendLine
  <2>5. Past(trail, clock')
    <3>1. clock <= clock'
      BY <1>2
    <3> QED
      BY <1>0, <1>2, <3>1, StaysPast
  <2>6. Types' /\ Stamped'
    BY <1>1, <1>2, <1>4, <2>3, <2>4, <2>5 DEF Types, Stamped
  <2>7. ArtLines(art') = ArtLines(art)
    <3>1. ArtLines(Append(art, new)) = ArtLines(art) \cup (IF new.status = "rejected" THEN {LineOf(new)} ELSE {})
      BY <1>0, <2>2, ArtLinesAppend
    <3> QED
      BY <2>2, <2>3, <3>1
  <2>8. TablesHoldTrail'
    BY <1>5, <1>7, <2>3, <2>7, TwoTables DEF TablesHoldTrail
  <2>9. CorrectionIsLast'
    BY <1>1, <1>7 DEF CorrectionIsLast, Corrections, Gates
  <2> QED
    BY <1>3, <2>6, <2>8, <2>9
<1> QED
  BY <1>6, <1>7

\* So does a ruling that rejects; another adds no line.
LEMMA RulingTrailed ==
    ASSUME StoreInv, NEW r \in Rulings, NEW objects \in ObjectSets, Committed(r, objects)
    PROVE  StoreInv'
<1> DEFINE new == [status |-> r.status, at |-> clock, objects |-> objects, decisions |-> r.decisions]
           row == [at |-> clock, what |-> r.correction]
<1> USE DEF StoreInv
<1>1. /\ clock' = clock + 1 /\ failures' = failures /\ policy' = policy
      /\ phase' = "idle" /\ scratch' = Empty /\ feedback' = r.correction
      /\ trail' = IF r.status = "rejected" THEN Append(trail, row) ELSE trail
      /\ \/ art' = Append(art, new)
         \/ \E old \in {a \in ids : art[a].status = "accepted"} :
               art' = Append([art EXCEPT ![old].status = "superseded"], new)
  BY DEF Committed, EndCycle, Regenerated
<1>2. /\ r.status \in Statuses /\ r.decisions \in Rulings0
      /\ r.status = "rejected" => GateOf(r.decisions) = r.correction /\ r.correction \in Gates \cup {"gate"}
      /\ r.status # "rejected" => r.correction \notin Corrections
  BY RulingLines
<1>3. clock \in Nat /\ clock' \in Nat /\ clock < clock' /\ clock <= clock
  BY <1>1 DEF Types
<1>4. /\ new \in Submission /\ new.at = clock /\ new.status = r.status
      /\ r.status = "rejected" => row \in Line /\ LineOf(new) = row
      /\ row.at = clock /\ row.what = r.correction
  BY <1>2, <1>3 DEF Submission, Line, LineOf
<1> HIDE DEF new, row
<1>0. /\ Timed(trail) /\ trail \in Seq(Line) /\ art \in Seq(Submission)
      /\ Increasing(trail) /\ Past(trail, clock)
  BY TimesAreNumbers DEF Types, Stamped
<1>5. PICK s \in Seq(Submission) : /\ Increasing(s) /\ Past(s, clock) /\ ArtLines(s) = ArtLines(art)
                                   /\ art' = Append(s, new)
  <2>1. CASE art' = Append(art, new)
    BY <2>1 DEF Types, Stamped
  <2>2. ASSUME NEW old \in {a \in ids : art[a].status = "accepted"},
               art' = Append([art EXCEPT ![old].status = "superseded"], new)
        PROVE  \E s \in Seq(Submission) : /\ Increasing(s) /\ Past(s, clock)
                                          /\ ArtLines(s) = ArtLines(art) /\ art' = Append(s, new)
    <3> DEFINE t == [art EXCEPT ![old].status = "superseded"]
    <3>1. /\ t \in Seq(Submission) /\ Len(t) = Len(art) /\ DOMAIN t = DOMAIN art
          /\ \A i \in DOMAIN art : t[i].at = art[i].at
          /\ ArtLines(t) = ArtLines(art)
      <4>1. old \in DOMAIN art /\ art[old].status = "accepted"
        BY DEF ids
      <4> QED
        BY <1>0, <4>1, RetireKeeps
    <3> HIDE DEF t
    <3>2. DOMAIN art = 1 .. Len(art)
      BY DEF Types
    <3>3. Increasing(t) /\ Past(t, clock)
      BY <3>1, <3>2 DEF Stamped, Increasing, Past
    <3> QED
      BY <2>2, <3>1, <3>3 DEF t
  <2> QED
    BY <1>1, <2>1, <2>2
<1>6. Timed(s)
  BY TimesAreNumbers
<1>7. art' \in Seq(Submission) /\ Increasing(art') /\ Past(art', clock')
  BY <1>3, <1>4, <1>5, <1>6, AppendLine
<1>8. ArtLines(art') = ArtLines(art) \cup (IF r.status = "rejected" THEN {LineOf(new)} ELSE {})
  BY <1>4, <1>5, ArtLinesAppend
<1>9. CASE r.status = "rejected"
  <2>1. /\ trail' \in Seq(Line) /\ Increasing(trail') /\ Past(trail', clock')
        /\ Range(trail') = Range(trail) \cup {row}
        /\ trail' # << >> /\ trail'[Len(trail')] = row
    <3>1. trail' = Append(trail, row) /\ row \in Line /\ clock <= row.at /\ row.at \in Nat /\ row.at < clock'
      BY <1>1, <1>3, <1>4, <1>9
    <3> QED
      BY <1>0, <1>3, <3>1, AppendLine
  <2>2. Types' /\ Stamped'
    BY <1>1, <1>3, <1>7, <2>1 DEF Types, Stamped
  <2>3. TablesHoldTrail'
    BY <1>1, <1>4, <1>8, <1>9, <2>1, TwoTables DEF TablesHoldTrail
  <2>4. CorrectionIsLast' /\ Fresh'
    BY <1>1, <1>4, <2>1 DEF CorrectionIsLast, Fresh
  <2> QED
    BY <2>2, <2>3, <2>4
<1>10. CASE r.status # "rejected"
  <2>1. trail' = trail /\ Past(trail, clock')
    <3>1. clock <= clock'
      BY <1>3
    <3> QED
      BY <1>0, <1>1, <1>3, <1>10, <3>1, StaysPast
  <2>2. Types' /\ Stamped'
    BY <1>1, <1>3, <1>7, <2>1 DEF Types, Stamped
  <2>3. TablesHoldTrail'
    BY <1>1, <1>8, <1>10, <2>1, TwoTables DEF TablesHoldTrail
  <2>4. CorrectionIsLast' /\ Fresh'
    BY <1>1, <1>2, <1>10 DEF CorrectionIsLast, Fresh
  <2> QED
    BY <2>2, <2>3, <2>4
<1> QED
  BY <1>9, <1>10

\* What is cut from a sequence at a positive limit starts as it does.
LEMMA PrefixStarts ==
    ASSUME NEW S, NEW s \in Seq(S), s # << >>, NEW n \in Nat, n > 0
    PROVE  Prefix(s, n)[1] = s[1]
  BY DEF Prefix

\* The digest that is served is the trail, and starts with the correction.
LEMMA DigestServed ==
    ASSUME StoreInv, serve_context
    PROVE  DigestIsTrail'
<1> USE DEF StoreInv
<1>1. /\ served'.digest = rejection_digest /\ trail' = trail /\ feedback' = feedback
  BY DEF serve_context
<1>2. InOrder(Range(trail), Later) = Reverse(trail)
  <2>1. \A i \in 1 .. Len(trail) : trail[i].at \in Int
    BY TimesAreNumbers DEF Types, Timed
  <2> QED
    BY <2>1, SortedIsReversed DEF Types, Stamped, Increasing
<1>3. served'.digest = Prefix(Reverse(trail), DigestLimit)
  BY <1>1, <1>2 DEF rejection_digest, TablesHoldTrail
<1>4. ASSUME feedback \in Corrections, DigestLimit > 0 PROVE served'.digest[1].what = feedback
  <2>1. trail # << >> /\ trail[Len(trail)].what = feedback /\ trail \in Seq(Line)
    BY <1>4 DEF CorrectionIsLast, Types
  <2>2. Reverse(trail) \in Seq(Line) /\ Reverse(trail) # << >> /\ Reverse(trail)[1] = trail[Len(trail)]
    <3> DEFINE n == Len(trail)
    <3>1. n \in Nat /\ n > 0
      BY <2>1
    <3> HIDE DEF n
    <3>2. Reverse(trail) = [i \in 1 .. n |-> trail[(n - i) + 1]]
      BY DEF Reverse, n
    <3>3. \A i \in 1 .. n : trail[(n - i) + 1] \in Line
      <4> SUFFICES ASSUME NEW i \in 1 .. n PROVE trail[(n - i) + 1] \in Line
        OBVIOUS
      <4>1. (n - i) + 1 \in 1 .. n
        BY <3>1
      <4> QED
        BY <2>1, <4>1, ElementOfSeq DEF n
    <3>4. Reverse(trail) \in Seq(Line) /\ Len(Reverse(trail)) = n
      BY <3>1, <3>2, <3>3
    <3>5. 1 \in 1 .. n /\ (n - 1) + 1 = n
      BY <3>1
    <3>6. Reverse(trail)[1] = trail[n]
      BY <3>2, <3>5
    <3> QED
      BY <3>1, <3>4, <3>6 DEF n
  <2>3. DigestLimit \in Nat
    BY ContextAssumption
  <2> QED
    BY <1>3, <1>4, <2>1, <2>2, <2>3, PrefixStarts
<1> QED
  BY <1>1, <1>3, <1>4 DEF DigestIsTrail, Corrections


-----------------------------------------------------------------------------
(* What is selected *)

\* No two submissions have the same time.
LEMMA DistinctTimes ==
    ASSUME Types, Stamped
    PROVE  /\ ids = 1 .. Len(art) /\ IsFiniteSet(ids)
           /\ \A a \in ids : art[a] \in Submission /\ art[a].at \in Nat
           /\ \A a, b \in ids : art[a].at = art[b].at => a = b
<1>1. Len(art) \in Nat /\ ids = 1 .. Len(art)
  BY DEF Types, ids
<1>2. IsFiniteSet(ids)
  BY <1>1, FS_Interval
<1>3. \A a \in ids : art[a] \in Submission
  BY <1>1, ElementOfSeq DEF Types
<1>4. \A a \in ids : art[a].at \in Nat
  BY <1>3 DEF Submission
<1>5. ASSUME NEW a \in ids, NEW b \in ids, art[a].at = art[b].at PROVE a = b
  <2>1. a \in Nat /\ b \in Nat /\ (a < b => art[a].at < art[b].at) /\ (b < a => art[b].at < art[a].at)
    BY <1>1 DEF Stamped, Increasing
  <2> QED
    BY <1>4, <1>5, <2>1
<1> QED
  BY <1>1, <1>2, <1>3, <1>4, <1>5

\* The best score a gate recorded is a number.
LEMMA BestScore ==
    ASSUME Types, Stamped, NEW a \in ids
    PROVE  artifact_score(a) \in Int
<1> DEFINE d == art[a].decisions
           scores == {d[i].score : i \in DOMAIN d} \cup {NoScore}
<1>1. d \in Rulings0
  BY DistinctTimes DEF Submission
<1>2. \/ d = << >> \/ d = <<[Clean EXCEPT !.verdict = "reject"]>>
      \/ \E v \in {"accept", "reject", "refine"}, s \in Nat : d = <<Clean, Ruling(v, s)>>
  <2>1. 0 \in Nat /\ 0 .. MaxScore \subseteq Nat
    BY ContextAssumption
  <2> QED
    BY <1>1, <2>1 DEF Rulings0, Rulings
<1> HIDE DEF d
<1>3. \E m \in scores : m \in Int /\ \A t \in scores : t <= m
  <2>1. CASE d = << >>
    BY <2>1 DEF NoScore
  <2>2. CASE d = <<[Clean EXCEPT !.verdict = "reject"]>>
    <3>1. DOMAIN d = {1} /\ d[1].score = NoScore
      BY <2>2 DEF Clean
    <3>2. scores = {NoScore}
      BY <3>1
    <3> QED
      BY <3>2 DEF NoScore
  <2>3. ASSUME NEW v, NEW s \in Nat, d = <<Clean, Ruling(v, s)>>
        PROVE  \E m \in scores : m \in Int /\ \A t \in scores : t <= m
    <3>1. DOMAIN d = {1, 2} /\ d[1].score = NoScore /\ d[2].score = s
      BY <2>3 DEF Clean, Ruling
    <3>2. scores = {NoScore, s}
      BY <3>1
    <3> QED
      BY <3>2 DEF NoScore
  <2> QED
    BY <1>2, <2>1, <2>2, <2>3
<1>4. artifact_score(a) = CHOOSE s \in scores : \A t \in scores : t <= s
  BY DEF artifact_score, d
<1> HIDE DEF scores
<1>5. PICK m \in scores : m \in Int /\ \A t \in scores : t <= m
  BY <1>3
<1>6. artifact_score(a) \in scores
  BY <1>4, <1>5
<1>7. scores \subseteq Int
  <2>1. CASE d = << >>
    BY <2>1 DEF NoScore, scores
  <2>2. CASE d = <<[Clean EXCEPT !.verdict = "reject"]>>
    BY <2>2 DEF NoScore, scores, Clean
  <2>3. ASSUME NEW v, NEW s \in Nat, d = <<Clean, Ruling(v, s)>> PROVE scores \subseteq Int
    <3>1. DOMAIN d = {1, 2} /\ d[1].score = NoScore /\ d[2].score = s
      BY <2>3 DEF Clean, Ruling
    <3> QED
      BY <3>1 DEF NoScore, scores
  <2> QED
    BY <1>2, <2>1, <2>2, <2>3
<1> QED
  BY <1>6, <1>7

\* Sorting submissions by recency lists them.
LEMMA NewestFirst ==
    ASSUME Types, Stamped, NEW S \in SUBSET ids
    PROVE  Lists(InOrder(S, Newer), S)
<1> DEFINE R == {p \in S \X S : Newer(p[1], p[2])}
           n == Cardinality(S)
           s == InOrder(S, Newer)
<1>1. IsFiniteSet(S) /\ \A a \in S : art[a].at \in Nat
  BY DistinctTimes, FS_Subset
<1>2. \A a, b \in S : <<a, b>> \in R <=> art[a].at > art[b].at
  BY DEF Newer
<1>3. StrictTotal(R, S)
  <2> HIDE DEF R
  <2> QED
    BY <1>1, <1>2, DistinctTimes DEF StrictTotal
<1>4. \A x \in S : Below(x, R, S) = {y \in S : Newer(y, x)}
  BY DEF Below
<1> HIDE DEF R
<1>5. ASSUME NEW i \in 1 .. n
      PROVE  s[i] \in S /\ Cardinality(Below(s[i], R, S)) = i - 1
  <2>1. n \in Nat /\ \A k \in 0 .. n - 1 : \E x \in S : Cardinality(Below(x, R, S)) = k
    BY <1>1, <1>3, RankBijective
  <2>2. i - 1 \in 0 .. n - 1
    BY <2>1
  <2>3. PICK x \in S : Cardinality(Below(x, R, S)) = i - 1
    BY <2>1, <2>2
  <2>4. \E y \in S : Cardinality({z \in S : Newer(z, y)}) = i - 1
    BY <1>4, <2>3
  <2>5. s[i] = CHOOSE y \in S : Cardinality({z \in S : Newer(z, y)}) = i - 1
    BY DEF InOrder
  <2> HIDE DEF s
  <2>6. s[i] \in S /\ Cardinality({z \in S : Newer(z, s[i])}) = i - 1
    BY <2>4, <2>5
  <2> QED
    BY <1>4, <2>6
<1>6. s \in [1 .. n -> S]
  <2> DEFINE e(i) == CHOOSE x \in S : Cardinality({y \in S : Newer(y, x)}) = i - 1
  <2>1. s = [i \in 1 .. n |-> e(i)]
    BY DEF InOrder
  <2> HIDE DEF s, e
  <2> QED
    BY <1>5, <2>1
<1> HIDE DEF s
<1>7. Lists(s, S)
  BY <1>1, <1>3, <1>5, <1>6, RankedSequence
<1> QED
  BY <1>7 DEF s

\* So does sorting them by score, then by recency.
LEMMA BestFirst ==
    ASSUME Types, Stamped, NEW S \in SUBSET ids
    PROVE  Lists(InOrder(S, Better), S)
<1> DEFINE R == {p \in S \X S : Better(p[1], p[2])}
           n == Cardinality(S)
           s == InOrder(S, Better)
<1>1. IsFiniteSet(S) /\ \A a \in S : art[a].at \in Nat /\ artifact_score(a) \in Int
  BY DistinctTimes, BestScore, FS_Subset
<1>2. \A a, b \in S : <<a, b>> \in R <=>
          \/ artifact_score(a) > artifact_score(b)
          \/ artifact_score(a) = artifact_score(b) /\ art[a].at > art[b].at
  BY DEF Better, Newer
<1>3. StrictTotal(R, S)
  <2> HIDE DEF R
  <2>1. \A x \in S : <<x, x>> \notin R
    BY <1>1, <1>2
  <2>2. ASSUME NEW x \in S, NEW y \in S, NEW z \in S, <<x, y>> \in R, <<y, z>> \in R PROVE <<x, z>> \in R
    BY <1>1, <1>2, <2>2
  <2>3. ASSUME NEW x \in S, NEW y \in S PROVE x = y \/ <<x, y>> \in R \/ <<y, x>> \in R
    <3>1. art[x].at = art[y].at => x = y
      BY DistinctTimes
    <3> QED
      BY <1>1, <1>2, <3>1
  <2> QED
    BY <2>1, <2>2, <2>3 DEF StrictTotal
<1>4. \A x \in S : Below(x, R, S) = {y \in S : Better(y, x)}
  BY DEF Below
<1> HIDE DEF R
<1>5. ASSUME NEW i \in 1 .. n
      PROVE  s[i] \in S /\ Cardinality(Below(s[i], R, S)) = i - 1
  <2>1. n \in Nat /\ \A k \in 0 .. n - 1 : \E x \in S : Cardinality(Below(x, R, S)) = k
    BY <1>1, <1>3, RankBijective
  <2>2. i - 1 \in 0 .. n - 1
    BY <2>1
  <2>3. PICK x \in S : Cardinality(Below(x, R, S)) = i - 1
    BY <2>1, <2>2
  <2>4. \E y \in S : Cardinality({z \in S : Better(z, y)}) = i - 1
    BY <1>4, <2>3
  <2>5. s[i] = CHOOSE y \in S : Cardinality({z \in S : Better(z, y)}) = i - 1
    BY DEF InOrder
  <2> HIDE DEF s
  <2>6. s[i] \in S /\ Cardinality({z \in S : Better(z, s[i])}) = i - 1
    BY <2>4, <2>5
  <2> QED
    BY <1>4, <2>6
<1>6. s \in [1 .. n -> S]
  <2> DEFINE e(i) == CHOOSE x \in S : Cardinality({y \in S : Better(y, x)}) = i - 1
  <2>1. s = [i \in 1 .. n |-> e(i)]
    BY DEF InOrder
  <2> HIDE DEF s, e
  <2> QED
    BY <1>5, <2>1
<1> HIDE DEF s
<1>7. Lists(s, S)
  BY <1>1, <1>3, <1>5, <1>6, RankedSequence
<1> QED
  BY <1>7 DEF s


\* One artifact, of those listed, or none.
LEMMA FirstOnly ==
    ASSUME NEW S, NEW s, Lists(s, S)
    PROVE  /\ Prefix(s, 1) \in Seq(S) /\ Len(Prefix(s, 1)) \in {0, 1}
           /\ \A i, j \in 1 .. Len(Prefix(s, 1)) : i = j
<1>1. s \in Seq(S) /\ Len(s) \in Nat
  BY DEF Lists
<1>2. CASE Len(s) < 1
  BY <1>1, <1>2 DEF Prefix
<1>3. CASE ~(Len(s) < 1)
  <2>1. Prefix(s, 1) = SubSeq(s, 1, 1) /\ \A i \in 1 .. 1 : s[i] \in S
    BY <1>1, <1>3 DEF Prefix
  <2>2. SubSeq(s, 1, 1) \in Seq(S) /\ Len(SubSeq(s, 1, 1)) = 1
    BY <2>1, SubSeqProperties
  <2>3. Prefix(s, 1) \in Seq(S) /\ Len(Prefix(s, 1)) = 1
    BY <2>1, <2>2
  <2>4. \A i, j \in 1 .. 1 : i = j
    OBVIOUS
  <2> HIDE DEF Prefix
  <2>5. \A i, j \in 1 .. Len(Prefix(s, 1)) : i = j
    BY <2>3, <2>4, Zenon
  <2> QED
    BY <2>3, <2>5
<1> QED
  BY <1>2, <1>3

\* The policy selects qualifying submissions, each once, and with "all" every
\* one of them.
SelectedOnce ==
    /\ Selected \in Seq(Candidates)
    /\ \A i, j \in 1 .. Len(Selected) : Selected[i] = Selected[j] => i = j
    /\ policy.select = "all" => Range(Selected) = Candidates

LEMMA SelectsOnce ==
    ASSUME Types, Stamped
    PROVE  SelectedOnce
<1>1. Candidates \in SUBSET ids
  BY DEF Candidates
<1>2. Lists(InOrder(Candidates, Newer), Candidates) /\ Lists(InOrder(Candidates, Better), Candidates)
  BY <1>1, NewestFirst, BestFirst
<1>3. CASE policy.select = "best"
  <2>1. Selected = Prefix(InOrder(Candidates, Better), 1)
    BY <1>3 DEF Selected
  <2> QED
    BY <1>2, <1>3, <2>1, FirstOnly DEF SelectedOnce
<1>4. CASE policy.select = "last"
  <2>1. Selected = Prefix(InOrder(Candidates, Newer), 1)
    BY <1>4 DEF Selected
  <2> QED
    BY <1>2, <1>4, <2>1, FirstOnly DEF SelectedOnce
<1>5. CASE policy.select = "all"
  <2>1. Selected = InOrder(Candidates, Newer)
    BY <1>5 DEF Selected
  <2> QED
    BY <1>2, <2>1 DEF SelectedOnce, Lists
<1> QED
  BY <1>3, <1>4, <1>5 DEF Types

-----------------------------------------------------------------------------
(* The admission loop *)

Nothing == [rows |-> << >>, bytes |-> 0, omitted |-> 0]

\* The recursion of the loop is well founded: there is a function that obeys
\* it up to every round, so Round does.
LEMMA RoundUnfolds ==
    ASSUME Len(Selected) \in Nat
    PROVE  /\ Round[0] = Nothing
           /\ \A i \in 1 .. Len(Selected) : Round[i] = Admit(Round[i - 1], Selected[i])
<1> DEFINE n == Len(Selected)
           Obeys(f, k) == f = [i \in 0 .. k |-> IF i = 0 THEN Nothing ELSE Admit(f[i - 1], Selected[i])]
           T == {k \in 0 .. n : ~\E f : Obeys(f, k)}
<1>1. T = {}
  <2> SUFFICES ASSUME T # {} PROVE FALSE
    OBVIOUS
  <2>1. T \subseteq Nat
    OBVIOUS
  <2> HIDE DEF T
  <2>2. PICK k \in T : \A m \in T : k <= m
    BY <2>1, LeastNat
  <2>3. k \in 0 .. n /\ ~\E f : Obeys(f, k)
    BY DEF T
  <2>4. k # 0
    <3> SUFFICES ASSUME k = 0 PROVE FALSE
      OBVIOUS
    <3>1. Obeys([i \in 0 .. 0 |-> Nothing], 0)
      OBVIOUS
    <3> QED
      BY <2>3, <3>1
  <2>5. k - 1 \in 0 .. n /\ k - 1 \notin T /\ k \in Nat
    BY <2>2, <2>3, <2>4
  <2>6. PICK g : Obeys(g, k - 1)
    BY <2>5 DEF T
  <2> DEFINE f == [i \in 0 .. k |-> IF i = k THEN Admit(g[k - 1], Selected[k]) ELSE g[i]]
  <2>7. ASSUME NEW i \in 0 .. k
        PROVE  f[i] = IF i = 0 THEN Nothing ELSE Admit(f[i - 1], Selected[i])
    <3>1. CASE i = k
      <4>1. k - 1 \in 0 .. k /\ k - 1 # k
        BY <2>4, <2>5
      <4>2. f[k - 1] = g[k - 1]
        BY <4>1
      <4> QED
        BY <2>4, <3>1, <4>2
    <3>2. CASE i # k
      <4>1. i \in 0 .. k - 1 /\ (i # 0 => i - 1 \in 0 .. k /\ i - 1 # k)
        BY <2>5, <3>2
      <4>2. g[i] = IF i = 0 THEN Nothing ELSE Admit(g[i - 1], Selected[i])
        BY <2>6, <4>1
      <4>3. f[i] = g[i] /\ (i # 0 => f[i - 1] = g[i - 1])
        BY <3>2, <4>1
      <4> QED
        BY <4>2, <4>3
    <3> QED
      BY <3>1, <3>2
  <2>8. f = [i \in 0 .. k |-> f[i]]
    OBVIOUS
  <2> HIDE DEF f
  <2>9. Obeys(f, k)
    BY <2>7, <2>8
  <2> QED
    BY <2>3, <2>9
<1>2. n \in 0 .. n
  OBVIOUS
<1>3. \E f : Obeys(f, n)
  BY <1>1, <1>2
<1>4. Round = CHOOSE f : Obeys(f, n)
  BY DEF Round, Nothing
<1>5. Obeys(Round, n)
  <2> HIDE DEF Obeys
  <2> QED
    BY <1>3, <1>4
<1> QED
  BY <1>5


\* The row of an artifact, what a list of rows holds, and what the rounds so
\* far have seen and left out.
Row(a) == [id |-> a, files |-> art[a].objects]
RowSet == {Row(a) : a \in Candidates}
Held(rows) == {rows[k].id : k \in DOMAIN rows}
AllPaths(rows) == UNION {Paths(rows[k]) : k \in DOMAIN rows}
Seen(i) == {Selected[j] : j \in 1 .. i}
Missed(i, rows) == {a \in Seen(i) : art[a].objects # {}} \ Held(rows)

Tally == [rows : Seq(RowSet), bytes : Nat, omitted : Nat]

\* Rows are of artifacts seen, each once, with all their files.
RowsOK(i, rows) ==
    /\ \A k \in 1 .. Len(rows) : /\ rows[k] = Row(rows[k].id) /\ rows[k].files # {}
                                 /\ rows[k].id \in Seen(i) /\ rows[k].id \in Candidates
    /\ \A k, l \in 1 .. Len(rows) : rows[k].id = rows[l].id => k = l

\* The limits hold of them.
LimitsOK(acc) ==
    /\ policy.max_artifacts # Unlimited => Len(acc.rows) <= policy.max_artifacts
    /\ policy.max_bytes # Unlimited => acc.bytes <= policy.max_bytes

\* The bytes bound the paths, and what was left out is counted.
CountsOK(i, acc) ==
    /\ IsFiniteSet(AllPaths(acc.rows)) /\ Cardinality(AllPaths(acc.rows)) <= acc.bytes
    /\ IsFiniteSet(Missed(i, acc.rows)) /\ Cardinality(Missed(i, acc.rows)) <= acc.omitted

RoundOK(i, acc) == acc \in Tally /\ RowsOK(i, acc.rows) /\ LimitsOK(acc) /\ CountsOK(i, acc)

\* A submission's files are finitely many.
LEMMA FilesFinite ==
    ASSUME Types, Stamped, NEW a \in Candidates
    PROVE  /\ IsFiniteSet(art[a].objects) /\ Cardinality(art[a].objects) \in Nat
           /\ Cardinality(art[a].objects) = 0 <=> art[a].objects = {}
<1>1. a \in ids
  BY DEF Candidates
<1>2. art[a].objects \in ObjectSets
  BY <1>1, DistinctTimes DEF Submission
<1>3. IsFiniteSet(art[a].objects)
  BY <1>2, ContextAssumption
<1> QED
  BY <1>3, FS_CardinalityType, FS_EmptySet

\* The three outcomes of a round.
Omits(acc, acc2) == acc2.rows = acc.rows /\ acc2.bytes = acc.bytes /\ acc2.omitted = acc.omitted + 1
Passes(acc, acc2, a) == acc2 = acc /\ art[a].objects = {}
Admits(acc, acc2, a) ==
    /\ acc2.rows = Append(acc.rows, Row(a)) /\ acc2.omitted = acc.omitted
    /\ acc2.bytes = acc.bytes + Cardinality(art[a].objects) /\ art[a].objects # {}
    /\ policy.max_artifacts # Unlimited => ~(Len(acc.rows) >= policy.max_artifacts)
    /\ policy.max_bytes # Unlimited => ~(acc2.bytes > policy.max_bytes)

LEMMA AdmitCases ==
    ASSUME Types, Stamped, NEW acc \in Tally, NEW a \in Candidates
    PROVE  /\ Admit(acc, a) \in Tally
           /\ \/ Omits(acc, Admit(acc, a)) \/ Passes(acc, Admit(acc, a), a)
              \/ Admits(acc, Admit(acc, a), a)
<1> DEFINE size == Cardinality(art[a].objects)
           full == policy.max_artifacts # Unlimited /\ Len(acc.rows) >= policy.max_artifacts
           over == policy.max_bytes # Unlimited /\ acc.bytes + size > policy.max_bytes
           more == [acc EXCEPT !.omitted = @ + 1]
           put == [rows |-> Append(acc.rows, Row(a)), bytes |-> acc.bytes + size,
                   omitted |-> acc.omitted]
<1>1. size \in Nat /\ (size = 0 <=> art[a].objects = {})
  BY FilesFinite
<1>2. acc.rows \in Seq(RowSet) /\ acc.bytes \in Nat /\ acc.omitted \in Nat
  BY DEF Tally
<1>3. Admit(acc, a) = IF full THEN more ELSE IF size = 0 THEN acc ELSE IF over THEN more ELSE put
  BY DEF Admit, Row
<1>4. more \in Tally /\ Omits(acc, more)
  BY <1>2 DEF Tally, Omits
<1>5. Append(acc.rows, Row(a)) \in Seq(RowSet)
  BY <1>2 DEF RowSet
<1>6. acc.bytes + size \in Nat
  BY <1>1, <1>2
<1> HIDE DEF size
<1>8. put \in Tally /\ put.rows = Append(acc.rows, Row(a)) /\ put.bytes = acc.bytes + size
      /\ put.omitted = acc.omitted
  BY <1>2, <1>5, <1>6 DEF Tally
<1> HIDE DEF put, more
<1>9. CASE full
  BY <1>3, <1>4, <1>9
<1>10. CASE ~full /\ size = 0
  BY <1>1, <1>3, <1>10 DEF Passes
<1>11. CASE ~full /\ size # 0 /\ over
  BY <1>3, <1>4, <1>11
<1>12. CASE ~full /\ size # 0 /\ ~over
  <2>1. Admit(acc, a) = put
    BY <1>3, <1>12
  <2>2. put.bytes = acc.bytes + Cardinality(art[a].objects)
    BY <1>8 DEF size
  <2>3. policy.max_bytes # Unlimited => ~(put.bytes > policy.max_bytes)
    BY <1>8, <1>12
  <2> QED
    BY <1>1, <1>8, <1>12, <2>1, <2>2, <2>3 DEF Admits
<1> QED
  BY <1>9, <1>10, <1>11, <1>12


\* What is seen in one more round.
LEMMA SeenGrows ==
    ASSUME NEW i \in Nat, i > 0
    PROVE  Seen(i) = Seen(i - 1) \cup {Selected[i]}
<1>1. \A j \in 1 .. i : j = i \/ j \in 1 .. i - 1
  OBVIOUS
<1>2. i \in 1 .. i /\ \A j \in 1 .. i - 1 : j \in 1 .. i
  OBVIOUS
<1> QED
  BY <1>1, <1>2 DEF Seen

\* Appending a row.
RowAdded(rows, more, a) ==
    /\ Len(rows) \in Nat /\ Len(more) = Len(rows) + 1
    /\ DOMAIN rows = 1 .. Len(rows) /\ DOMAIN more = 1 .. Len(rows) + 1
    /\ more[Len(rows) + 1] = Row(a) /\ \A k \in 1 .. Len(rows) : more[k] = rows[k]
    /\ Held(more) = Held(rows) \cup {a}
    /\ AllPaths(more) = AllPaths(rows) \cup Paths(Row(a))

LEMMA RowAppended ==
    ASSUME NEW rows \in Seq(RowSet), NEW a \in Candidates, NEW more, more = Append(rows, Row(a))
    PROVE  RowAdded(rows, more, a)
<1> DEFINE n == Len(rows)
<1>1. /\ n \in Nat /\ Len(more) = n + 1 /\ DOMAIN rows = 1 .. n /\ DOMAIN more = 1 .. n + 1
      /\ more[n + 1] = Row(a) /\ \A k \in 1 .. n : more[k] = rows[k]
  BY AppendProperties DEF RowSet
<1> HIDE DEF n
<1>2. \A k \in 1 .. n + 1 : k = n + 1 \/ k \in 1 .. n
  BY <1>1
<1>3. n + 1 \in 1 .. n + 1 /\ \A k \in 1 .. n : k \in 1 .. n + 1
  BY <1>1
<1>4. Row(a).id = a
  BY DEF Row
<1>5. Held(more) = Held(rows) \cup {a}
  BY <1>1, <1>2, <1>3, <1>4 DEF Held
<1>6. AllPaths(more) = AllPaths(rows) \cup Paths(Row(a))
  BY <1>1, <1>2, <1>3 DEF AllPaths
<1> QED
  BY <1>1, <1>5, <1>6 DEF n, RowAdded

\* An artifact's paths are as many as its files.
LEMMA PathsBounded ==
    ASSUME Types, Stamped, NEW a \in Candidates
    PROVE  /\ IsFiniteSet(Paths(Row(a)))
           /\ Cardinality(Paths(Row(a))) \in Nat
           /\ Cardinality(Paths(Row(a))) <= Cardinality(art[a].objects)
<1> DEFINE F == art[a].objects
           P == Paths(Row(a))
           f == [x \in F |-> <<Dir(a), x>>]
<1>1. P = {<<Dir(a), x>> : x \in F}
  BY DEF Paths, Row
<1>2. f \in Surjection(F, P)
  BY <1>1 DEF Surjection
<1> HIDE DEF f, P
<1>3. IsFiniteSet(F)
  BY FilesFinite
<1>4. IsFiniteSet(P) /\ Cardinality(P) <= Cardinality(F)
  BY <1>2, <1>3, FS_Surjection
<1> QED
  BY <1>4, FS_CardinalityType DEF P

\* A round keeps the tally right.
LEMMA RoundKeeps ==
    ASSUME Types, Stamped, SelectedOnce, NEW i \in 1 .. Len(Selected), NEW acc, RoundOK(i - 1, acc)
    PROVE  RoundOK(i, Admit(acc, Selected[i]))
<1> DEFINE a == Selected[i]
           new == Admit(acc, a)
<1>1. a \in Candidates /\ i \in Nat /\ i > 0 /\ i - 1 \in Nat
  BY ElementOfSeq DEF SelectedOnce
<1>2. a \notin Seen(i - 1) /\ Seen(i) = Seen(i - 1) \cup {a}
  <2>1. \A j \in 1 .. i - 1 : j \in 1 .. Len(Selected) /\ j # i
    BY DEF SelectedOnce
  <2>2. a \notin Seen(i - 1)
    BY <2>1 DEF Seen, SelectedOnce
  <2> QED
    BY <1>1, <2>2, SeenGrows
<1>3. acc \in Tally /\ RowsOK(i - 1, acc.rows) /\ LimitsOK(acc) /\ CountsOK(i - 1, acc)
  BY DEF RoundOK
<1>4. /\ acc.rows \in Seq(RowSet) /\ acc.bytes \in Nat /\ acc.omitted \in Nat
  BY <1>3 DEF Tally
<1>5. new \in Tally /\ (Omits(acc, new) \/ Passes(acc, new, a) \/ Admits(acc, new, a))
  BY <1>1, <1>3, AdmitCases
<1> HIDE DEF new, a
<1>6. ASSUME NEW rows, RowsOK(i - 1, rows) PROVE RowsOK(i, rows)
  BY <1>2, <1>6 DEF RowsOK
<1>7. CASE Omits(acc, new)
  <2>1. new.rows = acc.rows /\ new.bytes = acc.bytes /\ new.omitted = acc.omitted + 1
    BY <1>7 DEF Omits
  <2>2. RowsOK(i, new.rows) /\ LimitsOK(new)
    BY <1>3, <1>6, <2>1 DEF LimitsOK
  <2> DEFINE M == Missed(i - 1, acc.rows)
             N == Missed(i, acc.rows)
  <2>3. N \in SUBSET (M \cup {a})
    BY <1>2 DEF Missed
  <2>4. IsFiniteSet(M) /\ Cardinality(M) \in Nat /\ Cardinality(M) <= acc.omitted
    BY <1>3, FS_CardinalityType DEF CountsOK
  <2> HIDE DEF M, N
  <2>5. IsFiniteSet(M \cup {a}) /\ Cardinality(M \cup {a}) \in Nat /\ Cardinality(M \cup {a}) <= Cardinality(M) + 1
    <3>1. /\ IsFiniteSet(M \cup {a})
          /\ Cardinality(M \cup {a}) = IF a \in M THEN Cardinality(M) ELSE Cardinality(M) + 1
      BY <2>4, FS_AddElement
    <3>2. CASE a \in M
      <4>1. Cardinality(M \cup {a}) = Cardinality(M)
        BY <3>1, <3>2
      <4> QED
        BY <2>4, <3>1, <4>1
    <3>3. CASE a \notin M
      <4>1. Cardinality(M \cup {a}) = Cardinality(M) + 1
        BY <3>1, <3>3
      <4> QED
        BY <2>4, <3>1, <4>1
    <3> QED
      BY <3>2, <3>3
  <2>6. IsFiniteSet(N) /\ Cardinality(N) <= Cardinality(M \cup {a}) /\ Cardinality(N) \in Nat
    BY <2>3, <2>5, FS_Subset, FS_CardinalityType
  <2>7. Cardinality(N) <= acc.omitted + 1
    BY <1>4, <2>4, <2>5, <2>6
  <2>8. CountsOK(i, new)
    BY <1>3, <2>1, <2>6, <2>7 DEF CountsOK, N
  <2> QED
    BY <1>5, <2>2, <2>8 DEF RoundOK, new, a
<1>8. CASE Passes(acc, new, a)
  <2>1. new = acc /\ art[a].objects = {}
    BY <1>8 DEF Passes
  <2>2. Missed(i, acc.rows) = Missed(i - 1, acc.rows)
    BY <1>2, <2>1 DEF Missed
  <2>3. RowsOK(i, acc.rows)
    BY <1>3, <1>6
  <2> QED
    BY <1>3, <2>1, <2>2, <2>3 DEF RoundOK, CountsOK, new, a
<1>9. CASE Admits(acc, new, a)
  <2> DEFINE n == Len(acc.rows)
             size == Cardinality(art[a].objects)
  <2>1. /\ new.rows = Append(acc.rows, Row(a)) /\ new.omitted = acc.omitted
        /\ new.bytes = acc.bytes + size /\ art[a].objects # {}
        /\ policy.max_artifacts # Unlimited => ~(n >= policy.max_artifacts)
        /\ policy.max_bytes # Unlimited => ~(new.bytes > policy.max_bytes)
    BY <1>9 DEF Admits
  <2>2. /\ n \in Nat /\ Len(new.rows) = n + 1
        /\ new.rows[n + 1] = Row(a) /\ \A k \in 1 .. n : new.rows[k] = acc.rows[k]
        /\ Held(new.rows) = Held(acc.rows) \cup {a}
        /\ AllPaths(new.rows) = AllPaths(acc.rows) \cup Paths(Row(a))
    <3>1. /\ Len(acc.rows) \in Nat /\ Len(new.rows) = Len(acc.rows) + 1
          /\ new.rows[Len(acc.rows) + 1] = Row(a) /\ \A k \in 1 .. Len(acc.rows) : new.rows[k] = acc.rows[k]
          /\ Held(new.rows) = Held(acc.rows) \cup {a}
          /\ AllPaths(new.rows) = AllPaths(acc.rows) \cup Paths(Row(a))
      <4>1. RowAdded(acc.rows, new.rows, a)
        BY <1>1, <1>4, <2>1, RowAppended
      <4> QED
        BY <4>1 DEF RowAdded
    <3> QED
      BY <3>1
  <2> HIDE DEF n
  <2>3. \A k \in 1 .. n + 1 : k = n + 1 \/ k \in 1 .. n
    BY <2>2
  <2>4. Row(a).id = a /\ Row(a).files = art[a].objects
    BY DEF Row
  <2>5. \A k \in 1 .. n : /\ acc.rows[k] = Row(acc.rows[k].id) /\ acc.rows[k].files # {}
                          /\ acc.rows[k].id \in Seen(i - 1) /\ acc.rows[k].id \in Candidates
    BY <1>3 DEF RowsOK, n
  <2>6. \A k, l \in 1 .. n : acc.rows[k].id = acc.rows[l].id => k = l
    BY <1>3 DEF RowsOK, n
  <2>7. RowsOK(i, new.rows)
    <3>1. ASSUME NEW k \in 1 .. n + 1
          PROVE  /\ new.rows[k] = Row(new.rows[k].id) /\ new.rows[k].files # {}
                 /\ new.rows[k].id \in Seen(i) /\ new.rows[k].id \in Candidates
      <4>1. CASE k = n + 1
        BY <1>1, <1>2, <2>1, <2>2, <2>4, <4>1
      <4>2. CASE k \in 1 .. n
        BY <1>2, <2>2, <2>5, <4>2
      <4> QED
        BY <2>3, <4>1, <4>2
    <3>2. ASSUME NEW k \in 1 .. n + 1, NEW l \in 1 .. n + 1, new.rows[k].id = new.rows[l].id PROVE k = l
      <4>1. CASE k \in 1 .. n /\ l \in 1 .. n
        BY <2>2, <2>6, <3>2, <4>1
      <4>2. CASE k \in 1 .. n /\ l = n + 1
        BY <1>2, <2>2, <2>4, <2>5, <3>2, <4>2
      <4>3. CASE k = n + 1 /\ l \in 1 .. n
        BY <1>2, <2>2, <2>4, <2>5, <3>2, <4>3
      <4> QED
        BY <2>3, <4>1, <4>2, <4>3
    <3> QED
      BY <2>2, <3>1, <3>2 DEF RowsOK
  <2>8. new.bytes \in Nat /\ size \in Nat
    BY <1>1, <1>4, <2>1, FilesFinite
  <2>9. LimitsOK(new)
    BY <2>1, <2>2, <2>8 DEF LimitsOK, Types
  <2>10. IsFiniteSet(AllPaths(new.rows)) /\ Cardinality(AllPaths(new.rows)) <= new.bytes
    <3> DEFINE A == AllPaths(acc.rows)
               B == Paths(Row(a))
    <3>1. IsFiniteSet(A) /\ Cardinality(A) \in Nat /\ Cardinality(A) <= acc.bytes
      BY <1>3, FS_CardinalityType DEF CountsOK
    <3>2. IsFiniteSet(B) /\ Cardinality(B) \in Nat /\ Cardinality(B) <= size
      BY <1>1, PathsBounded
    <3> HIDE DEF A, B, size
    <3>3. IsFiniteSet(A \cap B) /\ Cardinality(A \cap B) \in Nat
      BY <3>1, FS_Intersection, FS_CardinalityType
    <3>4. IsFiniteSet(A \cup B) /\ Cardinality(A \cup B) = Cardinality(A) + Cardinality(B) - Cardinality(A \cap B)
      BY <3>1, <3>2, FS_Union
    <3>5. Cardinality(A \cup B) <= acc.bytes + size
      BY <1>4, <2>8, <3>1, <3>2, <3>3, <3>4
    <3> QED
      BY <2>1, <2>2, <3>4, <3>5 DEF A, B
  <2>11. IsFiniteSet(Missed(i, new.rows)) /\ Cardinality(Missed(i, new.rows)) <= new.omitted
    <3> DEFINE M == Missed(i - 1, acc.rows)
               N == Missed(i, new.rows)
    <3>1. N \in SUBSET M
      BY <1>2, <2>2 DEF Missed
    <3>2. IsFiniteSet(M) /\ Cardinality(M) \in Nat /\ Cardinality(M) <= acc.omitted
      BY <1>3, FS_CardinalityType DEF CountsOK
    <3> HIDE DEF M, N
    <3>3. IsFiniteSet(N) /\ Cardinality(N) \in Nat /\ Cardinality(N) <= Cardinality(M)
      BY <3>1, <3>2, FS_Subset, FS_CardinalityType
    <3>4. Cardinality(N) <= new.omitted
      BY <1>4, <2>1, <3>2, <3>3
    <3> QED
      BY <3>3, <3>4 DEF N
  <2> QED
    BY <1>5, <2>7, <2>9, <2>10, <2>11 DEF RoundOK, CountsOK, new, a
<1> QED
  BY <1>5, <1>7, <1>8, <1>9

\* So it is right after every round.
LEMMA RoundsOK ==
    ASSUME Types, Stamped
    PROVE  RoundOK(Len(Selected), Manifested) /\ Len(Selected) \in Nat
<1>1. SelectedOnce /\ Len(Selected) \in Nat
  BY SelectsOnce DEF SelectedOnce
<1> DEFINE n == Len(Selected)
           T == {k \in 0 .. n : ~RoundOK(k, Round[k])}
<1>2. RoundOK(0, Round[0])
  <2>1. Round[0] = Nothing
    BY <1>1, RoundUnfolds
  <2>2. Nothing \in Tally /\ Nothing.rows = << >> /\ Nothing.bytes = 0 /\ Nothing.omitted = 0
    BY DEF Nothing, Tally
  <2>3. AllPaths(<< >>) = {} /\ Missed(0, << >>) = {}
    BY DEF AllPaths, Missed, Seen
  <2>4. IsFiniteSet({}) /\ Cardinality({}) = 0
    BY FS_EmptySet
  <2>5. CountsOK(0, Nothing)
    <3>1. AllPaths(Nothing.rows) = {} /\ Missed(0, Nothing.rows) = {}
      BY <2>2, <2>3
    <3>2. /\ IsFiniteSet(AllPaths(Nothing.rows)) /\ Cardinality(AllPaths(Nothing.rows)) = 0
          /\ IsFiniteSet(Missed(0, Nothing.rows)) /\ Cardinality(Missed(0, Nothing.rows)) = 0
      BY <2>4, <3>1
    <3> QED
      BY <2>2, <3>2 DEF CountsOK
  <2>6. LimitsOK(Nothing)
    BY <2>2 DEF LimitsOK, Types
  <2>7. RowsOK(0, << >>)
    BY DEF RowsOK
  <2> QED
    BY <2>1, <2>2, <2>5, <2>6, <2>7 DEF RoundOK
<1>3. T = {}
  <2> SUFFICES ASSUME T # {} PROVE FALSE
    OBVIOUS
  <2>1. T \subseteq Nat
    OBVIOUS
  <2> HIDE DEF T
  <2>2. PICK k \in T : \A m \in T : k <= m
    BY <2>1, LeastNat
  <2>3. k \in 0 .. n /\ ~RoundOK(k, Round[k]) /\ k # 0
    BY <1>2 DEF T
  <2>4. k \in 1 .. n /\ k - 1 \in 0 .. n /\ k - 1 \notin T
    BY <1>1, <2>2, <2>3
  <2>5. RoundOK(k - 1, Round[k - 1])
    BY <2>4 DEF T
  <2>6. Round[k] = Admit(Round[k - 1], Selected[k])
    BY <1>1, <2>4, RoundUnfolds
  <2> QED
    BY <1>1, <2>3, <2>4, <2>5, <2>6, RoundKeeps
<1>4. n \in 0 .. n
  BY <1>1
<1> QED
  BY <1>1, <1>3, <1>4 DEF Manifested

\* Where the files lie: each under the path of its row, and nothing else.
PathOf(row, n) == <<Dir(row.id), n>>
Placed(sc, rows) ==
    /\ DOMAIN sc = AllPaths(rows)
    /\ \A k \in 1 .. Len(rows) : \A n \in rows[k].files :
           PathOf(rows[k], n) \in DOMAIN sc /\ sc[PathOf(rows[k], n)] = <<rows[k].id, n>>
    /\ \A p \in DOMAIN sc : \E k \in 1 .. Len(rows) : \E n \in rows[k].files : p = PathOf(rows[k], n)

\* No path belongs to two rows.
LEMMA OneOwner ==
    ASSUME Len(Selected) \in Nat, NEW rows, RowsOK(Len(Selected), rows),
           NEW k \in 1 .. Len(rows), NEW l \in 1 .. Len(rows), NEW p,
           p \in Paths(rows[k]), p \in Paths(rows[l])
    PROVE  k = l
<1>1. Dir(rows[k].id) = Dir(rows[l].id)
  BY DEF Paths
<1>2. rows[k].id \in Seen(Len(Selected)) /\ rows[l].id \in Seen(Len(Selected))
  BY DEF RowsOK
<1>3. rows[k].id = rows[l].id
  <2>1. CASE Len(Selected) <= 1
    <3>1. \A i, j \in 1 .. Len(Selected) : i = j
      BY <2>1
    <3> QED
      BY <1>2, <3>1 DEF Seen
  <2>2. CASE ~(Len(Selected) <= 1)
    BY <1>1, <2>2 DEF Dir
  <2> QED
    BY <2>1, <2>2
<1> QED
  BY <1>3 DEF RowsOK

\* materialize places the files of its rows.
LEMMA Materialized ==
    ASSUME Types, Stamped
    PROVE  Placed(materialize, Manifested.rows)
<1> DEFINE rows == Manifested.rows
           sc == materialize
<1>1. RowsOK(Len(Selected), rows) /\ rows \in Seq(RowSet) /\ Len(Selected) \in Nat
  BY RoundsOK DEF RoundOK, Tally
<1>2. DOMAIN rows = 1 .. Len(rows) /\ Len(rows) \in Nat
  BY <1>1
<1>3. sc = [p \in AllPaths(rows) |-> <<rows[CHOOSE i \in DOMAIN rows : p \in Paths(rows[i])].id, p[2]>>]
  BY DEF materialize, AllPaths
<1> HIDE DEF rows, sc
<1>4. DOMAIN sc = AllPaths(rows)
  BY <1>3
<1>5. ASSUME NEW k \in 1 .. Len(rows), NEW n \in rows[k].files
      PROVE  PathOf(rows[k], n) \in DOMAIN sc /\ sc[PathOf(rows[k], n)] = <<rows[k].id, n>>
  <2> DEFINE p == PathOf(rows[k], n)
  <2>1. p \in Paths(rows[k]) /\ p[2] = n
    BY DEF PathOf, Paths
  <2> HIDE DEF p
  <2>2. p \in AllPaths(rows)
    BY <1>2, <2>1 DEF AllPaths
  <2>3. \A i \in DOMAIN rows : p \in Paths(rows[i]) => i = k
    BY <1>1, <1>2, <2>1, OneOwner
  <2>4. (CHOOSE i \in DOMAIN rows : p \in Paths(rows[i])) = k
    BY <1>2, <2>1, <2>3
  <2>5. sc[p] = <<rows[k].id, n>>
    BY <1>3, <2>1, <2>2, <2>4
  <2> QED
    BY <1>4, <2>2, <2>5 DEF p
<1>6. ASSUME NEW p \in DOMAIN sc
      PROVE  \E k \in 1 .. Len(rows) : \E n \in rows[k].files : p = PathOf(rows[k], n)
  <2>1. PICK k \in 1 .. Len(rows) : p \in Paths(rows[k])
    BY <1>2, <1>4 DEF AllPaths
  <2>2. PICK n \in rows[k].files : p = PathOf(rows[k], n)
    BY <2>1 DEF Paths, PathOf
  <2> QED
    BY <2>2
<1>7. Placed(sc, rows)
  BY <1>4, <1>5, <1>6 DEF Placed
<1> QED
  BY <1>7 DEF sc, rows

\* So the artifacts given are those of the rows, each with all its files.
Given(sc) == {sc[p][1] : p \in DOMAIN sc}
FilesOf(sc, a) == {sc[p][2] : p \in {q \in DOMAIN sc : sc[q][1] = a}}

LEMMA GivenWhole ==
    ASSUME NEW m, NEW rows \in Seq(RowSet), RowsOK(m, rows), NEW sc, Placed(sc, rows)
    PROVE  Given(sc) = Held(rows) /\ \A a \in Held(rows) : FilesOf(sc, a) = art[a].objects
<1>1. DOMAIN rows = 1 .. Len(rows)
  OBVIOUS
<1>2. \A k \in 1 .. Len(rows) : rows[k].files # {} /\ rows[k].files = art[rows[k].id].objects
  <2>1. \A a : Row(a).files = art[a].objects
    BY DEF Row
  <2> QED
    BY <2>1 DEF RowsOK
<1>3. \A k, l \in 1 .. Len(rows) : rows[k].id = rows[l].id => k = l
  BY DEF RowsOK
<1>4. \A k \in 1 .. Len(rows) : \A n \in rows[k].files :
          PathOf(rows[k], n) \in DOMAIN sc /\ sc[PathOf(rows[k], n)] = <<rows[k].id, n>>
  BY DEF Placed
<1>5. ASSUME NEW p \in DOMAIN sc
      PROVE  \E k \in 1 .. Len(rows) : \E n \in rows[k].files : sc[p][1] = rows[k].id /\ sc[p][2] = n
  <2>1. PICK k \in 1 .. Len(rows) : \E n \in rows[k].files : p = PathOf(rows[k], n)
    BY DEF Placed
  <2>2. PICK n \in rows[k].files : p = PathOf(rows[k], n)
    BY <2>1
  <2>3. sc[p] = <<rows[k].id, n>>
    BY <1>4, <2>2
  <2> QED
    BY <2>3
<1>6. ASSUME NEW k \in 1 .. Len(rows), NEW n \in rows[k].files
      PROVE  \E p \in DOMAIN sc : sc[p][1] = rows[k].id /\ sc[p][2] = n
  <2> DEFINE p == PathOf(rows[k], n)
  <2>1. p \in DOMAIN sc /\ sc[p] = <<rows[k].id, n>>
    BY <1>4
  <2> HIDE DEF p
  <2>2. sc[p][1] = rows[k].id /\ sc[p][2] = n
    BY <2>1
  <2> QED
    BY <2>1, <2>2
<1>7. Given(sc) = Held(rows)
  <2>1. \A x \in Given(sc) : x \in Held(rows)
    BY <1>1, <1>5 DEF Given, Held
  <2>2. ASSUME NEW x \in Held(rows) PROVE x \in Given(sc)
    <3>1. PICK k \in 1 .. Len(rows) : x = rows[k].id
      BY <1>1 DEF Held
    <3>2. PICK n \in rows[k].files : TRUE
      BY <1>2
    <3> QED
      BY <1>6, <3>1, <3>2 DEF Given
  <2> QED
    BY <2>1, <2>2
<1>8. ASSUME NEW a \in Held(rows) PROVE FilesOf(sc, a) = art[a].objects
  <2>1. PICK k \in 1 .. Len(rows) : a = rows[k].id
    BY <1>1 DEF Held
  <2>2. rows[k].files = art[a].objects
    BY <1>2, <2>1
  <2>3. \A x \in art[a].objects : x \in FilesOf(sc, a)
    BY <1>6, <2>1, <2>2 DEF FilesOf
  <2>4. ASSUME NEW x \in FilesOf(sc, a) PROVE x \in art[a].objects
    <3>1. PICK p \in DOMAIN sc : sc[p][1] = a /\ sc[p][2] = x
      BY DEF FilesOf
    <3>2. PICK l \in 1 .. Len(rows) : \E n \in rows[l].files : sc[p][1] = rows[l].id /\ sc[p][2] = n
      BY <1>5
    <3>3. rows[l].id = rows[k].id
      BY <2>1, <3>1, <3>2
    <3>4. l = k
      BY <1>3, <3>3
    <3> QED
      BY <2>2, <3>1, <3>2, <3>4
  <2> QED
    BY <2>3, <2>4
<1> QED
  BY <1>7, <1>8


\* What ProvisionedFromStore says of a workspace and an index.
ProvisionOK(sc, ix) ==
    /\ \A a \in Given(sc) : art[a].status \in policy.statuses
    /\ \A a \in Given(sc) : FilesOf(sc, a) = art[a].objects
    /\ Given(sc) = Held(ix.rows)
    /\ policy.max_artifacts # Unlimited => Cardinality(Given(sc)) <= policy.max_artifacts
    /\ policy.max_bytes # Unlimited => Cardinality(DOMAIN sc) <= policy.max_bytes
    /\ policy.select = "all" /\ Given(sc) # {} =>
           ix.omitted >= Cardinality({a \in ids \ Given(sc) :
               art[a].status \in policy.statuses /\ art[a].objects # {}})

LEMMA ObjectsPlaced ==
    ASSUME Types, Stamped, NEW sc, Placed(sc, Manifested.rows)
    PROVE  ProvisionOK(sc, index)
<1> DEFINE acc == Manifested
           rows == acc.rows
           m == Len(Selected)
<1>1. RowsOK(m, rows) /\ rows \in Seq(RowSet) /\ LimitsOK(acc) /\ CountsOK(m, acc)
      /\ acc.bytes \in Nat /\ acc.omitted \in Nat /\ m \in Nat
  BY RoundsOK DEF RoundOK, Tally
<1>2. index.rows = rows /\ (rows # << >> => index.omitted = acc.omitted)
  BY DEF index
<1>3. Placed(sc, rows)
  OBVIOUS
<1> HIDE DEF acc, rows, m
<1>4. Given(sc) = Held(rows) /\ \A a \in Held(rows) : FilesOf(sc, a) = art[a].objects
  BY <1>1, <1>3, GivenWhole
<1>5. DOMAIN rows = 1 .. Len(rows) /\ Len(rows) \in Nat
  BY <1>1
<1>6. \A a \in Held(rows) : art[a].status \in policy.statuses
  BY <1>1, <1>5 DEF Held, RowsOK, Candidates
<1>7. policy.max_artifacts # Unlimited => Cardinality(Held(rows)) <= policy.max_artifacts
  <2> DEFINE f == [k \in 1 .. Len(rows) |-> rows[k].id]
  <2>1. f \in Surjection(1 .. Len(rows), Held(rows))
    BY <1>5 DEF Surjection, Held
  <2>2. IsFiniteSet(1 .. Len(rows)) /\ Cardinality(1 .. Len(rows)) = Len(rows)
    <3>1. 1 \in Int /\ Len(rows) \in Int /\ (1 > Len(rows) => Len(rows) = 0)
      BY <1>5
    <3>2. IsFiniteSet(1 .. Len(rows))
          /\ Cardinality(1 .. Len(rows)) = IF 1 > Len(rows) THEN 0 ELSE Len(rows) - 1 + 1
      BY <3>1, FS_Interval
    <3> QED
      BY <1>5, <3>1, <3>2
  <2> HIDE DEF f
  <2>3. IsFiniteSet(Held(rows)) /\ Cardinality(Held(rows)) <= Cardinality(1 .. Len(rows))
    BY <2>1, <2>2, FS_Surjection
  <2>4. Cardinality(Held(rows)) \in Nat /\ Cardinality(Held(rows)) <= Len(rows)
    BY <2>2, <2>3, FS_CardinalityType
  <2>5. policy.max_artifacts # Unlimited => Len(rows) <= policy.max_artifacts
    BY <1>1 DEF LimitsOK, rows
  <2> QED
    BY <1>5, <2>4, <2>5 DEF Types
<1>8. policy.max_bytes # Unlimited => Cardinality(DOMAIN sc) <= policy.max_bytes
  <2>1. DOMAIN sc = AllPaths(rows)
    BY <1>3 DEF Placed
  <2>2. Cardinality(AllPaths(rows)) \in Nat /\ Cardinality(AllPaths(rows)) <= acc.bytes
    BY <1>1, FS_CardinalityType DEF CountsOK, rows
  <2>3. policy.max_bytes # Unlimited => acc.bytes <= policy.max_bytes
    BY <1>1 DEF LimitsOK
  <2>4. policy.max_bytes # Unlimited => Cardinality(AllPaths(rows)) <= policy.max_bytes
    BY <1>1, <2>2, <2>3 DEF Types
  <2> QED
    BY <2>1, <2>4
<1>9. policy.select = "all" /\ Held(rows) # {} =>
          index.omitted >= Cardinality({a \in ids \ Held(rows) :
              art[a].status \in policy.statuses /\ art[a].objects # {}})
  <2> SUFFICES ASSUME policy.select = "all", Held(rows) # {}
               PROVE  index.omitted >= Cardinality({a \in ids \ Held(rows) :
                          art[a].status \in policy.statuses /\ art[a].objects # {}})
    OBVIOUS
  <2>1. rows # << >>
    BY <1>5 DEF Held
  <2>2. Range(Selected) = Candidates /\ Selected \in Seq(Candidates)
    BY SelectsOnce DEF SelectedOnce
  <2>3. Seen(m) = Candidates
    BY <2>2 DEF Seen, m, Range
  <2>4. Missed(m, rows) = {a \in ids \ Held(rows) :
            art[a].status \in policy.statuses /\ art[a].objects # {}}
    BY <2>3 DEF Missed, Candidates
  <2>5. Cardinality(Missed(m, rows)) \in Nat /\ Cardinality(Missed(m, rows)) <= acc.omitted
    BY <1>1, FS_CardinalityType DEF CountsOK, rows
  <2>6. index.omitted >= Cardinality(Missed(m, rows))
    BY <1>1, <1>2, <2>1, <2>5
  <2> QED
    BY <2>4, <2>6
<1> QED
  BY <1>2, <1>4, <1>6, <1>7, <1>8, <1>9, Zenon DEF ProvisionOK

\* What serve_context provisions.
LEMMA Provisioned ==
    ASSUME StoreInv, serve_context
    PROVE  ProvisionedFromStore'
<1>1. Types /\ Stamped /\ phase = "idle" /\ scratch = Empty
  BY DEF StoreInv, Fresh, serve_context
<1> DEFINE objects == materialize
<1>2. /\ scratch' = [p \in DOMAIN scratch \cup DOMAIN objects |->
                        IF p \in DOMAIN objects THEN objects[p] ELSE scratch[p]]
      /\ served'.index = index /\ art' = art /\ policy' = policy /\ ids' = ids
  BY DEF serve_context, store, ids
<1>3. DOMAIN scratch = {} /\ objects = [p \in DOMAIN objects |-> objects[p]]
  BY <1>1 DEF Empty, materialize
<1> HIDE DEF objects
<1>4. scratch' = objects
  BY <1>2, <1>3
<1>5. ProvisionOK(objects, index)
  BY <1>1, Materialized, ObjectsPlaced DEF objects
<1> DEFINE sc == scratch'
           ix == served'.index
<1>6. ProvisionOK(sc, ix)
  BY <1>2, <1>4, <1>5
<1> QED
  BY <1>2, <1>6 DEF ProvisionedFromStore, ProvisionOK, Given, FilesOf, Held, ids


-----------------------------------------------------------------------------
(* The theorems *)

LEMMA InitIInv == ASSUME Init PROVE IInv
<1>1. Types
  <2>1. art = << >> /\ failures = << >> /\ trail = << >> /\ clock = 0
    BY DEF Init
  <2>2. policy \in provisioning_policies
    BY DEF Init
  <2> DEFINE Typed == /\ policy.select \in ProvisionSelect
                      /\ policy.max_artifacts \in Nat \cup {Unlimited}
                      /\ policy.max_bytes \in Nat \cup {Unlimited}
  <2>3. ASSUME \E name \in Presets : policy = NamedPolicy(name) PROVE Typed
    <3>1. PICK name \in Presets : policy = NamedPolicy(name)
      BY <2>3
    <3> DEFINE q == IF name \in DOMAIN Preset THEN name ELSE "none"
    <3>2. /\ policy.select = Preset[q].select
          /\ policy.max_artifacts = Unlimited /\ policy.max_bytes = Unlimited
      BY <3>1 DEF NamedPolicy
    <3>3. \A p \in DOMAIN Preset : Preset[p].select \in ProvisionSelect
      BY DEF Preset, ProvisionSelect
    <3>4. q \in DOMAIN Preset
      BY DEF Preset
    <3> QED
      BY <3>2, <3>3, <3>4
  <2>4. ASSUME policy \in MappedPolicies PROVE Typed
    BY <2>4, ContextAssumption DEF MappedPolicies
  <2>5. Typed
    BY <2>2, <2>3, <2>4 DEF provisioning_policies
  <2> QED
    BY <2>1, <2>5 DEF Types, ProvisionSelect
<1>2. Stamped /\ CorrectionIsLast /\ Fresh
  BY DEF Init, Stamped, Increasing, Past, CorrectionIsLast, Corrections, Gates, Fresh
<1>3. TablesHoldTrail
  BY DEF Init, TablesHoldTrail, digest_lines, ids, Range
<1>4. DigestIsTrail /\ ProvisionedFromStore
  BY DEF Init, DigestIsTrail, ProvisionedFromStore
<1> QED
  BY <1>1, <1>2, <1>3, <1>4 DEF IInv, StoreInv

LEMMA StepIInv == ASSUME IInv, [Next]_vars PROVE IInv'
<1>1. StoreInv
  BY DEF IInv
<1>2. ASSUME phase' # "served" PROVE DigestIsTrail' /\ ProvisionedFromStore'
  BY <1>2 DEF DigestIsTrail, ProvisionedFromStore
<1>3. CASE configure
  <2>1. phase' # "served"
    BY <1>3 DEF configure, register_contract_version
  <2>2. StoreInv'
    <3>1. phase = "down" /\ UNCHANGED <<art, failures, clock, policy, trail, scratch, feedback>>
      BY <1>3 DEF configure
    <3>2. scratch' = Empty
      BY <1>1, <3>1 DEF StoreInv, Fresh
    <3> QED
      BY <1>1, <3>1, <3>2, StoreUntouched
  <2> QED
    BY <1>2, <2>1, <2>2 DEF IInv
<1>4. CASE serve_context
  <2>1. UNCHANGED <<art, failures, clock, policy, trail, feedback>> /\ phase' = "served"
    BY <1>4 DEF serve_context, store
  <2>2. StoreInv'
    BY <1>1, <2>1, StoreUntouched
  <2> QED
    BY <1>1, <1>4, <2>2, DigestServed, Provisioned DEF IInv
<1>5. CASE AgentWorks
  <2>1. UNCHANGED <<art, failures, clock, policy, trail, feedback>> /\ phase' = "worked"
    BY <1>5 DEF AgentWorks, store
  <2>2. StoreInv'
    BY <1>1, <2>1, StoreUntouched
  <2> QED
    BY <1>2, <2>1, <2>2 DEF IInv
<1>6. CASE NewRun
  <2>1. /\ UNCHANGED <<art, failures, clock, policy, trail, scratch>>
        /\ phase = "idle" /\ phase' = "idle" /\ feedback' = "none"
    BY <1>6 DEF NewRun, store
  <2>2. scratch' = Empty
    BY <1>1, <2>1 DEF StoreInv, Fresh
  <2>3. StoreInv'
    BY <1>1, <2>1, <2>2, StoreUntouched
  <2> QED
    BY <1>2, <2>1, <2>3 DEF IInv
<1>7. ASSUME NEW kind \in Kinds, FailedCycle(kind) PROVE IInv'
  <2>1. phase' = "idle"
    BY <1>7 DEF FailedCycle, EndCycle
  <2> QED
    BY <1>1, <1>2, <1>7, <2>1, FailureTrailed DEF IInv
<1>8. ASSUME NEW r \in Rulings, NEW objects \in ObjectSets, Committed(r, objects) PROVE IInv'
  <2>1. phase' = "idle"
    BY <1>8 DEF Committed, EndCycle
  <2> QED
    BY <1>1, <1>2, <1>8, <2>1, RulingTrailed DEF IInv
<1>9. ASSUME NEW version \in {"old", "new"}, Restart(version) PROVE IInv'
  <2>1. /\ UNCHANGED <<art, failures, clock, policy, trail>> /\ scratch' = Empty
        /\ phase' = "down" /\ feedback' = "none"
    BY <1>9 DEF Restart, store
  <2>2. StoreInv'
    BY <1>1, <2>1, StoreUntouched
  <2> QED
    BY <1>2, <2>1, <2>2 DEF IInv
<1>10. CASE UNCHANGED vars
  <2>1. UNCHANGED <<art, failures, clock, policy, trail, feedback, phase, scratch, served>>
    BY <1>10 DEF vars, store
  <2>2. StoreInv'
    <3>1. phase' \in {"down", "idle"} => scratch' = Empty
      BY <1>1, <2>1 DEF StoreInv, Fresh
    <3> QED
      BY <1>1, <2>1, <3>1, StoreUntouched
  <2>3. DigestIsTrail'
    BY <2>1 DEF IInv, DigestIsTrail
  <2>4. ProvisionedFromStore'
    <3>1. CASE phase # "served"
      BY <1>2, <2>1, <3>1
    <3>2. CASE phase = "served"
      <4> DEFINE sc == scratch
                 ix == served.index
      <4>1. ProvisionOK(sc, ix)
        BY <3>2 DEF IInv, ProvisionedFromStore, ProvisionOK, Given, FilesOf, Held
      <4> DEFINE sc1 == scratch'
                 ix1 == served'.index
      <4>2. ProvisionOK(sc1, ix1) /\ ids' = ids
        BY <2>1, <4>1 DEF ids
      <4> QED
        BY <2>1, <4>2 DEF ProvisionedFromStore, ProvisionOK, Given, FilesOf, Held, ids
    <3> QED
      BY <3>1, <3>2
  <2> QED
    BY <2>2, <2>3, <2>4 DEF IInv
<1> QED
  BY <1>3, <1>4, <1>5, <1>6, <1>7, <1>8, <1>9, <1>10 DEF Next

LEMMA Invariance == Spec => []IInv
<1>1. Init => IInv
  BY InitIInv
<1>2. IInv /\ [Next]_vars => IInv'
  BY StepIInv
<1> QED
  BY <1>1, <1>2, PTL DEF Spec

\* The digest that opens a cycle is the trail of failed attempts, latest first
\* and cut at its limit, for any number of cycles and restarts: the rejected
\* artifacts and the recorded failures, merged by their times, lose and
\* reorder nothing.  (_rejection_digest, _feedback_from)
THEOREM DigestFaithful == Spec => []DigestIsTrail
<1>1. IInv => DigestIsTrail
  BY DEF IInv
<1> QED
  BY <1>1, Invariance, PTL

\* The agent is provisioned from the store alone, whole artifacts only and
\* within both limits, for every policy, every limit and any number of
\* artifacts.  (materialize, _materialize_objects, regenerate)
THEOREM ProvisioningFaithful == Spec => []ProvisionedFromStore
<1>1. IInv => ProvisionedFromStore
  BY DEF IInv
<1> QED
  BY <1>1, Invariance, PTL

-----------------------------------------------------------------------------
(* AgentLoop *)

\* The stages in which a further model step may follow.
Alive == {"new", "running", "calling", "tool", "ended"}

\* The counters are numbers.
Counters == steps \in Nat /\ made \in Nat /\ super \in Nat

\* As long as the agent is alive, the middleware has counted the steps made.
StepsAreMade == stage \in Alive => steps = made

\* The framework counts at most SuperSteps for each of them.
SuperBounded == super <= made * SuperSteps

\* The warning was given with the step it is due at.
Warned == made >= StepWarnAt => "steps" \in nudges

\* A worker that left by itself logged its telemetry first.
LoggedFirst == stage \in {"leaving", "exited"} => "telemetry" \in log

LoopInv == /\ Counters /\ StepsAreMade /\ SuperBounded /\ Warned /\ LoggedFirst
        /\ BudgetHolds /\ FailureExplained

-----------------------------------------------------------------------------
(* The arithmetic of the budgets *)

\* The warning is due within the budget.
LEMMA WarnsInTime == StepWarnAt \in Nat /\ StepWarnAt <= StepBudget
<1>1. StepBudget \in Nat /\ StepBudget > 0
  BY AgentAssumption
<1>2. (8 * StepBudget) \div 10 \in Nat /\ (8 * StepBudget) \div 10 <= StepBudget
  BY <1>1
<1> QED
  BY <1>1, <1>2 DEF StepWarnAt

\* A product is monotonic in both factors.
LEMMA ProductMonotonic ==
    ASSUME NEW a \in Nat, NEW b \in Nat, NEW c \in Nat, NEW d \in Nat, a <= b, c <= d
    PROVE  a * c <= b * d
<1>1. a * c <= b * c
  OBVIOUS
<1>2. b * c <= b * d
  OBVIOUS
<1> QED
  BY <1>1, <1>2

\* The recursion limit has room for every step of the budget.
LEMMA LimitHasRoom ==
    ASSUME NEW n \in Nat, n <= StepBudget
    PROVE  n * SuperSteps <= effective_recursion_limit
<1>1. /\ StepBudget \in Nat /\ Headroom \in Nat /\ SuperSteps \in Nat /\ RecursionLimit \in Nat
      /\ SuperSteps <= Headroom
  BY AgentAssumption
<1>2. n * SuperSteps <= StepBudget * Headroom
  BY <1>1, ProductMonotonic
<1>3. n * SuperSteps \in Nat /\ StepBudget * Headroom \in Nat
  BY <1>1
<1>4. StepBudget * Headroom <= effective_recursion_limit
  BY <1>1, <1>3 DEF effective_recursion_limit
<1>5. effective_recursion_limit \in Nat
  BY <1>1, <1>3 DEF effective_recursion_limit
<1> QED
  BY <1>2, <1>3, <1>4, <1>5

-----------------------------------------------------------------------------
(* The inductive step *)

USE DEF budget, time, outbox

\* Nothing has happened yet.
LEMMA InitLoopInv == LoopInit => LoopInv
<1> SUFFICES ASSUME LoopInit PROVE LoopInv
  OBVIOUS
<1>1. 0 * SuperSteps = 0 /\ ~(0 >= StepWarnAt)
  <2>1. SuperSteps \in Nat /\ (8 * StepBudget) \div 10 \in Nat
    BY AgentAssumption
  <2> QED
    BY <2>1 DEF StepWarnAt
<1>2. StepBudget \in Nat
  BY AgentAssumption
<1> QED
  BY <1>1, <1>2 DEF LoopInit, LoopInv, Counters, StepsAreMade, Alive, SuperBounded, Warned, LoggedFirst,
                    BudgetHolds, FailureExplained, NoOutcome

\* A step before the model: the budget is the limit that is reached, and
\* it is reached with the warning given.
LEMMA BeforeModelKeeps == LoopInv /\ BeforeModel => LoopInv'
<1> SUFFICES ASSUME LoopInv, BeforeModel PROVE LoopInv'
  OBVIOUS
<1>1. /\ steps \in Nat /\ made \in Nat /\ super \in Nat /\ steps = made /\ made <= StepBudget
      /\ StepBudget \in Nat /\ SuperSteps \in Nat /\ steps' = steps + 1 /\ stage = "running"
      /\ super <= made * SuperSteps /\ made * SuperSteps \in Nat
  BY AgentAssumption DEF LoopInv, Counters, StepsAreMade, Alive, SuperBounded, BudgetHolds, BeforeModel
<1>2. FailureExplained'
  BY DEF LoopInv, BeforeModel, FailureExplained
<1>3. CASE steps' > StepBudget
  <2>1. made = StepBudget /\ "steps" \in nudges
    BY <1>1, <1>3, WarnsInTime DEF LoopInv, Warned
  <2>2. Raises("budget") /\ UNCHANGED <<super, nudges, made>>
    BY <1>3 DEF BeforeModel
  <2>3. stage' = "stopping" /\ reason' \in {"budget", "clean"} /\ nudges' = nudges
    BY <2>2 DEF Raises
  <2> QED
    BY <1>1, <1>2, <2>1, <2>2, <2>3
    DEF LoopInv, Counters, StepsAreMade, Alive, SuperBounded, Warned, LoggedFirst, BudgetHolds
<1>4. CASE ~(steps' > StepBudget)
  <2>1. made + 1 \in Nat /\ made + 1 <= StepBudget
    BY <1>1, <1>4
  <2>2. (made + 1) * SuperSteps <= effective_recursion_limit
    BY <2>1, LimitHasRoom
  <2>3. (made + 1) * SuperSteps = made * SuperSteps + SuperSteps
    BY <1>1
  <2>4. effective_recursion_limit \in Nat
    <3>1. /\ StepBudget * Headroom \in Nat /\ RecursionLimit \in Nat
      BY AgentAssumption
    <3> QED
      BY <3>1 DEF effective_recursion_limit
  <2>5. super + SuperSteps <= (made + 1) * SuperSteps
    BY <1>1, <2>3
  <2>6. ~(super + SuperSteps > effective_recursion_limit)
    BY <1>1, <2>2, <2>3, <2>4, <2>5
  <2>7. /\ super' = super + SuperSteps /\ made' = made + 1 /\ nudges' = Nudged
        /\ stage' = "calling" /\ reason' = reason
    BY <1>4, <2>6 DEF BeforeModel
  <2>8. Warned'
    <3>1. made' = steps'
      BY <1>1, <2>7
    <3> QED
      BY <2>7, <3>1 DEF Nudged, Warned, StepWarnAt
  <2>9. nudges \subseteq nudges'
    BY <2>7 DEF Nudged
  <2> QED
    BY <1>1, <1>2, <2>1, <2>5, <2>7, <2>8, <2>9
    DEF LoopInv, Counters, StepsAreMade, Alive, SuperBounded, LoggedFirst, BudgetHolds
<1> QED
  BY <1>3, <1>4

\* Every other step leaves the count of the steps made alone.
LEMMA OthersKeep == LoopInv /\ [LoopNext]_loopVars /\ ~BeforeModel => LoopInv'
<1> SUFFICES ASSUME LoopInv, [LoopNext]_loopVars, ~BeforeModel PROVE LoopInv'
  OBVIOUS
<1> USE DEF LoopInv
<1>a. /\ steps \in Nat /\ made \in Nat /\ super \in Nat /\ made * SuperSteps \in Nat
  BY AgentAssumption DEF Counters
<1>1. CASE UNCHANGED loopVars
  BY <1>1 DEF loopVars, Counters, StepsAreMade, SuperBounded, Warned, LoggedFirst, BudgetHolds,
              FailureExplained, StepWarnAt
<1>2. ASSUME UNCHANGED <<steps, made, nudges, outcome, container>>, super' \in {super, 0},
             reason' \in {reason, "clean", "crash"},
             stage' \in Alive => stage \in Alive, LoggedFirst'
      PROVE  LoopInv'
  <2>1. super' \in Nat /\ super' <= made * SuperSteps
    BY <1>a, <1>2 DEF SuperBounded
  <2> QED
    BY <1>2, <2>1 DEF Counters, StepsAreMade, SuperBounded, Warned, BudgetHolds,
                      FailureExplained, StepWarnAt
<1>3. CASE Launch
  BY <1>2, <1>3 DEF Launch, Alive, LoggedFirst
<1>4. CASE ParseRejected
  BY <1>2, <1>4 DEF ParseRejected, Raises, Alive, LoggedFirst
<1>5. CASE LoopError
  BY <1>2, <1>5 DEF LoopError, Raises, Alive, LoggedFirst
<1>6. CASE ToolCall
  <2>1. UNCHANGED <<steps, made, nudges, outcome, container, super, reason>>
    BY <1>6 DEF ToolCall
  <2>2. stage = "tool" /\ stage' = "running"
    BY <1>6 DEF ToolCall
  <2> QED
    BY <1>2, <2>1, <2>2 DEF Alive, LoggedFirst
<1>7. CASE FinalizeGuard
  BY <1>2, <1>7 DEF FinalizeGuard, StepsAtInvoke, Alive, LoggedFirst
<1>8. CASE LogTelemetry
  BY <1>2, <1>8 DEF LogTelemetry, Alive, LoggedFirst
<1>9. CASE Exit
  BY <1>2, <1>9 DEF Exit, Alive, LoggedFirst
<1>10. CASE Tick
  BY <1>2, <1>10 DEF Tick, LoggedFirst
<1>11. CASE HardKill \/ AbruptDeath
  BY <1>2, <1>11 DEF HardKill, AbruptDeath, Alive, LoggedFirst
<1>12. CASE \E next \in {"tool", "ended"} : Answer(next)
  BY <1>2, <1>12 DEF Answer, Alive, LoggedFirst
<1>13. ASSUME UNCHANGED <<steps, made, nudges, super, reason>>, stage' = "over", FailureExplained'
       PROVE  LoopInv'
  BY <1>13 DEF Counters, StepsAreMade, Alive, SuperBounded, Warned, LoggedFirst, BudgetHolds, StepWarnAt
<1>14. CASE LaunchFails
  BY <1>13, <1>14 DEF LaunchFails, NoOutcome, FailureExplained
<1>15. CASE \E captured \in BOOLEAN : WorkerFailed(captured)
  <2>1. PICK captured \in BOOLEAN : WorkerFailed(captured)
    BY <1>15
  <2>2. synthesized(captured) # "none"
    BY DEF synthesized
  <2>3. FailureExplained'
    BY <2>1, <2>2 DEF WorkerFailed, FailureExplained
  <2> QED
    BY <1>13, <2>1, <2>3 DEF WorkerFailed
<1>16. CASE \E captured, harvestable \in BOOLEAN : collect_proposal(captured, harvestable)
  <2>1. PICK captured \in BOOLEAN, harvestable \in BOOLEAN : collect_proposal(captured, harvestable)
    BY <1>16
  <2>2. "telemetry" \in log
    BY <2>1 DEF collect_proposal, LoggedFirst
  <2>3. FailureExplained'
    BY <2>1, <2>2 DEF collect_proposal, FailureExplained, KindOf, Parsed
  <2> QED
    BY <1>13, <2>1, <2>3 DEF collect_proposal
<1> QED
  BY <1>1, <1>3, <1>4, <1>5, <1>6, <1>7, <1>8, <1>9, <1>10, <1>11, <1>12, <1>14, <1>15, <1>16 DEF LoopNext

-----------------------------------------------------------------------------

\* The invariant is inductive.
LEMMA LoopInvHolds == LoopSpec => []LoopInv
<1>1. LoopInv /\ [LoopNext]_loopVars => LoopInv'
  BY BeforeModelKeeps, OthersKeep
<1> QED
  BY InitLoopInv, <1>1, PTL DEF LoopSpec

\* Whatever the budgets and however often the guard re-invokes the agent, a
\* cycle makes at most the budgeted number of model steps, is never ended by
\* the framework's recursion limit, and is ended by its budget only after a
\* warning.
THEOREM BudgetAlwaysHolds == LoopSpec => []BudgetHolds
<1>1. LoopInv => BudgetHolds
  BY DEF LoopInv
<1> QED
  BY LoopInvHolds, <1>1, PTL

\* A cycle that failed in the worker says why, and one that ended cleanly
\* without a proposal carries the worker's telemetry whenever its log could
\* be captured.
THEOREM FailureAlwaysExplained == LoopSpec => []FailureExplained
<1>1. LoopInv => FailureExplained
  BY DEF LoopInv
<1> QED
  BY LoopInvHolds, <1>1, PTL

-----------------------------------------------------------------------------
(* A cycle is finite *)

\* The counters stay within their limits.
Within ==
    /\ stage \in DOMAIN Rank /\ steps <= StepBudget + 1
    /\ attempts \in Nat /\ attempts <= ParseRetries
    /\ ticks \in Nat /\ ticks <= HardTimeout

LEMMA RankValues ==
    /\ Rank["new"] = 7 /\ Rank["calling"] = 6 /\ Rank["tool"] = 5 /\ Rank["ended"] = 5
    /\ Rank["running"] = 4 /\ Rank["stopping"] = 3 /\ Rank["leaving"] = 2 /\ Rank["exited"] = 1
    /\ Rank["killed"] = 1 /\ Rank["crashed"] = 1 /\ Rank["over"] = 0
    /\ DOMAIN Rank = {"new", "calling", "tool", "ended", "running", "stopping", "leaving", "exited",
                      "killed", "crashed", "over"}
BY DEF Rank

\* How a step moves the cycle on: to a stage of a lower rank, into a model
\* call that is paid for with a step, to the next re-run, or by a tick.
Lowers == /\ steps' = steps /\ ticks' = ticks /\ attempts' \in {attempts, 0}
          /\ stage' \in DOMAIN Rank /\ stage' # "calling" /\ Rank[stage'] < Rank[stage]
Pays == /\ stage = "running" /\ steps' = steps + 1 /\ ticks' = ticks /\ attempts' = attempts
        /\ stage' \in {"calling", "stopping", "crashed"}
Reruns == /\ stage = "calling" /\ stage' = "calling" /\ attempts < ParseRetries
          /\ attempts' = attempts + 1 /\ steps' = steps /\ ticks' = ticks
Ticks == /\ ticks < HardTimeout /\ ticks' = ticks + 1
         /\ stage' = stage /\ attempts' = attempts /\ steps' = steps

LEMMA LoopMoves ==
    ASSUME Within, LoopNext
    PROVE  Lowers \/ Pays \/ Reruns \/ Ticks
<1> USE RankValues DEF Within
<1>1. CASE Launch \/ LaunchFails
  BY <1>1 DEF Launch, LaunchFails, Lowers
<1>2. CASE BeforeModel
  BY <1>2 DEF BeforeModel, Raises, Pays
<1>3. CASE ParseRejected
  BY <1>3 DEF ParseRejected, Raises, Lowers, Reruns
<1>4. CASE LoopError
  BY <1>4 DEF LoopError, Raises, Lowers
<1>5. CASE ToolCall
  <2>1. UNCHANGED <<steps, ticks, attempts>> /\ stage = "tool" /\ stage' = "running"
    BY <1>5 DEF ToolCall
  <2> QED
    BY <2>1 DEF Lowers
<1>6. CASE FinalizeGuard
  BY <1>6 DEF FinalizeGuard, StepsAtInvoke, Lowers
<1>7. CASE LogTelemetry \/ Exit
  BY <1>7 DEF LogTelemetry, Exit, Lowers
<1>8. CASE Tick
  BY <1>8 DEF Tick, Ticks
<1>9. CASE HardKill \/ AbruptDeath
  BY <1>9 DEF HardKill, AbruptDeath, InWorker, Lowers
<1>10. CASE \E next \in {"tool", "ended"} : Answer(next)
  BY <1>10 DEF Answer, Lowers
<1>11. CASE \E captured \in BOOLEAN : WorkerFailed(captured)
  BY <1>11 DEF WorkerFailed, Lowers
<1>12. CASE \E captured, harvestable \in BOOLEAN : collect_proposal(captured, harvestable)
  BY <1>12 DEF collect_proposal, Lowers
<1> QED
  BY <1>1, <1>2, <1>3, <1>4, <1>5, <1>6, <1>7, <1>8, <1>9, <1>10, <1>11, <1>12 DEF LoopNext

\* Each of them spends.
LEMMA LoopSpends ==
    ASSUME LoopInv, Within, LoopNext
    PROVE  Within' /\ Fuel' \in Nat /\ Fuel' < Fuel
<1> DEFINE price == ParseRetries + 3
           rest(n) == (StepBudget + 1 - n) * price
           left(s, a) == IF s = "calling" THEN ParseRetries - a ELSE 0
<1>1. /\ steps \in Nat /\ StepBudget \in Nat /\ ParseRetries \in Nat /\ HardTimeout \in Nat
      /\ attempts \in Nat /\ attempts <= ParseRetries /\ ticks \in Nat /\ ticks <= HardTimeout
      /\ steps <= StepBudget + 1 /\ stage \in DOMAIN Rank
  BY AgentAssumption DEF LoopInv, Counters, Within
<1>2. stage = "running" => steps <= StepBudget
  BY DEF LoopInv, StepsAreMade, Alive, BudgetHolds
<1>3. /\ Fuel = rest(steps) + Rank[stage] + left(stage, attempts) + (HardTimeout - ticks)
      /\ Fuel' = rest(steps') + Rank[stage'] + left(stage', attempts') + (HardTimeout - ticks')
  BY DEF Fuel, RetriesLeft, Rank
<1>4. \A s \in DOMAIN Rank : Rank[s] \in 0 .. 7
  BY RankValues
<1>5. price \in Nat /\ \A n \in Nat : n <= StepBudget + 1 => rest(n) \in Nat
  <2>1. ASSUME NEW n \in Nat, n <= StepBudget + 1 PROVE rest(n) \in Nat
    <3>1. StepBudget + 1 - n \in Nat /\ price \in Nat
      BY <1>1, <2>1
    <3> HIDE DEF price
    <3> QED
      BY <3>1
  <2> QED
    BY <1>1, <2>1
<1>6. steps <= StepBudget => rest(steps + 1) = rest(steps) - price
  <2> DEFINE m == StepBudget + 1 - steps
  <2>1. price \in Nat /\ m \in Int /\ StepBudget + 1 - (steps + 1) = m - 1
    BY <1>1
  <2> HIDE DEF price, m
  <2>2. (m - 1) * price = m * price - price
    BY <2>1
  <2> QED
    BY <2>1, <2>2 DEF m
<1> HIDE DEF rest
<1>7. left(stage, attempts) \in Nat
  BY <1>1
<1>8. CASE Lowers
  <2>1. /\ rest(steps') = rest(steps) /\ left(stage', attempts') = 0 /\ HardTimeout - ticks' = HardTimeout - ticks
        /\ Rank[stage'] < Rank[stage] /\ Rank[stage'] \in 0 .. 7 /\ Rank[stage] \in 0 .. 7 /\ rest(steps) \in Nat
    BY <1>1, <1>4, <1>5, <1>8 DEF Lowers
  <2>2. Within'
    BY <1>1, <1>8 DEF Lowers, Within, Rank
  <2> HIDE DEF left
  <2> QED
    BY <1>1, <1>3, <1>7, <2>1, <2>2
<1>9. CASE Pays
  <2>1. steps <= StepBudget /\ steps' = steps + 1 /\ rest(steps') = rest(steps) - price /\ rest(steps') \in Nat
        /\ rest(steps) \in Nat
    BY <1>1, <1>2, <1>5, <1>6, <1>9 DEF Pays
  <2>2. /\ Rank[stage] = 4 /\ Rank[stage'] \in 0 .. 6 /\ left(stage, attempts) = 0
        /\ left(stage', attempts') \in 0 .. ParseRetries /\ ticks' = ticks
    BY <1>1, <1>9, RankValues DEF Pays
  <2>3. Within'
    BY <1>1, <1>9, <2>1, RankValues DEF Pays, Within, Rank
  <2> HIDE DEF left
  <2> QED
    BY <1>1, <1>3, <2>1, <2>2, <2>3
<1>10. CASE Reruns
  <2>1. /\ rest(steps') = rest(steps) /\ rest(steps) \in Nat /\ Rank[stage'] = 6 /\ Rank[stage] = 6
        /\ left(stage', attempts') = ParseRetries - (attempts + 1)
        /\ left(stage, attempts) = ParseRetries - attempts /\ ticks' = ticks /\ attempts < ParseRetries
    BY <1>1, <1>5, <1>10, RankValues DEF Reruns
  <2>2. Within'
    BY <1>1, <1>10 DEF Reruns, Within, Rank
  <2> HIDE DEF left
  <2> QED
    BY <1>1, <1>3, <2>1, <2>2
<1>11. CASE Ticks
  <2>1. /\ rest(steps') = rest(steps) /\ rest(steps) \in Nat /\ Rank[stage'] = Rank[stage] /\ Rank[stage] \in 0 .. 7
        /\ left(stage', attempts') = left(stage, attempts) /\ ticks' = ticks + 1 /\ ticks < HardTimeout
    BY <1>1, <1>4, <1>5, <1>11 DEF Ticks
  <2>2. Within'
    BY <1>1, <1>11 DEF Ticks, Within, Rank
  <2> HIDE DEF left
  <2> QED
    BY <1>1, <1>3, <1>7, <2>1, <2>2
<1> QED
  BY <1>8, <1>9, <1>10, <1>11, LoopMoves

\* A cycle takes a bounded number of steps, whatever the agent does and for
\* every budget, retry count and timeout.
THEOREM CyclesAreFinite == LoopSpec => CycleIsFinite
<1>1. LoopInit => Within
  BY AgentAssumption, RankValues DEF LoopInit, Within
<1>2. LoopInv /\ Within /\ [LoopNext]_loopVars => Within'
  <2>1. ASSUME Within, UNCHANGED loopVars PROVE Within'
    BY <2>1 DEF loopVars, Within, Rank
  <2> QED
    BY <2>1, LoopSpends
<1>3. LoopInv /\ Within /\ [LoopNext]_loopVars => [Fuel' \in Nat /\ Fuel' < Fuel]_loopVars
  BY LoopSpends
<1> QED
  BY <1>1, <1>2, <1>3, LoopInvHolds, PTL DEF LoopSpec, CycleIsFinite


=============================================================================
