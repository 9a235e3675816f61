--------------------------- MODULE ContextServing ---------------------------
(***************************************************************************)
(* What the agent is given at the start of a cycle.  The context (manifest,*)
(* retrieved artifacts, digest of failed attempts) and the durable objects *)
(* are projected from the store every turn; the objects are written into a *)
(* workspace that the agent edits and that is discarded when the cycle     *)
(* ends.  The process may be restarted, perhaps with another build: the    *)
(* store is all that it finds again.                                       *)
(*                                                                         *)
(* Artifacts are numbered in the order they were proposed.  A time is the  *)
(* count of stamps the store's clock gave before it.                       *)
(***************************************************************************)
EXTENDS Integers, Sequences, FiniteSets, SequencesExt

CONSTANTS MaxCycles,      \* bound: cycles with an outcome
          MaxRestarts,    \* bound: restarts of the process
          MaxScore,       \* bound: recorded gate scores are 0 .. MaxScore
          Names,          \* the object files there are, a byte each
          ObjectSets,     \* the sets of them a submission may carry
          Presets,        \* provisioning specs tasks are configured with: names,
          StatusSpecs,    \* and mappings, by the status names in them,
          ArtifactLimits, \* their max_artifacts
          ByteLimits,     \* and max_bytes,
          Unlimited,      \* ... or no limit
          ManifestLimit, TailLimit, DigestLimit

Statuses == {"accepted", "tentative", "proposed", "revised", "superseded", "rejected"}

(* Of the specs, those that parse: any other raises, and no task is built. *)
ASSUME ContextAssumption ==
    /\ {MaxCycles, MaxRestarts, MaxScore, ManifestLimit, TailLimit, DigestLimit} \subseteq Nat
    /\ ObjectSets \subseteq SUBSET Names /\ \A objects \in ObjectSets : IsFiniteSet(objects)
    /\ \A names \in StatusSpecs : "any" \in names \/ names \subseteq Statuses
    /\ ArtifactLimits \cup ByteLimits \subseteq Nat
    /\ Unlimited \notin Nat

NoScore == -1
Kinds == {"sandbox-error", "shape-error", "gate-error"}
Gates == {"runs-clean", "improves"}
VARIABLES
    (* the store *)
    art,        \* submissions, in the order of their ids: status, time, the
                \* object files and the decisions (gate, verdict, score)
    failures,   \* cycle_failures rows: the time and the kind of failure
    contract,   \* the orientation digest recorded for the contract version
    schemas,    \* schema versions recorded
    clock,
    (* the process *)
    build,      \* the orientation it was built with
    policy,     \* the task's ObjectProvisioningPolicy
    phase,
    scratch,    \* files of the writable role: path -> content
    served,     \* the context served this cycle
    feedback,   \* the correction carried to the next cycle of this run
    cycles, restarts,
    trail       \* history: attempts that failed, in the order they did

store == <<art, failures, contract, schemas, clock>>
vars == <<store, build, policy, phase, scratch, served, feedback, cycles, restarts,
          trail>>

ids == DOMAIN art

-----------------------------------------------------------------------------
(* Provisioning policies *)

(* _PRESETS: the statuses that qualify, and how to choose among them.      *)
Preset ==
    LET cell(statuses, select) == [statuses |-> statuses, select |-> select]
        or_accepted(status) == {status, "accepted"}
    IN  [none                       |-> cell({}, "all"),
         all                        |-> cell(Statuses, "all"),
         all_accepted               |-> cell({"accepted"}, "all"),
         all_revised_or_accepted    |-> cell(or_accepted("revised"), "all"),
         all_accepted_or_superseded |-> cell(or_accepted("superseded"), "all"),
         last_accepted              |-> cell({"accepted"}, "last"),
         last_revised_or_accepted   |-> cell(or_accepted("revised"), "last"),
         best_accepted              |-> cell({"accepted"}, "best"),
         best_revised_or_accepted   |-> cell(or_accepted("revised"), "best")]

ProvisionSelect == {"all", "last", "best"}

(* _parse_statuses: one "any" among the names is every status.             *)
parse_statuses(names) == IF "any" \in names THEN Statuses ELSE names

(* provisioning_policy of a name: an unknown one is "none".                *)
NamedPolicy(name) ==
    LET p == Preset[IF name \in DOMAIN Preset THEN name ELSE "none"]
    IN  [statuses |-> p.statuses, select |-> p.select,
         max_artifacts |-> Unlimited, max_bytes |-> Unlimited]

(* ... and of a mapping, the only form to set limits.                      *)
MappedPolicies ==
    [statuses      : {parse_statuses(names) : names \in StatusSpecs},
     select        : ProvisionSelect,
     max_artifacts : ArtifactLimits \cup {Unlimited},
     max_bytes     : ByteLimits \cup {Unlimited}]

provisioning_policies == {NamedPolicy(name) : name \in Presets} \cup MappedPolicies

(* _artifact_score: the best score any gate recorded.                      *)
artifact_score(a) ==
    LET scores == {art[a].decisions[i].score : i \in DOMAIN art[a].decisions} \cup {NoScore}
    IN  CHOOSE s \in scores : \A t \in scores : t <= s

Newer(a, b) == art[a].at > art[b].at
Better(a, b) ==
    LET s == artifact_score(a)
        t == artifact_score(b)
    IN  s > t \/ (s = t /\ Newer(a, b))

(* The members of a finite set, sorted by a strict total order: the one at *)
(* place i has i - 1 before it.                                            *)
InOrder(S, Before(_, _)) ==
    [i \in 1 .. Cardinality(S) |->
        CHOOSE x \in S : Cardinality({y \in S : Before(y, x)}) = i - 1]

Prefix(s, n) == SubSeq(s, 1, IF Len(s) < n THEN Len(s) ELSE n)

(* _select: the qualifying submissions, in the order of the policy.        *)
Candidates == {a \in ids : art[a].status \in policy.statuses}

Selected ==
    CASE policy.select = "best" -> Prefix(InOrder(Candidates, Better), 1)
      [] policy.select = "last" -> Prefix(InOrder(Candidates, Newer), 1)
      [] policy.select = "all"  -> InOrder(Candidates, Newer)

(* Mutant: the byte limit is tested file by file.                          *)
AdmitTorn(acc, a) ==
    LET free == IF policy.max_bytes = Unlimited THEN Cardinality(Names)
                ELSE policy.max_bytes - acc.bytes
        part == CHOOSE n \in SUBSET art[a].objects :
                    /\ Cardinality(n) <= free
                    /\ \A m \in SUBSET art[a].objects :
                           Cardinality(m) <= free => Cardinality(m) <= Cardinality(n)
    IN  IF policy.max_artifacts # Unlimited /\ Len(acc.rows) >= policy.max_artifacts
        THEN [acc EXCEPT !.omitted = @ + 1]
        ELSE IF part = {} THEN acc
        ELSE [acc EXCEPT !.rows = Append(@, [id |-> a, files |-> part]),
                         !.bytes = @ + Cardinality(part)]

(* One round of materialize's loop: the artifact is admitted with all its  *)
(* files, passed over when it has none, or omitted.                        *)
Admit(acc, a) ==
    LET size == Cardinality(art[a].objects)
    IN  CASE policy.max_artifacts # Unlimited /\ Len(acc.rows) >= policy.max_artifacts ->
                 [acc EXCEPT !.omitted = @ + 1]
          [] OTHER ->
                 IF size = 0 THEN acc
                 ELSE IF policy.max_bytes # Unlimited /\ acc.bytes + size > policy.max_bytes
                 THEN [acc EXCEPT !.omitted = @ + 1]
                 ELSE [rows |-> Append(acc.rows, [id |-> a, files |-> art[a].objects]),
                       bytes |-> acc.bytes + size, omitted |-> acc.omitted]

(* materialize: the rows of INDEX.md and the note under them; no index     *)
(* when nothing was admitted.  One artifact's files lie flat, those of     *)
(* several each in a directory of their own.                               *)
Round[i \in 0 .. Len(Selected)] ==
    IF i = 0 THEN [rows |-> <<>>, bytes |-> 0, omitted |-> 0]
    ELSE Admit(Round[i - 1], Selected[i])

Manifested == Round[Len(Selected)]

Dir(a) == IF Len(Selected) <= 1 THEN 0 ELSE a

Paths(row) == LET dir == Dir(row.id) IN {<<dir, n>> : n \in row.files}

materialize ==
    LET rows == Manifested.rows
    IN  [p \in UNION {Paths(rows[i]) : i \in DOMAIN rows} |->
            <<rows[CHOOSE i \in DOMAIN rows : p \in Paths(rows[i])].id, p[2]>>]

index ==
    LET m == Manifested
    IN  [rows |-> m.rows, omitted |-> IF m.rows = <<>> THEN 0 ELSE m.omitted]

-----------------------------------------------------------------------------
(* The context *)

STATUS_RANK == [accepted |-> 0, tentative |-> 1, proposed |-> 2, revised |-> 3,
                superseded |-> 4, rejected |-> 5]

(* Trusted first, then recent.                                             *)
Precedes(a, b) ==
    \/ STATUS_RANK[art[a].status] < STATUS_RANK[art[b].status]
    \/ art[a].status = art[b].status /\ Newer(a, b)

(* manifest: every submission, ranked and cut.                             *)
manifest == Prefix(InOrder(ids, Precedes), ManifestLimit)

(* DefaultRetrievalPolicy.select: the ones that are not terminal.          *)
retrieved ==
    Prefix(InOrder({a \in ids : art[a].status \notin {"rejected", "superseded", "revised"}},
                        Precedes), TailLimit)

(* _rejecting_decision: the first gate that rejected; an artifact that was *)
(* rejected for being refined too often has none.                          *)
rejecting_decision(a) ==
    LET rejects == {i \in DOMAIN art[a].decisions : art[a].decisions[i].verdict = "reject"}
    IN  IF rejects = {} THEN "gate"
        ELSE art[a].decisions[CHOOSE i \in rejects : \A j \in rejects : i <= j].gate

(* Mutant: the artifacts' lines come first, then the failures'.            *)
Unmerged(x, y) == \/ x.what \in Gates /\ y.what \in Kinds
                  \/ (x.what \in Gates) = (y.what \in Gates) /\ x.at > y.at

Later(x, y) == x.at > y.at

(* _rejection_digest: rejected artifacts and failed cycles, by recency.    *)
digest_lines ==
    {[at |-> art[a].at, what |-> rejecting_decision(a)] : a \in {b \in ids : art[b].status = "rejected"}}
    \cup {failures[f] : f \in {g \in DOMAIN failures : failures[g].what # "gate-error"}}

rejection_digest == Prefix(InOrder(digest_lines, Later), DigestLimit)

-----------------------------------------------------------------------------
NotServed == [manifest |-> <<>>, tail |-> <<>>, digest |-> <<>>,
              index |-> [rows |-> <<>>, omitted |-> 0]]
Empty == [p \in {} |-> <<0, "none">>]

Init ==
    /\ art = <<>> /\ failures = <<>> /\ contract = "none" /\ schemas = 0 /\ clock = 0
    /\ build = "old" /\ phase = "down" /\ scratch = Empty /\ served = NotServed
    /\ policy \in provisioning_policies
    /\ feedback = "none" /\ cycles = 0 /\ restarts = 0 /\ trail = <<>>

(* The contract version is a constant of the kernel: recording it again is *)
(* a no-op, and refused when the orientation has changed.                  *)
register_contract_version ==
    IF contract \in {"none", build} THEN contract' = build /\ phase' = "idle"
    ELSE phase' = "refused" /\ UNCHANGED contract

(* configure: a schema version is stamped, then the contract; the same     *)
(* contract version with another orientation is refused.                   *)
configure ==
    /\ phase = "down"
    /\ schemas' = schemas + 1
    /\ register_contract_version
    /\ UNCHANGED <<art, failures, clock, build, policy, scratch, served, feedback, cycles, restarts,
                   trail>>

(* serve_context: the context is assembled, and the durable objects are    *)
(* written over the provisioned workspace.                                 *)
serve_context ==
    LET objects == materialize
    IN  /\ phase = "idle"
        /\ phase' = "served"
        /\ served' = [manifest |-> manifest, tail |-> retrieved, digest |-> rejection_digest,
                      index |-> index]
        /\ scratch' = [p \in DOMAIN scratch \cup DOMAIN objects |->
                          IF p \in DOMAIN objects THEN objects[p] ELSE scratch[p]]
        /\ UNCHANGED <<store, build, policy, feedback, cycles, restarts, trail>>

(* The agent edits what it was given and writes what it likes.             *)
AgentWorks ==
    /\ phase = "served" /\ cycles < MaxCycles
    /\ phase' = "worked"
    /\ \/ UNCHANGED scratch
       \/ scratch' = [p \in DOMAIN scratch \cup ({0} \X Names) |-> <<0, p[2]>>]
    /\ UNCHANGED <<store, build, policy, served, feedback, cycles, restarts, trail>>

(* AgentSandbox.regenerate: the workspace is discarded and provisioned.    *)
(* That it may raise and leave the old one behind is RunLoop's workspace   *)
(* fault; here it succeeds.                                                *)
Regenerated == Empty

(* The end of run_cycle, whatever came of it.                              *)
EndCycle(correction) ==
    /\ phase = "worked"
    /\ phase' = "idle" /\ cycles' = cycles + 1
    /\ scratch' = Regenerated
    /\ served' = NotServed /\ feedback' = correction
    /\ UNCHANGED <<contract, schemas, build, policy, restarts>>

(* record_cycle_failure: a cycle that left no gated artifact.  Of a gate   *)
(* that could not rule, the proposal is already in the store.              *)
FailedCycle(kind) ==
    /\ EndCycle(kind)
    /\ LET intake == kind = "gate-error"
           row == [at |-> IF intake THEN clock + 1 ELSE clock, what |-> kind]
       IN  /\ failures' = Append(failures, row)
           /\ \/ intake /\ \E objects \in ObjectSets :
                     art' = Append(art, [status |-> "proposed", at |-> clock, objects |-> objects,
                                         decisions |-> <<>>])
              \/ ~intake /\ UNCHANGED art
           /\ clock' = row.at + 1
           /\ trail' = IF intake THEN trail ELSE Append(trail, row)

Clean == [gate |-> "runs-clean", verdict |-> "accept", score |-> NoScore]
Ruling(verdict, s) == [gate |-> "improves", verdict |-> verdict, score |-> s]

(* The status a ruling leads to, and the correction it is fed back as; the *)
(* last is a refinement beyond refine_cap.  (Only the scores of accepted   *)
(* submissions are told apart.)                                            *)
Rulings ==
    {[status |-> "accepted", decisions |-> <<Clean, Ruling("accept", s)>>, correction |-> "none"] :
        s \in 0 .. MaxScore}
    \cup {[status |-> "rejected", decisions |-> <<[Clean EXCEPT !.verdict = "reject"]>>,
           correction |-> "runs-clean"],
          [status |-> "rejected", decisions |-> <<Clean, Ruling("reject", 0)>>,
           correction |-> "improves"],
          [status |-> "revised", decisions |-> <<Clean, Ruling("refine", 0)>>,
           correction |-> "refine"],
          [status |-> "rejected", decisions |-> <<Clean, Ruling("refine", 0)>>,
           correction |-> "gate"]}

(* A submission is proposed, ruled on and committed, perhaps in place of   *)
(* one accepted before it.                                                 *)
Committed(r, objects) ==
    LET new == [status |-> r.status, at |-> clock, objects |-> objects, decisions |-> r.decisions]
    IN  /\ EndCycle(r.correction)
        /\ \/ art' = Append(art, new)
           \/ r.status = "accepted" /\ \E old \in {a \in ids : art[a].status = "accepted"} :
                 art' = Append([art EXCEPT ![old].status = "superseded"], new)
        /\ clock' = clock + 1
        /\ trail' = IF r.status = "rejected"
                    THEN Append(trail, [at |-> clock, what |-> r.correction]) ELSE trail
        /\ UNCHANGED failures

(* run: another run of the configured task starts without a correction.    *)
NewRun ==
    /\ phase = "idle" /\ feedback # "none"
    /\ feedback' = "none"
    /\ UNCHANGED <<store, build, policy, phase, scratch, served, cycles, restarts, trail>>

(* The process is stopped and started, in a workspace of its own.          *)
Restart(version) ==
    /\ phase # "down" /\ restarts < MaxRestarts
    /\ restarts' = restarts + 1
    /\ build' = version /\ phase' = "down"
    /\ scratch' = Empty /\ served' = NotServed /\ feedback' = "none"
    /\ UNCHANGED <<store, policy, cycles, trail>>

Next ==
    \/ configure \/ serve_context \/ AgentWorks \/ NewRun
    \/ \E kind \in Kinds : FailedCycle(kind)
    \/ \E r \in Rulings, objects \in ObjectSets : Committed(r, objects)
    \/ \E version \in {"old", "new"} : Restart(version)

Spec == Init /\ [][Next]_vars

-----------------------------------------------------------------------------
(* Properties *)

(* The digest served is the trail of failed attempts, latest first and cut *)
(* at its limit, each with the gate or the failure that ended it, though   *)
(* it is rebuilt from two tables after a restart; and the correction that  *)
(* opens the cycle tells the same story as its first line.                 *)
(* (_rejection_digest, _feedback_from)                                     *)
DigestIsTrail ==
    phase = "served" =>
        /\ served.digest = Prefix(Reverse(trail), DigestLimit)
        /\ feedback \in {"sandbox-error", "shape-error", "gate"} \cup Gates /\ DigestLimit > 0 =>
               served.digest[1].what = feedback

(* The agent starts from the store: every file it is given is the one an   *)
(* artifact of a qualifying status was harvested with, with all the files  *)
(* of that artifact beside it and no file of two under one name, no edit   *)
(* of an earlier cycle in sight; the limits hold, and as long as anything  *)
(* is provisioned the index accounts for every artifact with files that    *)
(* was not.  (materialize, _materialize_objects, regenerate)               *)
ProvisionedFromStore ==
    phase = "served" =>
        LET given == {scratch[p][1] : p \in DOMAIN scratch}
            rows == served.index.rows
        IN  /\ \A a \in given : art[a].status \in policy.statuses
            /\ \A a \in given : {scratch[p][2] : p \in {q \in DOMAIN scratch : scratch[q][1] = a}}
                                   = art[a].objects
            /\ given = {rows[i].id : i \in DOMAIN rows}
            /\ policy.max_artifacts # Unlimited => Cardinality(given) <= policy.max_artifacts
            /\ policy.max_bytes # Unlimited => Cardinality(DOMAIN scratch) <= policy.max_bytes
            /\ policy.select = "all" /\ given # {} =>
                   served.index.omitted >= Cardinality({a \in ids \ given :
                       art[a].status \in policy.statuses /\ art[a].objects # {}})

=============================================================================
