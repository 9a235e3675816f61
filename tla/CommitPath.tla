----------------------------- MODULE CommitPath -----------------------------
(***************************************************************************)
(* The sole mutator: proposal intake (ControlPlane.submit_proposal), the   *)
(* one verifier handoff and the commit protocol (commit.run_commit) over   *)
(* the provenance store (store.SqliteStore).                               *)
(*                                                                         *)
(* A submission is several store transactions with an opaque, possibly     *)
(* failing verifier call between them, so it can stop after any of them:   *)
(* the process may crash, the gate may be unavailable, a check may raise.  *)
(* Each transaction is one step here; what is on disk survives a crash,    *)
(* where the submission had got to does not.                               *)
(***************************************************************************)
EXTENDS Lifecycle, Naturals, FiniteSets

CONSTANTS Id,          \* artifact ids
          NoId,        \* no artifact (a NULL pointer, an empty or unknown parent)
          Type,        \* artifact types of the task's schema
          RootType,    \* the types exempt from provenance
          GatedType,   \* the types the gated-type registry covers
          Identity,    \* who may have created an artifact
          Verifier,    \* the verifier's identity
          Blob,        \* object contents (content-addressed)
          RefineCap,   \* OrchestrationPolicy.refine_cap
          MaxChildren  \* bound on the children one acceptance harvests

ASSUME ConstantsAssumption ==
    /\ NoId \notin Id
    /\ RootType \subseteq Type
    /\ GatedType \subseteq Type
    /\ RefineCap \in Nat
    /\ MaxChildren \in Nat

VARIABLES
    \* the store's tables (durable)
    status,        \* [Id -> ArtifactStatus \cup {Absent}]
    row,           \* the immutable columns of an artifact and its operation edge
    decisions,     \* [Id -> SUBSET VerdictKind]
    supersededBy,  \* [Id -> Id \cup {NoId}]
    revisedBy,     \* [Id -> Id \cup {NoId}]
    stored,        \* the object store: SUBSET Blob
    \* the submission in progress (lost in a crash)
    pc,            \* "idle", "linking", "gating" or "harvesting"
    cur,           \* the artifact being committed
    exhausted,     \* refine_exhausted of that commit
    parent,        \* the accepted parent while its children are harvested
    left           \* children still to harvest

store == <<status, row, decisions, supersededBy, revisedBy, stored>>
submission == <<pc, cur, exhausted, parent, left>>
vars == <<store, submission>>

-----------------------------------------------------------------------------
(* Types *)

\* What the agent's operation may be; "harvest" edges are minted only on the
\* trusted side, "load" ones only by a task builder.
AgentOp == {"submit", "revises"}
OpName == AgentOp \cup {"harvest", "load"}

Row == [type : Type, createdBy : Identity, op : OpName,
        parent : Id \cup {NoId}, objects : SUBSET Blob]

NoRow == [type |-> NoId, createdBy |-> NoId, op |-> "none",
          parent |-> NoId, objects |-> {}]

VerdictBundle == [status : ArtifactStatus, decisions : SUBSET VerdictKind,
                  supersedes : Id \cup {NoId}]

Exists(a) == a \in Id /\ status[a] # Absent

-----------------------------------------------------------------------------
(* Reading the store *)

\* chain is a walk backwards along "revises" edges through n refined artifacts.
RevisedChain(chain, n) ==
    /\ \A i \in 1 .. n : status[chain[i]] = "revised"
    /\ \A i \in 1 .. n - 1 : row[chain[i]].op = "revises" /\ row[chain[i]].parent = chain[i + 1]

\* Mutant: the walk stops at the flagged parent, so the cap binds one id and
\* not the lineage.
ParentOnlyRefines(a, n) ==
    n <= (IF row[a].op = "revises" /\ Exists(row[a].parent) /\ status[row[a].parent] = "revised"
          THEN 1 ELSE 0)

\* _count_lineage_refines(a) >= n: from the parent that a revises, the walk gets
\* through n refined artifacts. (A parent is older than its child, so no walk
\* returns to where it was.)
lineage_refines_reach(a, n) ==
    \/ n = 0
    \/ /\ row[a].op = "revises"
       /\ \E chain \in [1 .. n -> Id] : chain[1] = row[a].parent /\ RevisedChain(chain, n)

has_provenance(a) == row[a].type \in RootType \/ row[a].op \in OpName

\* No implicit accept, and the proposer is never its own gate.
may_gate(a) ==
    /\ status[a] = "proposed"
    /\ row[a].type \in GatedType
    /\ row[a].createdBy # Verifier

-----------------------------------------------------------------------------
(* The repository's own audit of a store (invariants.audit), as the artifacts  *)
(* it reports. That ids are unique is the shape of the tables here.            *)

check_provenance ==
    {a \in Id : /\ status[a] \in {"accepted", "tentative"}
                /\ row[a].type \notin RootType
                /\ row[a].op = "none"}

\* Operations whose output is not in the store.
check_failures_retained == {a \in Id : row[a].op # "none" /\ ~Exists(a)}

check_terminal_pointers ==
    {a \in Id : \/ status[a] = "superseded" /\ ~Exists(supersededBy[a])
                \/ status[a] = "revised" /\ revisedBy[a] # NoId /\ ~Exists(revisedBy[a])}

audit == check_provenance \cup check_failures_retained \cup check_terminal_pointers

-----------------------------------------------------------------------------
(* The verdict bundle *)

\* Mutant: only reject decisions are held against the bundle's status.
RejectConsistent(b) == "reject" \in b.decisions => b.status = "rejected"

assert_consistent(b) ==
    /\ "reject" \in b.decisions => b.status = "rejected"
    /\ "refine" \in b.decisions => b.status = "revised"

terminal_status(b) ==
    IF b.status = "revised" /\ exhausted THEN "rejected" ELSE b.status

Superseding(b) == b.status = "accepted" /\ b.supersedes # NoId

\* Mutant: the incumbent's own transition is not checked.
AnyIncumbent(b) == Superseding(b) => Exists(b.supersedes)

incumbent_ok(b) ==
    Superseding(b) =>
        /\ Exists(b.supersedes)
        /\ is_legal_transition(status[b.supersedes], "superseded")

recordable(a, b) ==
    /\ may_gate(a)
    /\ assert_consistent(b)
    /\ is_legal_transition("proposed", b.status)
    /\ b.status \in {"tentative", "accepted"} => has_provenance(a)
    /\ incumbent_ok(b)

-----------------------------------------------------------------------------
(* Submissions *)

Init ==
    /\ status = [a \in Id |-> Absent]
    /\ row = [a \in Id |-> NoRow]
    /\ decisions = [a \in Id |-> {}]
    /\ supersededBy = [a \in Id |-> NoId]
    /\ revisedBy = [a \in Id |-> NoId]
    /\ stored = {}
    /\ pc = "idle"
    /\ cur = NoId
    /\ exhausted = FALSE
    /\ parent = NoId
    /\ left = 0

EndSubmission ==
    /\ pc' = "idle"
    /\ cur' = NoId
    /\ exhausted' = FALSE
    /\ parent' = NoId
    /\ left' = 0

\* Mutant: the freshness check of ids is dropped, so a row can be replaced.
OverwriteRow(a, r) ==
    /\ status' = [status EXCEPT ![a] = "proposed"]
    /\ row' = [row EXCEPT ![a] = r]
    /\ UNCHANGED <<decisions, supersededBy, revisedBy>>

\* SqliteStore.propose: the artifact and its operation edge in one
\* transaction, refused when the id is in use.
propose(a, r) ==
    /\ status[a] = Absent
    /\ status' = [status EXCEPT ![a] = "proposed"]
    /\ row' = [row EXCEPT ![a] = r]
    /\ UNCHANGED <<decisions, supersededBy, revisedBy>>

\* A task builder seeds the task's root input; nothing ever commits it.
SeedRoot(a, r) ==
    /\ pc = "idle"
    /\ r.type \in RootType /\ r.op = "load" /\ r.parent = NoId /\ r.objects = {}
    /\ propose(a, r)
    /\ UNCHANGED <<stored, submission>>

\* Mutant: the declared objects are left in the workspace.
SubmitWithoutHarvest(a, r) ==
    /\ pc = "idle"
    /\ r.op \in AgentOp
    /\ r.parent # NoId => Exists(r.parent)
    /\ propose(a, r)
    /\ pc' = "linking"
    /\ cur' = a
    /\ UNCHANGED <<stored, exhausted, parent, left>>

\* A well-shaped proposal: its declared objects are put in the object store,
\* then the row is proposed. Nothing checks the parent it names, but ids are
\* minted from uuids after it is named, so an unknown one never comes to exist:
\* it is NoId here.
SubmitProposal(a, r) ==
    /\ pc = "idle"
    /\ r.op \in AgentOp
    /\ r.parent # NoId => Exists(r.parent)
    /\ stored' = stored \cup r.objects
    /\ propose(a, r)
    /\ pc' = "linking"
    /\ cur' = a
    /\ UNCHANGED <<exhausted, parent, left>>

\* An object write fails part-way, or the id or op id is already in use: the
\* objects written so far stay in the object store and nothing is proposed.
IntakeFails(written) ==
    /\ pc = "idle"
    /\ stored' = stored \cup written
    /\ UNCHANGED <<status, row, decisions, supersededBy, revisedBy, submission>>

revises_flagged(a) ==
    row[a].op = "revises" /\ Exists(row[a].parent) /\ status[row[a].parent] = "revised"

\* Mutant: the arguments are swapped.
SwappedLink(old, new) ==
    /\ status' = [status EXCEPT ![new] = "revised"]
    /\ revisedBy' = [revisedBy EXCEPT ![new] = old]

link_revision(old, new) ==
    /\ status' = [status EXCEPT ![old] = "revised"]
    /\ revisedBy' = [revisedBy EXCEPT ![old] = new]

\* _link_revision_if_any, then the refine depth of the lineage.
LinkRevision ==
    /\ pc = "linking"
    /\ IF revises_flagged(cur)
       THEN link_revision(row[cur].parent, cur)
       ELSE UNCHANGED <<status, revisedBy>>
    /\ exhausted' = lineage_refines_reach(cur, RefineCap)
    /\ pc' = "gating"
    /\ UNCHANGED <<row, decisions, supersededBy, stored, cur, parent, left>>

\* Mutant: the incumbent is retired without a pointer to its successor.
RetireOnly(a, b) ==
    /\ decisions' = [decisions EXCEPT ![a] = @ \cup b.decisions]
    /\ status' = IF Superseding(b)
                 THEN [status EXCEPT ![a] = "accepted", ![b.supersedes] = "superseded"]
                 ELSE [status EXCEPT ![a] = terminal_status(b)]
    /\ UNCHANGED <<row, supersededBy, revisedBy, stored>>

\* The transaction of run_commit: every decision row and the terminal status.
record_bundle(a, b) ==
    /\ decisions' = [decisions EXCEPT ![a] = @ \cup b.decisions]
    /\ IF Superseding(b)
       THEN /\ status' = [status EXCEPT ![a] = "accepted", ![b.supersedes] = "superseded"]
            /\ supersededBy' = [supersededBy EXCEPT ![b.supersedes] = a]
       ELSE /\ status' = [status EXCEPT ![a] = terminal_status(b)]
            /\ UNCHANGED supersededBy
    /\ UNCHANGED <<row, revisedBy, stored>>

\* Mutant: the decision rows are committed before a check rolls the rest back.
DecisionsSurviveFailure(b) ==
    /\ decisions' = [decisions EXCEPT ![cur] = @ \cup b.decisions]
    /\ UNCHANGED <<status, row, supersededBy, revisedBy, stored>>

\* A bundle that cannot be recorded: the transaction is rolled back.
roll_back(b) == UNCHANGED store

\* The bundle of the submitted proposal is recorded. An acceptance goes on to
\* harvest the children its domain declares, any other outcome ends here.
CommitProposal(b) ==
    /\ pc = "gating"
    /\ parent = NoId
    /\ recordable(cur, b)
    /\ record_bundle(cur, b)
    /\ IF b.status = "accepted"
       THEN /\ pc' = "harvesting"
            /\ parent' = cur
            /\ cur' = NoId
            /\ exhausted' = FALSE
            /\ left' \in 0 .. MaxChildren
       ELSE EndSubmission

\* The bundle of a harvested child is recorded; a child harvests none itself.
CommitChild(b) ==
    /\ pc = "gating"
    /\ parent # NoId
    /\ recordable(cur, b)
    /\ record_bundle(cur, b)
    /\ pc' = "harvesting"
    /\ cur' = NoId
    /\ left' = left - 1
    /\ UNCHANGED <<exhausted, parent>>

\* The commit raises: the type is not gated, the proposer is the gate, the
\* bundle is inconsistent, illegal, or names a wrong incumbent. A failure
\* while harvesting a child is swallowed and ends the harvest.
CommitRefused(b) ==
    /\ pc = "gating"
    /\ ~recordable(cur, b)
    /\ roll_back(b)
    /\ EndSubmission

\* The gate cannot answer (infrastructure, a timed-out handoff): no bundle.
GateUnavailable ==
    /\ pc = "gating"
    /\ UNCHANGED store
    /\ EndSubmission

\* Mutant: one child more than was declared is minted.
HarvestOneMore(c, t) ==
    /\ pc = "harvesting"
    /\ propose(c, [type |-> t, createdBy |-> row[parent].createdBy, op |-> "harvest",
                   parent |-> parent, objects |-> row[parent].objects])
    /\ pc' = "gating"
    /\ cur' = c
    /\ exhausted' = FALSE
    /\ UNCHANGED <<stored, parent, left>>

\* The next child of the accepted parent is minted and handed to its gate; no
\* refine cap applies to it.
HarvestChild(c, t) ==
    /\ pc = "harvesting"
    /\ left > 0
    /\ propose(c, [type |-> t, createdBy |-> row[parent].createdBy, op |-> "harvest",
                   parent |-> parent, objects |-> row[parent].objects])
    /\ pc' = "gating"
    /\ cur' = c
    /\ exhausted' = FALSE
    /\ UNCHANGED <<stored, parent, left>>

\* No child is left, or reading the parent's objects or proposing a child
\* raised: either way the parent's acceptance stands.
HarvestEnds ==
    /\ pc = "harvesting"
    /\ UNCHANGED store
    /\ EndSubmission

\* The process dies between two transactions and is started again.
Crash ==
    /\ pc # "idle"
    /\ UNCHANGED store
    /\ EndSubmission

Next ==
    \/ \E a \in Id, r \in Row : SeedRoot(a, r) \/ SubmitProposal(a, r)
    \/ \E written \in SUBSET Blob : IntakeFails(written)
    \/ LinkRevision
    \/ \E b \in VerdictBundle : CommitProposal(b) \/ CommitChild(b) \/ CommitRefused(b)
    \/ GateUnavailable
    \/ \E c \in Id, t \in Type : HarvestChild(c, t)
    \/ HarvestEnds
    \/ Crash

Spec == Init /\ [][Next]_vars

-----------------------------------------------------------------------------
(* Properties *)

\* Every variable keeps the type of its table column or local variable.
TypeOK ==
    /\ status \in [Id -> ArtifactStatus \cup {Absent}]
    /\ row \in [Id -> Row \cup {NoRow}]
    /\ decisions \in [Id -> SUBSET VerdictKind]
    /\ supersededBy \in [Id -> Id \cup {NoId}]
    /\ revisedBy \in [Id -> Id \cup {NoId}]
    /\ stored \subseteq Blob
    /\ pc \in {"idle", "linking", "gating", "harvesting"}
    /\ cur \in Id \cup {NoId}
    /\ exhausted \in BOOLEAN
    /\ parent \in Id \cup {NoId}
    /\ left \in 0 .. MaxChildren

\* Decision rows land with the terminal status or not at all (run_commit's
\* transaction): whatever stopped the submission, a gate that failed, a check
\* that raised or a crash, no artifact still proposed carries a decision.
DecisionsLandWithStatus ==
    \A a \in Id : status[a] \in {Absent, "proposed"} => decisions[a] = {}

\* A recorded reject or refine is never overturned: the artifact is not
\* accepted, left tentative, or named as the incumbent of a later acceptance
\* (assert_consistent together with the transition check on incumbents).
VerdictsStand ==
    \A a \in Id :
        /\ "reject" \in decisions[a] => status[a] = "rejected"
        /\ "refine" \in decisions[a] => status[a] \in {"revised", "rejected"}

\* No artifact of an ungated type, and none the verifier itself created, ever
\* leaves "proposed", as a submission, a harvested child or an incumbent.
GatedByAnother ==
    \A a \in Id :
        status[a] \notin {Absent, "proposed"} =>
            row[a].type \in GatedType /\ row[a].createdBy # Verifier

\* The supersession pointers: exactly the superseded artifacts have one, it
\* names an artifact that was accepted (and may itself have been superseded
\* since), and no two artifacts were superseded by the same one.
SupersessionSound ==
    /\ \A a \in Id : status[a] = "superseded" <=> supersededBy[a] # NoId
    /\ \A a \in Id : supersededBy[a] # NoId =>
           status[supersededBy[a]] \in {"accepted", "superseded"}
    /\ \A a, b \in Id : supersededBy[a] = supersededBy[b] /\ supersededBy[a] # NoId => a = b

\* Following the supersession pointers from a superseded artifact leads to an
\* accepted one: whatever set holds a superseded artifact and, with each
\* artifact, the one its pointer names, holds an accepted one. The chain of
\* incumbents never closes on itself and never breaks off.
ChainsEndAccepted ==
    \A S \in SUBSET Id :
        /\ \E a \in S : status[a] = "superseded"
        /\ \A a \in S : supersededBy[a] # NoId => supersededBy[a] \in S
        => \E a \in S : status[a] = "accepted"

\* A revision pointer is only ever set on a refined artifact, and names a
\* proposal made to revise that very artifact, even when several revisions of
\* it were proposed or the process died before the revision was gated.
RevisionLinkSound ==
    \A a \in Id : revisedBy[a] # NoId =>
        /\ status[a] = "revised"
        /\ Exists(revisedBy[a])
        /\ row[revisedBy[a]].op = "revises"
        /\ row[revisedBy[a]].parent = a

\* A lineage linked by "revises" operations is sent back to refine at most
\* refine_cap times: there is no longer walk through refined artifacts, however
\* the lineage branched and wherever the process died. (The cap is not
\* consulted for a harvested child, so its own refine is not counted.)
RefineCapHolds ==
    \A chain \in [1 .. RefineCap + 1 -> Id] :
        RevisedChain(chain, RefineCap + 1) => row[chain[1]].op = "harvest"

\* Every object an artifact of the store refers to can be read back, whatever
\* failed between writing the objects and proposing the artifact.
ObjectsResolve ==
    \A a \in Id : row[a].objects \subseteq stored

\* A harvested child hangs off an artifact that was accepted; a parent that
\* is rejected, refined or still undecided never has children.
HarvestedFromAccepted ==
    \A c \in Id : row[c].op = "harvest" =>
        /\ Exists(row[c].parent)
        /\ status[row[c].parent] \in {"accepted", "superseded"}

\* What a row refers to is there and stands: its objects, and the artifact it
\* was harvested from, whichever step of the intake failed or was the last.
ReferencesSound == ObjectsResolve /\ HarvestedFromAccepted

\* The repository's audit reports nothing, whenever it is run: between any two
\* transactions of a submission and after any crash or failure.
AuditClean == audit = {}

\* What one step may do to the tables: add to them.
GrowsOnly ==
    /\ \A a \in Id : status[a] \in TERMINAL_STATUSES => status'[a] = status[a]
    /\ \A a \in Id : status[a] # Absent => row'[a] = row[a]
    /\ \A a \in Id : status[a] \notin {Absent, "proposed"} => decisions'[a] = decisions[a]
    /\ \A a \in Id : supersededBy[a] # NoId => supersededBy'[a] = supersededBy[a]
    /\ stored \subseteq stored'

\* The record only grows: a terminal status is retained for ever, the columns
\* of an artifact never change once it is proposed, its decisions never once
\* it left "proposed", a supersession pointer never once set, and no object
\* disappears.
AppendOnly == [][GrowsOnly]_vars

\* The commit path implements the ledger its readers rely on.
Ledger == INSTANCE ArtifactLedger WITH verdicts <- decisions

\* Every step of intake and commit is an Enter, a Judge, a Replace or no
\* change at all to the statuses and verdicts a reader sees.
ImplementsLedger == Ledger!LedgerSpec
==============================================================================
