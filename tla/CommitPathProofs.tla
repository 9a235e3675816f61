-------------------------- MODULE CommitPathProofs --------------------------
(***************************************************************************)
(* TLAPS proofs about CommitPath, for any set of ids, types, identities    *)
(* and objects and any refine cap.                                         *)
(*                                                                         *)
(* The safety properties are not inductive by themselves: they need to     *)
(* know that a submission in flight works on an artifact that is still     *)
(* proposed (so its commit cannot judge it twice), that the parent of a    *)
(* harvest stays accepted or superseded, and which rows the table has.     *)
(* The two about chains also need the order of creation: nothing descends  *)
(* from the artifact being committed, so a refine extends a walk at its    *)
(* head only, where the cap was looked up.                                 *)
(***************************************************************************)
EXTENDS CommitPath, TLAPS

USE ConstantsAssumption

\* An id has a row exactly when it has a status.
RowsPresent ==
    \A a \in Id : IF status[a] = Absent THEN row[a] = NoRow ELSE row[a] \in Row

\* The submission in flight works on a proposed artifact; a harvest in
\* progress belongs to a parent that was accepted.
InFlight ==
    /\ pc \in {"linking", "gating"} => cur \in Id /\ status[cur] = "proposed"
    /\ pc \in {"idle", "linking"} => parent = NoId
    /\ pc = "harvesting" => parent # NoId
    /\ parent # NoId => status[parent] \in {"accepted", "superseded"}
    /\ pc = "gating" /\ parent # NoId => left > 0

\* What every transaction preserves of the tables.
StoreInv ==
    /\ RowsPresent
    /\ DecisionsLandWithStatus
    /\ VerdictsStand
    /\ GatedByAnother
    /\ SupersessionSound
    /\ RevisionLinkSound
    /\ ObjectsResolve
    /\ HarvestedFromAccepted

IInv == TypeOK /\ InFlight /\ StoreInv

-----------------------------------------------------------------------------
(* The three kinds of transaction *)

\* Proposing a fresh row (store.propose), for a root, a submission or a
\* harvested child, keeps the store sound.
LEMMA ProposeKeepsStore ==
    ASSUME TypeOK, StoreInv, NEW a \in Id, NEW r \in Row, propose(a, r),
           stored \cup r.objects \subseteq stored',
           r.op = "harvest" =>
               r.parent \in Id /\ status[r.parent] \in {"accepted", "superseded"}
    PROVE  StoreInv'
<1> USE DEF TypeOK, StoreInv, propose, Exists, Absent, ArtifactStatus, VerdictKind
<1>1. \A x \in Id : x # a => status'[x] = status[x] /\ row'[x] = row[x]
  OBVIOUS
<1>2. status[a] = Absent /\ status'[a] = "proposed" /\ row'[a] = r
  OBVIOUS
<1>3. RowsPresent'
  BY <1>1, <1>2 DEF RowsPresent
<1>4. DecisionsLandWithStatus'
  BY <1>1, <1>2 DEF DecisionsLandWithStatus
<1>5. VerdictsStand'
  BY <1>1, <1>2 DEF VerdictsStand, DecisionsLandWithStatus
<1>6. GatedByAnother'
  BY <1>1, <1>2 DEF GatedByAnother
<1>7. SupersessionSound'
  BY <1>1, <1>2 DEF SupersessionSound
<1>8. RevisionLinkSound'
  BY <1>1, <1>2 DEF RevisionLinkSound
<1>9. ObjectsResolve'
  BY <1>1, <1>2 DEF ObjectsResolve
<1>10. HarvestedFromAccepted'
  BY <1>1, <1>2 DEF HarvestedFromAccepted
<1> QED
  BY <1>3, <1>4, <1>5, <1>6, <1>7, <1>8, <1>9, <1>10

\* Recording a bundle (run_commit's transaction) keeps the store sound, and
\* what was accepted or superseded stays so.
LEMMA RecordKeepsStore ==
    ASSUME TypeOK, StoreInv, NEW b \in VerdictBundle, cur \in Id,
           recordable(cur, b), record_bundle(cur, b)
    PROVE  /\ StoreInv'
           /\ status' \in [Id -> ArtifactStatus \cup {Absent}]
           /\ decisions' \in [Id -> SUBSET VerdictKind]
           /\ supersededBy' \in [Id -> Id \cup {NoId}]
           /\ \A x \in Id : status[x] \in {"accepted", "superseded"} =>
                  status'[x] \in {"accepted", "superseded"}
           /\ b.status = "accepted" => status'[cur] = "accepted"
<1> DEFINE old == b.supersedes
<1> USE DEF TypeOK, StoreInv, Exists, Absent, ArtifactStatus, VerdictKind
<1>1. /\ b.status \in ArtifactStatus /\ b.decisions \in SUBSET VerdictKind
      /\ old \in Id \cup {NoId}
  BY DEF VerdictBundle
<1>2. /\ status[cur] = "proposed" /\ row[cur].type \in GatedType /\ row[cur].createdBy # Verifier
      /\ assert_consistent(b)
      /\ b.status \in {"tentative", "accepted", "rejected", "revised"}
  BY <1>1 DEF recordable, may_gate, is_legal_transition, LEGAL_TRANSITIONS
<1>3. decisions[cur] = {} /\ decisions'[cur] = b.decisions
  BY <1>1, <1>2 DEF record_bundle, DecisionsLandWithStatus
<1>4. \A x \in Id : x # cur => decisions'[x] = decisions[x]
  BY DEF record_bundle
<1>5. row' = row /\ revisedBy' = revisedBy /\ stored' = stored
  BY DEF record_bundle
<1>6. decisions' \in [Id -> SUBSET VerdictKind]
  BY <1>1 DEF record_bundle
<1>7. terminal_status(b) \in {"tentative", "accepted", "rejected", "revised"}
      /\ (b.status = "accepted" => terminal_status(b) = "accepted")
      /\ ("reject" \in b.decisions => terminal_status(b) = "rejected")
      /\ ("refine" \in b.decisions => terminal_status(b) \in {"revised", "rejected"})
  BY <1>2 DEF terminal_status, assert_consistent
<1>8. CASE ~Superseding(b)
  <2>1. /\ status' = [status EXCEPT ![cur] = terminal_status(b)]
        /\ supersededBy' = supersededBy
    BY <1>8 DEF record_bundle
  <2>2. status'[cur] = terminal_status(b) /\ \A x \in Id : x # cur => status'[x] = status[x]
    BY <2>1
  <2>3. RowsPresent'
    BY <1>2, <1>5, <1>7, <2>2 DEF RowsPresent
  <2>4. DecisionsLandWithStatus'
    BY <1>4, <1>7, <2>2 DEF DecisionsLandWithStatus
  <2>5. VerdictsStand'
    BY <1>3, <1>4, <1>7, <2>2 DEF VerdictsStand
  <2>6. GatedByAnother'
    BY <1>2, <1>5, <2>2 DEF GatedByAnother
  <2>7. SupersessionSound'
    BY <1>2, <1>7, <2>1, <2>2 DEF SupersessionSound
  <2>8. RevisionLinkSound'
    BY <1>2, <1>5, <1>7, <2>2 DEF RevisionLinkSound
  <2>9. ObjectsResolve' /\ HarvestedFromAccepted'
    BY <1>2, <1>5, <1>7, <2>2 DEF ObjectsResolve, HarvestedFromAccepted
  <2> QED
    BY <1>2, <1>6, <1>7, <2>1, <2>2, <2>3, <2>4, <2>5, <2>6, <2>7, <2>8, <2>9
<1>9. CASE Superseding(b)
  <2>1. /\ old \in Id /\ status[old] \in {"tentative", "accepted"} /\ old # cur
        /\ b.status = "accepted"
    BY <1>1, <1>2, <1>9
       DEF recordable, incumbent_ok, Superseding, is_legal_transition, LEGAL_TRANSITIONS
  <2>2. /\ status' = [status EXCEPT ![cur] = "accepted", ![old] = "superseded"]
        /\ supersededBy' = [supersededBy EXCEPT ![old] = cur]
    BY <1>9 DEF record_bundle
  <2>3. /\ status'[cur] = "accepted" /\ status'[old] = "superseded"
        /\ \A x \in Id : x # cur /\ x # old => status'[x] = status[x]
        /\ supersededBy'[old] = cur
        /\ \A x \in Id : x # old => supersededBy'[x] = supersededBy[x]
    BY <2>1, <2>2
  <2>4. "reject" \notin b.decisions /\ "refine" \notin b.decisions
    BY <1>2, <2>1 DEF assert_consistent
  <2>5. RowsPresent'
    BY <1>2, <1>5, <2>1, <2>3 DEF RowsPresent
  <2>6. DecisionsLandWithStatus'
    BY <1>4, <2>3 DEF DecisionsLandWithStatus
  <2>7. VerdictsStand'
    BY <1>3, <1>4, <2>1, <2>3, <2>4 DEF VerdictsStand
  <2>8. GatedByAnother'
    BY <1>2, <1>5, <2>1, <2>3 DEF GatedByAnother
  <2>9. SupersessionSound'
    <3>1. supersededBy[old] = NoId /\ \A x \in Id : supersededBy[x] # cur
      BY <1>2, <2>1 DEF SupersessionSound
    <3>2. \A x \in Id : status'[x] = "superseded" <=> supersededBy'[x] # NoId
      BY <1>2, <2>1, <2>3 DEF SupersessionSound
    <3>3. \A x \in Id : supersededBy'[x] # NoId =>
             status'[supersededBy'[x]] \in {"accepted", "superseded"}
      BY <1>2, <2>1, <2>3 DEF SupersessionSound
    <3>4. \A x, y \in Id :
             supersededBy'[x] = supersededBy'[y] /\ supersededBy'[x] # NoId => x = y
      BY <2>3, <3>1 DEF SupersessionSound
    <3> QED
      BY <3>2, <3>3, <3>4 DEF SupersessionSound
  <2>10. RevisionLinkSound'
    BY <1>2, <1>5, <2>1, <2>3 DEF RevisionLinkSound
  <2>11. ObjectsResolve' /\ HarvestedFromAccepted'
    BY <1>2, <1>5, <2>1, <2>3 DEF ObjectsResolve, HarvestedFromAccepted
  <2>12. \A x \in Id : status[x] \in {"accepted", "superseded"} =>
             status'[x] \in {"accepted", "superseded"}
    BY <2>3
  <2>13. /\ status' \in [Id -> ArtifactStatus \cup {Absent}]
         /\ supersededBy' \in [Id -> Id \cup {NoId}]
    BY <2>2
  <2> QED
    BY <1>6, <2>3, <2>5, <2>6, <2>7, <2>8, <2>9, <2>10, <2>11, <2>12, <2>13
<1> QED
  BY <1>8, <1>9

\* Pointing a refined artifact at its revision keeps the store sound.
LEMMA LinkKeepsStore ==
    ASSUME TypeOK, StoreInv, InFlight, LinkRevision
    PROVE  /\ StoreInv' /\ revisedBy' \in [Id -> Id \cup {NoId}]
           /\ UNCHANGED <<status, row, decisions, supersededBy, stored>>
<1> USE DEF TypeOK, StoreInv, InFlight, LinkRevision, Exists, Absent
<1>1. /\ cur \in Id /\ status[cur] = "proposed"
      /\ UNCHANGED <<row, decisions, supersededBy, stored>>
  OBVIOUS
<1>2. RevisionLinkSound' /\ revisedBy' \in [Id -> Id \cup {NoId}] /\ status' = status
  <2>1. CASE ~revises_flagged(cur)
    BY <1>1, <2>1 DEF RevisionLinkSound
  <2>2. CASE revises_flagged(cur)
    <3>1. /\ row[cur].parent \in Id /\ status[row[cur].parent] = "revised"
          /\ row[cur].op = "revises"
      BY <2>2 DEF revises_flagged
    <3>2. /\ revisedBy' = [revisedBy EXCEPT ![row[cur].parent] = cur]
          /\ status' = [status EXCEPT ![row[cur].parent] = "revised"]
      BY <2>2 DEF link_revision
    <3>3. status' = status
      BY <3>1, <3>2
    <3> QED
      BY <1>1, <3>1, <3>2, <3>3 DEF RevisionLinkSound
  <2> QED
    BY <2>1, <2>2
<1>3. RowsPresent' /\ DecisionsLandWithStatus' /\ VerdictsStand' /\ GatedByAnother'
  BY <1>1, <1>2 DEF RowsPresent, DecisionsLandWithStatus, VerdictsStand, GatedByAnother
<1>4. SupersessionSound' /\ ObjectsResolve' /\ HarvestedFromAccepted'
  BY <1>1, <1>2 DEF SupersessionSound, ObjectsResolve, HarvestedFromAccepted
<1> QED
  BY <1>1, <1>2, <1>3, <1>4

\* A step that touches no table keeps the store sound.
LEMMA StutterKeepsStore ==
    ASSUME StoreInv, UNCHANGED <<status, row, decisions, supersededBy, revisedBy>>,
           stored \subseteq stored'
    PROVE  StoreInv'
  BY DEF StoreInv, RowsPresent, DecisionsLandWithStatus, VerdictsStand, GatedByAnother,
         SupersessionSound, RevisionLinkSound, ObjectsResolve, HarvestedFromAccepted, Exists

\* Ending a submission leaves its variables well typed and nothing in flight.
LEMMA EndIsIdle ==
    ASSUME EndSubmission
    PROVE  /\ pc' \in {"idle", "linking", "gating", "harvesting"}
           /\ cur' \in Id \cup {NoId} /\ parent' \in Id \cup {NoId}
           /\ exhausted' \in BOOLEAN /\ left' \in 0 .. MaxChildren
           /\ InFlight'
<1>1. left' \in 0 .. MaxChildren
  BY DEF EndSubmission
<1>2. exhausted' \in BOOLEAN
  BY DEF EndSubmission
<1>3. InFlight'
  BY DEF EndSubmission, InFlight
<1> QED
  BY <1>1, <1>2, <1>3 DEF EndSubmission

-----------------------------------------------------------------------------
(* The inductive invariant *)

\* Initially there is no artifact and no submission.
LEMMA InitIInv == Init => IInv
<1> SUFFICES ASSUME Init PROVE IInv
  OBVIOUS
<1> USE DEF Init, Absent
<1>1. left \in 0 .. MaxChildren
  BY DEF ConstantsAssumption
<1>2. exhausted \in BOOLEAN
  OBVIOUS
<1>3. TypeOK /\ InFlight
  BY <1>1, <1>2 DEF TypeOK, InFlight, ArtifactStatus
<1>4. \A a \in Id : /\ status[a] = Absent /\ row[a] = NoRow /\ decisions[a] = {}
                   /\ supersededBy[a] = NoId /\ revisedBy[a] = NoId
  OBVIOUS
<1>5. NoRow.op # "harvest" /\ NoRow.objects = {}
  BY DEF NoRow
<1>6. StoreInv
  BY <1>4, <1>5 DEF StoreInv, RowsPresent, DecisionsLandWithStatus, VerdictsStand,
     GatedByAnother, SupersessionSound, RevisionLinkSound, ObjectsResolve,
     HarvestedFromAccepted
<1> QED
  BY <1>3, <1>6 DEF IInv

\* Every step of intake, commit, harvest, and every failure and crash,
\* preserves the inductive invariant.
LEMMA StepIInv == IInv /\ [Next]_vars => IInv'
<1> SUFFICES ASSUME IInv, [Next]_vars PROVE IInv'
  OBVIOUS
<1> USE DEF IInv
<1>1. ASSUME NEW a \in Id, NEW r \in Row, SeedRoot(a, r) PROVE IInv'
  <2>1. /\ propose(a, r) /\ stored' = stored /\ r.objects = {} /\ r.op # "harvest"
        /\ UNCHANGED <<submission>>
    BY <1>1 DEF SeedRoot
  <2>2. StoreInv'
    BY <2>1, ProposeKeepsStore
  <2>3. TypeOK' /\ InFlight'
    BY <2>1 DEF TypeOK, InFlight, propose, submission, ArtifactStatus, Absent
  <2> QED
    BY <2>2, <2>3
<1>2. ASSUME NEW a \in Id, NEW r \in Row, SubmitProposal(a, r) PROVE IInv'
  <2>1. /\ pc = "idle" /\ propose(a, r) /\ stored' = stored \cup r.objects
        /\ r.op # "harvest" /\ r.objects \subseteq Blob
        /\ pc' = "linking" /\ cur' = a /\ UNCHANGED <<exhausted, parent, left>>
    BY <1>2 DEF SubmitProposal, AgentOp, Row
  <2>2. StoreInv'
    BY <2>1, ProposeKeepsStore
  <2>3. TypeOK'
    BY <2>1 DEF TypeOK, propose, ArtifactStatus
  <2>4. InFlight'
    BY <2>1 DEF TypeOK, InFlight, propose
  <2> QED
    BY <2>2, <2>3, <2>4
<1>3. ASSUME NEW written \in SUBSET Blob, IntakeFails(written) PROVE IInv'
  <2>1. StoreInv'
    BY <1>3, StutterKeepsStore DEF IntakeFails
  <2>2. TypeOK' /\ InFlight'
    BY <1>3 DEF IntakeFails, submission, TypeOK, InFlight
  <2> QED
    BY <2>1, <2>2
<1>4. ASSUME LinkRevision PROVE IInv'
  <2>1. /\ StoreInv' /\ revisedBy' \in [Id -> Id \cup {NoId}]
        /\ UNCHANGED <<status, row, decisions, supersededBy, stored>>
    BY <1>4, LinkKeepsStore
  <2>2. exhausted' \in BOOLEAN
    BY <1>4 DEF LinkRevision, lineage_refines_reach
  <2>3. TypeOK' /\ InFlight'
    BY <1>4, <2>1, <2>2 DEF LinkRevision, TypeOK, InFlight
  <2> QED
    BY <2>1, <2>3
<1>5. ASSUME NEW b \in VerdictBundle, CommitProposal(b) PROVE IInv'
  <2>1. /\ cur \in Id /\ recordable(cur, b) /\ record_bundle(cur, b)
        /\ parent = NoId /\ status[cur] = "proposed"
    BY <1>5 DEF CommitProposal, InFlight
  <2>2. /\ StoreInv' /\ status' \in [Id -> ArtifactStatus \cup {Absent}]
        /\ decisions' \in [Id -> SUBSET VerdictKind]
        /\ supersededBy' \in [Id -> Id \cup {NoId}]
        /\ b.status = "accepted" => status'[cur] = "accepted"
    BY <2>1, RecordKeepsStore
  <2>3. UNCHANGED <<row, revisedBy, stored>>
    BY <2>1 DEF record_bundle
  <2>4. CASE b.status = "accepted"
    <3>1. /\ pc' = "harvesting" /\ parent' = cur /\ cur' = NoId
          /\ exhausted' = FALSE /\ left' \in 0 .. MaxChildren
      BY <1>5, <2>4 DEF CommitProposal
    <3> QED
      BY <2>1, <2>2, <2>3, <2>4, <3>1 DEF TypeOK, InFlight
  <2>5. CASE b.status # "accepted"
    <3>1. EndSubmission
      BY <1>5, <2>5 DEF CommitProposal
    <3> QED
      BY <2>2, <2>3, <3>1, EndIsIdle DEF TypeOK
  <2> QED
    BY <2>4, <2>5
<1>6. ASSUME NEW b \in VerdictBundle, CommitChild(b) PROVE IInv'
  <2>1. /\ cur \in Id /\ recordable(cur, b) /\ record_bundle(cur, b)
        /\ parent \in Id /\ status[parent] \in {"accepted", "superseded"}
        /\ left \in 1 .. MaxChildren
    BY <1>6 DEF CommitChild, InFlight, TypeOK
  <2>2. /\ StoreInv' /\ status' \in [Id -> ArtifactStatus \cup {Absent}]
        /\ decisions' \in [Id -> SUBSET VerdictKind]
        /\ supersededBy' \in [Id -> Id \cup {NoId}]
        /\ status'[parent] \in {"accepted", "superseded"}
    BY <2>1, RecordKeepsStore
  <2>3. /\ UNCHANGED <<row, revisedBy, stored>>
        /\ pc' = "harvesting" /\ cur' = NoId /\ left' = left - 1 /\ UNCHANGED <<exhausted, parent>>
    BY <1>6, <2>1 DEF CommitChild, record_bundle
  <2>4. left' \in 0 .. MaxChildren
    BY <2>1, <2>3
  <2> QED
    BY <2>1, <2>2, <2>3, <2>4 DEF TypeOK, InFlight
<1>7. ASSUME UNCHANGED store, EndSubmission PROVE IInv'
  <2>1. StoreInv'
    BY <1>7, StutterKeepsStore DEF store
  <2>2. TypeOK' /\ InFlight'
    BY <1>7, EndIsIdle DEF store, TypeOK
  <2> QED
    BY <2>1, <2>2
<1>8. ASSUME NEW c \in Id, NEW t \in Type, HarvestChild(c, t) PROVE IInv'
  <2> DEFINE r == [type |-> t, createdBy |-> row[parent].createdBy, op |-> "harvest",
                   parent |-> parent, objects |-> row[parent].objects]
  <2>1. /\ pc = "harvesting" /\ left > 0 /\ propose(c, r) /\ stored' = stored
        /\ pc' = "gating" /\ cur' = c /\ exhausted' = FALSE /\ UNCHANGED <<parent, left>>
    BY <1>8 DEF HarvestChild
  <2>2. parent \in Id /\ status[parent] \in {"accepted", "superseded"} /\ row[parent] \in Row
    BY <2>1 DEF InFlight, TypeOK, StoreInv, RowsPresent, Absent
  <2>3. r \in Row /\ r.objects \subseteq stored /\ r.parent = parent
    BY <2>2 DEF Row, OpName, StoreInv, ObjectsResolve
  <2>4. StoreInv'
    BY <2>1, <2>2, <2>3, ProposeKeepsStore
  <2>5. TypeOK'
    BY <2>1, <2>3 DEF TypeOK, propose, ArtifactStatus
  <2>6. InFlight'
    BY <2>1, <2>2 DEF TypeOK, InFlight, propose, Absent
  <2> QED
    BY <2>4, <2>5, <2>6
<1>9. CASE UNCHANGED vars
  <2>1. StoreInv'
    BY <1>9, StutterKeepsStore DEF vars, store
  <2>2. TypeOK' /\ InFlight'
    BY <1>9 DEF vars, store, submission, TypeOK, InFlight
  <2> QED
    BY <2>1, <2>2
<1>10. ASSUME NEW b \in VerdictBundle, CommitRefused(b) PROVE IInv'
  BY <1>10, <1>7 DEF CommitRefused, roll_back
<1>11. CASE GateUnavailable \/ HarvestEnds \/ Crash
  BY <1>11, <1>7 DEF GateUnavailable, HarvestEnds, Crash
<1> QED
  BY <1>1, <1>2, <1>3, <1>4, <1>5, <1>6, <1>8, <1>9, <1>10, <1>11 DEF Next

\* The inductive invariant holds of every reachable state.
LEMMA Invariance == Spec => []IInv
  BY InitIInv, StepIInv, PTL DEF Spec

-----------------------------------------------------------------------------
(* The theorems *)

\* Every table and local variable keeps its type.
THEOREM TypeCorrect == Spec => []TypeOK
<1>1. IInv => TypeOK
  BY DEF IInv
<1> QED
  BY <1>1, Invariance, PTL

\* Decision rows and the terminal status are all-or-nothing.
THEOREM DecisionsAtomic == Spec => []DecisionsLandWithStatus
<1>1. IInv => DecisionsLandWithStatus
  BY DEF IInv, StoreInv
<1> QED
  BY <1>1, Invariance, PTL

\* A recorded reject or refine is never overturned.
THEOREM NoOverturnedVerdict == Spec => []VerdictsStand
<1>1. IInv => VerdictsStand
  BY DEF IInv, StoreInv
<1> QED
  BY <1>1, Invariance, PTL

\* No implicit accept, and the proposer is never its own gate.
THEOREM NeverSelfGated == Spec => []GatedByAnother
<1>1. IInv => GatedByAnother
  BY DEF IInv, StoreInv
<1> QED
  BY <1>1, Invariance, PTL

\* Supersession is a one-to-one map onto artifacts that were accepted.
THEOREM PointersSound == Spec => []SupersessionSound
<1>1. IInv => SupersessionSound
  BY DEF IInv, StoreInv
<1> QED
  BY <1>1, Invariance, PTL

\* Revision pointers are set on refined artifacts only and name revisions of
\* their owner.
THEOREM RevisionsSound == Spec => []RevisionLinkSound
<1>1. IInv => RevisionLinkSound
  BY DEF IInv, StoreInv
<1> QED
  BY <1>1, Invariance, PTL

\* Children hang only off accepted parents.
THEOREM HarvestSound == Spec => []HarvestedFromAccepted
<1>1. IInv => HarvestedFromAccepted
  BY DEF IInv, StoreInv
<1> QED
  BY <1>1, Invariance, PTL

\* Every object a row refers to is in the object store.
THEOREM ObjectsStored == Spec => []ObjectsResolve
<1>1. IInv => ObjectsResolve
  BY DEF IInv, StoreInv
<1> QED
  BY <1>1, Invariance, PTL

\* What a row refers to, its objects and the parent it was harvested from, is
\* in the store and stands, for any objects, children, failures and crashes.
THEOREM ReferencesAreSound == Spec => []ReferencesSound
<1>1. ObjectsResolve /\ HarvestedFromAccepted => ReferencesSound
  BY DEF ReferencesSound
<1> QED
  BY <1>1, ObjectsStored, HarvestSound, PTL

\* The repository's audit of a store reports nothing, whatever failed and
\* wherever the process died: rows come with their operation, and both kinds
\* of replacement pointer name rows.
THEOREM AuditPasses == Spec => []AuditClean
<1>1. IInv => AuditClean
  <2> SUFFICES ASSUME IInv
               PROVE  AuditClean
    OBVIOUS
  <2>1. check_provenance = {}
    BY DEF IInv, StoreInv, RowsPresent, check_provenance, Row, OpName, AgentOp, Absent
  <2>2. check_failures_retained = {}
    BY DEF IInv, StoreInv, RowsPresent, check_failures_retained, NoRow, Exists
  <2>3. \A a \in Id : status[a] = "superseded" => Exists(supersededBy[a])
    BY DEF IInv, StoreInv, TypeOK, SupersessionSound, Exists, Absent
  <2>4. check_terminal_pointers = {}
    BY <2>3 DEF IInv, StoreInv, RevisionLinkSound, check_terminal_pointers
  <2> QED
    BY <2>1, <2>2, <2>4 DEF AuditClean, audit
<1> QED
  BY <1>1, Invariance, PTL

-----------------------------------------------------------------------------
(* Chains: of incumbents, and of refines *)

\* The store's tables change in one of three ways: not at all (apart from new
\* objects and revision pointers), by a fresh row, or by recording a bundle.
LEMMA StepKinds ==
    ASSUME IInv, [Next]_vars
    PROVE  \/ /\ UNCHANGED <<status, row, decisions, supersededBy>>
              /\ stored \subseteq stored'
           \/ /\ \E a \in Id : \E r : propose(a, r)
              /\ stored \subseteq stored'
           \/ \E b \in VerdictBundle : cur \in Id /\ recordable(cur, b) /\ record_bundle(cur, b)
<1> USE DEF IInv
<1>1. CASE UNCHANGED vars
  BY <1>1 DEF vars, store
<1>2. CASE \E a \in Id, r \in Row : SeedRoot(a, r) \/ SubmitProposal(a, r)
  BY <1>2 DEF SeedRoot, SubmitProposal
<1>3. CASE \E written \in SUBSET Blob : IntakeFails(written)
  BY <1>3 DEF IntakeFails
<1>4. CASE LinkRevision
  BY <1>4, LinkKeepsStore
<1>5. CASE \E b \in VerdictBundle : CommitProposal(b) \/ CommitChild(b)
  BY <1>5 DEF CommitProposal, CommitChild, InFlight
<1>6. CASE \E b \in VerdictBundle : CommitRefused(b)
  BY <1>6 DEF CommitRefused, roll_back, store
<1>7. CASE GateUnavailable \/ HarvestEnds \/ Crash
  BY <1>7 DEF GateUnavailable, HarvestEnds, Crash, store
<1>8. CASE \E c \in Id, t \in Type : HarvestChild(c, t)
  BY <1>8 DEF HarvestChild
<1> QED
  BY <1>1, <1>2, <1>3, <1>4, <1>5, <1>6, <1>7, <1>8 DEF Next

\* Nobody has a parent that is not in the store.
ParentsExist == \A x \in Id : row[x].parent # NoId => Exists(row[x].parent)

\* The artifact being committed is the newest: nothing descends from it yet.
NoDescendants == pc \in {"linking", "gating"} => \A x \in Id : row[x].parent # cur

\* A commit that may still refine has a lineage below the cap; a harvested
\* child has no lineage at all.
BelowCap ==
    pc = "gating" /\ ~exhausted =>
        row[cur].op = "harvest" \/ ~lineage_refines_reach(cur, RefineCap)

ChainInv == ParentsExist /\ NoDescendants /\ BelowCap /\ RefineCapHolds /\ ChainsEndAccepted

\* A walk through refined artifacts was one before a step that refined none
\* and rewrote none of their rows.
LEMMA ChainsAreOld ==
    ASSUME NEW n \in Nat, NEW chain \in [1 .. n -> Id], RevisedChain(chain, n)',
           \A i \in 1 .. n : status'[chain[i]] = "revised" =>
               status[chain[i]] = "revised" /\ row'[chain[i]] = row[chain[i]]
    PROVE  RevisedChain(chain, n)
  BY DEF RevisedChain

\* Without a new refined artifact the cap is kept.
LEMMA CapKept ==
    ASSUME RefineCapHolds,
           \A x \in Id : status'[x] = "revised" => status[x] = "revised" /\ row'[x] = row[x]
    PROVE  RefineCapHolds'
<1> SUFFICES ASSUME NEW chain \in [1 .. RefineCap + 1 -> Id], RevisedChain(chain, RefineCap + 1)'
             PROVE  row'[chain[1]].op = "harvest"
  BY DEF RefineCapHolds
<1>1. RefineCap + 1 \in Nat /\ 1 \in 1 .. RefineCap + 1
  BY DEF ConstantsAssumption
<1>2. \A i \in 1 .. RefineCap + 1 : chain[i] \in Id
  OBVIOUS
<1>3. RevisedChain(chain, RefineCap + 1)
  BY <1>1, <1>2, ChainsAreOld
<1>4. row'[chain[1]] = row[chain[1]]
  BY <1>1, <1>2, <1>3 DEF RevisedChain
<1> QED
  BY <1>3, <1>4 DEF RefineCapHolds

\* Recording a bundle keeps the cap: the only artifact it may refine is the
\* newest, so it can only be the first of a walk, and the rest of that walk
\* is shorter than the cap.
LEMMA RecordKeepsCap ==
    ASSUME IInv, ChainInv, NEW b \in VerdictBundle, pc = "gating",
           recordable(cur, b), record_bundle(cur, b)
    PROVE  RefineCapHolds'
<1> USE DEF IInv, ChainInv
<1>1. cur \in Id /\ status[cur] = "proposed" /\ row' = row /\ RefineCap \in Nat
  BY DEF InFlight, record_bundle, ConstantsAssumption
<1>2. \A x \in Id : x # cur /\ status'[x] = "revised" => status[x] = "revised"
  BY <1>1 DEF record_bundle, TypeOK
<1>3. status'[cur] = "revised" => ~exhausted
  BY <1>1 DEF record_bundle, TypeOK, terminal_status, Superseding
<1> SUFFICES ASSUME NEW chain \in [1 .. RefineCap + 1 -> Id], RevisedChain(chain, RefineCap + 1)'
             PROVE  row[chain[1]].op = "harvest"
  BY <1>1 DEF RefineCapHolds
<1>4. 1 \in 1 .. RefineCap + 1 /\ \A i \in 1 .. RefineCap + 1 : chain[i] \in Id
  BY <1>1
<1>5. CASE \A i \in 1 .. RefineCap + 1 : chain[i] # cur
  <2>1. RevisedChain(chain, RefineCap + 1)
    BY <1>1, <1>2, <1>4, <1>5, ChainsAreOld
  <2> QED
    BY <2>1 DEF RefineCapHolds
<1>6. ASSUME NEW k \in 1 .. RefineCap + 1, chain[k] = cur PROVE row[chain[1]].op = "harvest"
  <2>1. \A i \in 1 .. RefineCap : row[chain[i]].parent # cur
    <3>1. \A i \in 1 .. RefineCap : chain[i] \in Id
      BY <1>1
    <3> QED
      BY <3>1 DEF NoDescendants
  <2>2. \A i \in 1 .. RefineCap : row[chain[i]].op = "revises" /\ row[chain[i]].parent = chain[i + 1]
    BY <1>1 DEF RevisedChain
  <2>3. \A i \in 1 .. RefineCap : chain[i + 1] # cur
    BY <2>1, <2>2
  <2>4. k = 1
    <3>1. k # 1 => k - 1 \in 1 .. RefineCap /\ chain[(k - 1) + 1] = cur
      BY <1>1, <1>6
    <3> QED
      BY <2>3, <3>1
  <2>5. ~exhausted
    BY <1>3, <1>4, <1>6, <2>4 DEF RevisedChain
  <2>6. SUFFICES ASSUME ~lineage_refines_reach(cur, RefineCap) PROVE FALSE
    BY <1>6, <2>4, <2>5 DEF BelowCap
  <2>7. RefineCap > 0 /\ 1 \in 1 .. RefineCap
    BY <1>1, <2>6 DEF lineage_refines_reach
  <2> DEFINE rest == [i \in 1 .. RefineCap |-> chain[i + 1]]
  <2>8. rest \in [1 .. RefineCap -> Id]
    BY <1>1, <1>4
  <2>9. \A i \in 1 .. RefineCap : status[rest[i]] = "revised"
    <3>1. \A i \in 1 .. RefineCap : i + 1 \in 1 .. RefineCap + 1 /\ rest[i] = chain[i + 1]
      BY <1>1
    <3>2. \A i \in 1 .. RefineCap : status'[rest[i]] = "revised"
      BY <3>1 DEF RevisedChain
    <3> QED
      BY <1>2, <2>3, <2>8, <3>1, <3>2
  <2>10. \A i \in 1 .. RefineCap - 1 :
            row[rest[i]].op = "revises" /\ row[rest[i]].parent = rest[i + 1]
    <3> TAKE i \in 1 .. RefineCap - 1
    <3>1. i \in 1 .. RefineCap /\ i + 1 \in 1 .. RefineCap
      BY <1>1
    <3>2. rest[i] = chain[i + 1] /\ rest[i + 1] = chain[(i + 1) + 1]
      BY <3>1
    <3> QED
      BY <2>2, <3>1, <3>2
  <2>11. row[cur].op = "revises" /\ rest[1] = row[cur].parent
    BY <1>6, <2>2, <2>4, <2>7
  <2>12. RevisedChain(rest, RefineCap)
    BY <2>9, <2>10 DEF RevisedChain
  <2> QED
    BY <2>6, <2>8, <2>11, <2>12 DEF lineage_refines_reach
<1> QED
  BY <1>5, <1>6

\* Steps that retire no incumbent keep the chains of incumbents.
LEMMA IncumbentsKept ==
    ASSUME ChainsEndAccepted, supersededBy' = supersededBy,
           \A x \in Id : /\ status'[x] = "superseded" => status[x] = "superseded"
                         /\ status[x] = "accepted" => status'[x] = "accepted"
    PROVE  ChainsEndAccepted'
  BY DEF ChainsEndAccepted

\* Recording a bundle keeps the chains of incumbents: a closed set that
\* holds the retired incumbent holds its successor, which is accepted, and
\* any other had an accepted artifact before and has it still.
LEMMA RecordKeepsIncumbents ==
    ASSUME IInv, ChainsEndAccepted, NEW b \in VerdictBundle, cur \in Id,
           recordable(cur, b), record_bundle(cur, b)
    PROVE  ChainsEndAccepted'
<1> USE DEF IInv, TypeOK
<1>1. status[cur] = "proposed"
  BY DEF recordable, may_gate
<1>2. CASE ~Superseding(b)
  <2>1. status' = [status EXCEPT ![cur] = terminal_status(b)] /\ supersededBy' = supersededBy
    BY <1>2 DEF record_bundle
  <2>2. terminal_status(b) # "superseded"
    BY <1>1 DEF recordable, terminal_status, is_legal_transition, LEGAL_TRANSITIONS
  <2> QED
    BY <1>1, <2>1, <2>2, IncumbentsKept
<1>3. CASE Superseding(b)
  <2> DEFINE old == b.supersedes
  <2>1. /\ old \in Id /\ old # cur
        /\ status' = [status EXCEPT ![cur] = "accepted", ![old] = "superseded"]
        /\ supersededBy' = [supersededBy EXCEPT ![old] = cur]
    BY <1>1, <1>3 DEF recordable, record_bundle, incumbent_ok, Exists, is_legal_transition,
                      LEGAL_TRANSITIONS
  <2>2. /\ status'[cur] = "accepted" /\ supersededBy'[old] = cur
        /\ \A x \in Id : x # cur /\ x # old => status'[x] = status[x]
        /\ \A x \in Id : x # old => supersededBy'[x] = supersededBy[x]
    BY <2>1
  <2> SUFFICES ASSUME NEW S \in SUBSET Id,
                      NEW s \in S, status'[s] = "superseded",
                      \A a \in S : supersededBy'[a] # NoId => supersededBy'[a] \in S
               PROVE  \E a \in S : status'[a] = "accepted"
    BY DEF ChainsEndAccepted
  <2>3. CASE old \in S
    BY <2>2, <2>3
  <2>4. CASE old \notin S
    <3>1. status[s] = "superseded"
      BY <2>2, <2>4
    <3>2. \A a \in S : supersededBy[a] # NoId => supersededBy[a] \in S
      BY <2>2, <2>4
    <3>3. PICK a \in S : status[a] = "accepted"
      BY <3>1, <3>2 DEF ChainsEndAccepted
    <3>4. status'[a] = "accepted"
      BY <2>2, <2>4, <3>3
    <3> QED
      BY <3>4
  <2> QED
    BY <2>3, <2>4
<1> QED
  BY <1>2, <1>3

\* A fresh row has no descendants and starts no walk through refined artifacts.
LEMMA ProposeKeepsChains ==
    ASSUME IInv, ChainInv, NEW a \in Id, NEW r \in Row, propose(a, r),
           r.parent # NoId => Exists(r.parent)
    PROVE  /\ ParentsExist' /\ RefineCapHolds' /\ ChainsEndAccepted'
           /\ \A x \in Id : row'[x].parent # a
<1> USE DEF IInv, ChainInv, TypeOK, Absent
<1>1. /\ status[a] = Absent /\ status'[a] = "proposed" /\ row'[a] = r /\ supersededBy' = supersededBy
      /\ \A x \in Id : x # a => status'[x] = status[x] /\ row'[x] = row[x]
  BY DEF propose
<1>2. ParentsExist'
  BY <1>1 DEF ParentsExist, Exists
<1>3. RefineCapHolds'
  BY <1>1, CapKept
<1>4. ChainsEndAccepted'
  BY <1>1, IncumbentsKept
<1>5. \A x \in Id : row'[x].parent # a
  BY <1>1, ConstantsAssumption DEF ParentsExist, Exists
<1> QED
  BY <1>2, <1>3, <1>4, <1>5

\* Steps that leave rows and statuses alone keep what is known of the store's
\* chains.
LEMMA SameKeepsChains ==
    ASSUME ChainInv, UNCHANGED <<status, row, supersededBy>>
    PROVE  ParentsExist' /\ RefineCapHolds' /\ ChainsEndAccepted'
<1>1. ParentsExist'
  BY DEF ChainInv, ParentsExist, Exists
<1>2. RefineCapHolds'
  BY CapKept DEF ChainInv
<1>3. ChainsEndAccepted'
  BY IncumbentsKept DEF ChainInv
<1> QED
  BY <1>1, <1>2, <1>3

\* Every step preserves the invariant about chains.
LEMMA StepChains == IInv /\ ChainInv /\ [Next]_vars => ChainInv'
<1> SUFFICES ASSUME IInv, ChainInv, [Next]_vars PROVE ChainInv'
  OBVIOUS
<1>1. ASSUME NEW a \in Id, NEW r \in Row, SeedRoot(a, r) PROVE ChainInv'
  <2>1. propose(a, r) /\ r.parent = NoId /\ pc' = "idle"
    BY <1>1 DEF SeedRoot, submission
  <2>2. ParentsExist' /\ RefineCapHolds' /\ ChainsEndAccepted'
    BY <2>1, ProposeKeepsChains
  <2> QED
    BY <2>1, <2>2 DEF ChainInv, NoDescendants, BelowCap
<1>2. ASSUME NEW a \in Id, NEW r \in Row, SubmitProposal(a, r) PROVE ChainInv'
  <2>1. propose(a, r) /\ (r.parent # NoId => Exists(r.parent)) /\ pc' = "linking" /\ cur' = a
    BY <1>2 DEF SubmitProposal
  <2>2. /\ ParentsExist' /\ RefineCapHolds' /\ ChainsEndAccepted'
        /\ \A x \in Id : row'[x].parent # a
    BY <2>1, ProposeKeepsChains
  <2> QED
    BY <2>1, <2>2 DEF ChainInv, NoDescendants, BelowCap
<1>3. ASSUME UNCHANGED <<status, row, supersededBy>>, pc' = "idle" PROVE ChainInv'
  BY <1>3, SameKeepsChains DEF ChainInv, NoDescendants, BelowCap
<1>4. ASSUME NEW written \in SUBSET Blob, IntakeFails(written) PROVE ChainInv'
  BY <1>3, <1>4 DEF IntakeFails, submission
<1>5. CASE LinkRevision
  <2>1. UNCHANGED <<status, row, supersededBy>>
    BY <1>5, LinkKeepsStore DEF IInv
  <2>2. ParentsExist' /\ RefineCapHolds' /\ ChainsEndAccepted'
    BY <2>1, SameKeepsChains
  <2>3. cur' = cur /\ exhausted' = lineage_refines_reach(cur, RefineCap) /\ pc = "linking"
    BY <1>5 DEF LinkRevision
  <2>4. NoDescendants'
    BY <2>1, <2>3 DEF ChainInv, NoDescendants
  <2>5. lineage_refines_reach(cur, RefineCap)' = lineage_refines_reach(cur, RefineCap)
    BY <2>1, <2>3 DEF lineage_refines_reach, RevisedChain
  <2>6. BelowCap'
    BY <2>3, <2>5 DEF BelowCap
  <2> QED
    BY <2>2, <2>4, <2>6 DEF ChainInv
<1>6. ASSUME NEW b \in VerdictBundle, CommitProposal(b) \/ CommitChild(b) PROVE ChainInv'
  <2>1. /\ pc = "gating" /\ cur \in Id /\ recordable(cur, b) /\ record_bundle(cur, b)
        /\ pc' \in {"idle", "harvesting"}
    BY <1>6 DEF CommitProposal, CommitChild, EndSubmission, IInv, InFlight
  <2>2. RefineCapHolds' /\ ChainsEndAccepted'
    BY <2>1, RecordKeepsCap, RecordKeepsIncumbents DEF ChainInv
  <2>3. /\ row' = row /\ StoreInv'
    BY <2>1, RecordKeepsStore DEF record_bundle, IInv
  <2>4. \A x \in Id : status[x] # Absent => status'[x] # Absent
    <3>1. \A x \in Id : row[x].op = "none" <=> status[x] = Absent
      BY DEF IInv, StoreInv, RowsPresent, NoRow, Row, OpName, AgentOp
    <3>2. \A x \in Id : row'[x].op = "none" <=> status'[x] = Absent
      BY <2>3 DEF StoreInv, RowsPresent, NoRow, Row, OpName, AgentOp
    <3> QED
      BY <2>3, <3>1, <3>2
  <2>5. ParentsExist'
    BY <2>3, <2>4 DEF ChainInv, ParentsExist, Exists
  <2> QED
    BY <2>1, <2>2, <2>5 DEF ChainInv, NoDescendants, BelowCap
<1>7. ASSUME NEW b \in VerdictBundle, CommitRefused(b) PROVE ChainInv'
  BY <1>3, <1>7 DEF CommitRefused, roll_back, store, EndSubmission
<1>8. CASE GateUnavailable \/ HarvestEnds \/ Crash
  BY <1>3, <1>8 DEF GateUnavailable, HarvestEnds, Crash, store, EndSubmission
<1>9. ASSUME NEW c \in Id, NEW t \in Type, HarvestChild(c, t) PROVE ChainInv'
  <2> DEFINE r == [type |-> t, createdBy |-> row[parent].createdBy, op |-> "harvest",
                   parent |-> parent, objects |-> row[parent].objects]
  <2>1. /\ pc = "harvesting" /\ propose(c, r) /\ cur' = c
    BY <1>9 DEF HarvestChild
  <2>2. parent \in Id /\ status[parent] \in {"accepted", "superseded"} /\ row[parent] \in Row
    BY <2>1 DEF IInv, InFlight, TypeOK, StoreInv, RowsPresent, Absent
  <2>3. r \in Row /\ r.parent = parent /\ r.op = "harvest" /\ Exists(parent)
    BY <2>2 DEF Row, OpName, Exists, Absent
  <2>4. /\ ParentsExist' /\ RefineCapHolds' /\ ChainsEndAccepted'
        /\ \A x \in Id : row'[x].parent # c
    BY <2>1, <2>3, ProposeKeepsChains
  <2>5. row'[c].op = "harvest"
    BY <2>1, <2>3 DEF propose, IInv, TypeOK
  <2> QED
    BY <2>1, <2>4, <2>5 DEF ChainInv, NoDescendants, BelowCap
<1>10. CASE UNCHANGED vars
  <2>1. UNCHANGED <<status, row, supersededBy, pc, cur, exhausted>>
    BY <1>10 DEF vars, store, submission
  <2>2. ParentsExist' /\ RefineCapHolds' /\ ChainsEndAccepted'
    BY <2>1, SameKeepsChains
  <2>3. lineage_refines_reach(cur, RefineCap)' = lineage_refines_reach(cur, RefineCap)
    BY <2>1 DEF lineage_refines_reach, RevisedChain
  <2> QED
    BY <2>1, <2>2, <2>3 DEF ChainInv, NoDescendants, BelowCap
<1> QED
  BY <1>1, <1>2, <1>4, <1>5, <1>6, <1>7, <1>8, <1>9, <1>10 DEF Next

\* In an empty store there are no chains.
LEMMA InitChains == Init => ChainInv
<1> SUFFICES ASSUME Init PROVE ChainInv
  OBVIOUS
<1>1. \A x \in Id : status[x] = Absent /\ row[x] = NoRow
  BY DEF Init
<1>2. ParentsExist /\ NoDescendants /\ BelowCap /\ ChainsEndAccepted
  BY <1>1 DEF Init, ParentsExist, NoDescendants, BelowCap, ChainsEndAccepted, NoRow, Absent
<1>3. RefineCapHolds
  <2>1. 1 \in 1 .. RefineCap + 1
    BY DEF ConstantsAssumption
  <2> QED
    BY <1>1, <2>1 DEF RefineCapHolds, RevisedChain, Absent
<1> QED
  BY <1>2, <1>3 DEF ChainInv

\* A superseded artifact leads to an accepted one along its pointers, for any
\* number of artifacts.
THEOREM IncumbentChainsEnd == Spec => []ChainsEndAccepted
<1>1. ChainInv => ChainsEndAccepted
  BY DEF ChainInv
<1> QED
  BY <1>1, Invariance, InitChains, StepChains, PTL DEF Spec

\* For every cap, a lineage is sent back to refine at most that often.
THEOREM LineageCapped == Spec => []RefineCapHolds
<1>1. ChainInv => RefineCapHolds
  BY DEF ChainInv
<1> QED
  BY <1>1, Invariance, InitChains, StepChains, PTL DEF Spec

-----------------------------------------------------------------------------
(* Steps: append-only, and the refinement of the ledger *)

\* The record only grows: no step rewrites a row, a decision or a pointer.
THEOREM RecordAppendOnly == Spec => AppendOnly
<1>1. ASSUME IInv, [Next]_vars PROVE GrowsOnly
  <2> USE DEF IInv, TypeOK
  <2>1. CASE UNCHANGED <<status, row, decisions, supersededBy>> /\ stored \subseteq stored'
    BY <2>1 DEF GrowsOnly
  <2> USE DEF TERMINAL_STATUSES, Absent
  <2>2. ASSUME NEW a \in Id, NEW r, propose(a, r), stored \subseteq stored' PROVE GrowsOnly
    BY <2>2 DEF GrowsOnly, propose
  <2>3. ASSUME NEW b \in VerdictBundle, cur \in Id, recordable(cur, b), record_bundle(cur, b)
        PROVE  GrowsOnly
    <3>1. status[cur] = "proposed" /\ row' = row /\ stored' = stored
      BY <2>3 DEF recordable, may_gate, record_bundle
    <3>2. \A x \in Id : x # cur => decisions'[x] = decisions[x]
      BY <2>3 DEF record_bundle
    <3>3. /\ \A x \in Id : supersededBy[x] # NoId => supersededBy'[x] = supersededBy[x]
          /\ \A x \in Id : status[x] \in TERMINAL_STATUSES => status'[x] = status[x]
      <4>1. CASE ~Superseding(b)
        BY <1>1, <2>3, <3>1, <4>1 DEF record_bundle
      <4>2. CASE Superseding(b)
        <5> DEFINE old == b.supersedes
        <5>1. /\ status[old] \in {"tentative", "accepted"} /\ old \in Id
              /\ supersededBy' = [supersededBy EXCEPT ![old] = cur]
              /\ status' = [status EXCEPT ![cur] = "accepted", ![old] = "superseded"]
          BY <2>3, <4>2 DEF recordable, record_bundle, incumbent_ok, Exists,
                            is_legal_transition, LEGAL_TRANSITIONS
        <5>2. supersededBy[old] = NoId
          BY <1>1, <5>1 DEF StoreInv, SupersessionSound
        <5>3. \A x \in Id : x # cur /\ x # old => status'[x] = status[x]
          BY <1>1, <2>3, <5>1
        <5>4. \A x \in Id : x # old => supersededBy'[x] = supersededBy[x]
          BY <1>1, <2>3, <5>1
        <5> QED
          BY <3>1, <5>1, <5>2, <5>3, <5>4
      <4> QED
        BY <4>1, <4>2
    <3> QED
      BY <3>1, <3>2, <3>3 DEF GrowsOnly
  <2> QED
    BY <1>1, <2>1, <2>2, <2>3, StepKinds
<1> QED
  BY <1>1, Invariance, PTL DEF Spec, AppendOnly

\* The commit path implements the ledger: whatever fails or crashes, readers
\* of statuses and verdicts see only Enter, Judge and Replace steps.
THEOREM RefinesLedger == Spec => ImplementsLedger
<1>1. Init => Ledger!LedgerInit
  BY DEF Init, Ledger!LedgerInit, Ledger!Absent, Absent
<1>2. ASSUME IInv, [Next]_vars PROVE [Ledger!LedgerNext]_(Ledger!ledgerVars)
  <2>1. CASE UNCHANGED <<status, row, decisions, supersededBy>>
    BY <2>1 DEF Ledger!ledgerVars
  <2>2. ASSUME NEW a \in Id, NEW r, propose(a, r) PROVE Ledger!Enter(a)
    BY <2>2 DEF propose, Ledger!Enter, Ledger!Absent, Absent
  <2>3. ASSUME NEW b \in VerdictBundle, cur \in Id, recordable(cur, b), record_bundle(cur, b)
        PROVE  Ledger!LedgerNext
    <3>1. status[cur] = "proposed" /\ decisions[cur] = {}
          /\ b.decisions \in SUBSET VerdictKind /\ b.status \in ArtifactStatus
      BY <1>2, <2>3 DEF recordable, may_gate, VerdictBundle, IInv, StoreInv, DecisionsLandWithStatus
    <3>2. decisions' = [decisions EXCEPT ![cur] = b.decisions]
      BY <1>2, <2>3, <3>1 DEF record_bundle, IInv, TypeOK
    <3>3. CASE ~Superseding(b)
      <4>1. status' = [status EXCEPT ![cur] = terminal_status(b)]
        BY <2>3, <3>3 DEF record_bundle
      <4>2. /\ terminal_status(b) \in Ledger!ArtifactStatus
            /\ Ledger!is_legal_transition("proposed", terminal_status(b))
        BY <2>3, <3>1 DEF terminal_status, recordable, is_legal_transition, LEGAL_TRANSITIONS,
           Ledger!is_legal_transition, Ledger!LEGAL_TRANSITIONS, Ledger!ArtifactStatus,
           ArtifactStatus
      <4>3. Ledger!Judge(cur, terminal_status(b), b.decisions)
        BY <3>1, <3>2, <4>1, <4>2 DEF Ledger!Judge
      <4> QED
        BY <2>3, <3>1, <4>2, <4>3 DEF Ledger!LedgerNext, Ledger!VerdictKind, VerdictKind
    <3>4. CASE Superseding(b)
      <4>1. status' = [status EXCEPT ![cur] = "accepted", ![b.supersedes] = "superseded"]
        BY <2>3, <3>4 DEF record_bundle
      <4>2. b.supersedes \in Id /\ Ledger!is_legal_transition(status[b.supersedes], "superseded")
        BY <2>3, <3>4 DEF recordable, incumbent_ok, Exists, is_legal_transition, LEGAL_TRANSITIONS,
           Ledger!is_legal_transition, Ledger!LEGAL_TRANSITIONS
      <4>3. Ledger!Replace(cur, b.supersedes, b.decisions)
        BY <3>1, <3>2, <4>1, <4>2 DEF Ledger!Replace
      <4> QED
        BY <2>3, <3>1, <4>2, <4>3 DEF Ledger!LedgerNext, Ledger!VerdictKind, VerdictKind
    <3> QED
      BY <3>3, <3>4
  <2>4. ASSUME NEW a \in Id, Ledger!Enter(a) PROVE Ledger!LedgerNext
    BY <2>4 DEF Ledger!LedgerNext
  <2> QED
    BY <1>2, <2>1, <2>2, <2>3, <2>4, StepKinds
<1> QED
  BY <1>1, <1>2, Invariance, PTL DEF Spec, ImplementsLedger, Ledger!LedgerSpec
==============================================================================
