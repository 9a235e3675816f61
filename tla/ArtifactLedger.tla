--------------------------- MODULE ArtifactLedger ---------------------------
(***************************************************************************)
(* What the provenance store promises its readers, with no mention of how  *)
(* a proposal gets there: an id is used once; an artifact is judged at     *)
(* most once, its verdicts and its status landing in the same step; an     *)
(* acceptance may retire one standing artifact in that very step; nothing  *)
(* else ever changes.                                                      *)
(***************************************************************************)
EXTENDS Lifecycle

CONSTANT Id          \* the artifact ids

VARIABLES status,    \* [Id -> ArtifactStatus \cup {Absent}]
          verdicts   \* [Id -> SUBSET VerdictKind]

ledgerVars == <<status, verdicts>>

LedgerInit ==
    /\ status = [a \in Id |-> Absent]
    /\ verdicts = [a \in Id |-> {}]

Enter(a) ==
    /\ status[a] = Absent
    /\ status' = [status EXCEPT ![a] = "proposed"]
    /\ UNCHANGED verdicts

Judge(a, s, ks) ==
    /\ status[a] = "proposed"
    /\ is_legal_transition("proposed", s)
    /\ status' = [status EXCEPT ![a] = s]
    /\ verdicts' = [verdicts EXCEPT ![a] = ks]

Replace(a, old, ks) ==
    /\ status[a] = "proposed"
    /\ is_legal_transition(status[old], "superseded")
    /\ status' = [status EXCEPT ![a] = "accepted", ![old] = "superseded"]
    /\ verdicts' = [verdicts EXCEPT ![a] = ks]

LedgerNext ==
    \E a \in Id :
        \/ Enter(a)
        \/ \E s \in ArtifactStatus, ks \in SUBSET VerdictKind : Judge(a, s, ks)
        \/ \E old \in Id, ks \in SUBSET VerdictKind : Replace(a, old, ks)

LedgerSpec == LedgerInit /\ [][LedgerNext]_ledgerVars
==============================================================================
