------------------------------ MODULE Lifecycle ------------------------------
(***************************************************************************)
(* The artifact lifecycle state machine of control_plane/lifecycle.py: the *)
(* statuses, the table of legal edges and the retained terminal states.    *)
(* Everything that writes a status consults this table.                    *)
(***************************************************************************)

ArtifactStatus ==
    {"proposed", "tentative", "accepted", "rejected", "superseded", "revised"}

VerdictKind == {"accept", "reject", "refine"}

\* Not a status of the code: the id names no row of the artifacts table.
Absent == "absent"

LEGAL_TRANSITIONS ==
    ({"proposed"} \X {"tentative", "accepted", "rejected", "revised"})
        \cup ({"tentative"} \X {"accepted", "rejected", "revised", "superseded"})
        \cup ({"accepted"} \X {"superseded"})

is_legal_transition(frm, to) == <<frm, to>> \in LEGAL_TRANSITIONS

TERMINAL_STATUSES == {"rejected", "superseded", "revised"}
==============================================================================
