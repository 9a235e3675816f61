SPECIFICATION Spec
CONSTANTS
    Id = {a1, a2}
    NoId = NoId
    Type = {"dataset", "note"}
    RootType = {"dataset"}
    GatedType = {"note"}
    Identity = {"agent", "judge"}
    Verifier = "judge"
    Blob = {b1}
    RefineCap = 1
    MaxChildren = 1
SYMMETRY IdSymmetry
INVARIANTS
    TypeOK
    VerdictsStand
    SupersessionSound
    ReferencesSound
    AuditClean
