SPECIFICATION Spec
CONSTANTS
    Id = {a1, a2, a3}
    NoId = NoId
    Type = {"note"}
    RootType = {}
    GatedType = {"note"}
    Identity = {"agent"}
    Verifier = "judge"
    Blob = {}
    RefineCap = 2
    MaxChildren = 1
SYMMETRY IdSymmetry
INVARIANTS
    ChainsEndAccepted
    RevisionLinkSound
    RefineCapHolds
PROPERTIES
    AppendOnly
    ImplementsLedger
