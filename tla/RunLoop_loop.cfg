SPECIFICATION Spec
CONSTANTS
    MaxCycles = 3
    FailureCap = 2
    StopOnAccept = TRUE
    Faults = {"misuse"}
    MaxRuns = 2
INVARIANTS
    EveryCycleRecorded
    ReportMatchesStore
    AbortsAtCap
    FreshProposal
PROPERTY
    RunEnds
