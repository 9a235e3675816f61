SPECIFICATION Spec
CONSTANTS
    MaxCycles = 2
    FailureCap = 2
    StopOnAccept = FALSE
    Faults = {"sqlite", "workspace", "misuse"}
    MaxRuns = 2
INVARIANTS
    FailuresDurable
    ClaimsHold
PROPERTY
    RunIsFinite
