SPECIFICATION LoopSpec
CONSTANTS
    StepBudget = 4
    RecursionLimit = 10
    Headroom = 8
    SuperSteps = 5
    FinalizeRetries = 2
    ParseRetries = 2
    HardTimeout = 3
    WarnAt = 2
    Declared = {"entrypoint", "requirements"}
INVARIANTS BudgetHolds FailureExplained
PROPERTY CycleIsFinite
CHECK_DEADLOCK FALSE
