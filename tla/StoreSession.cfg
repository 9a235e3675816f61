SPECIFICATION Spec
CONSTANTS
    MaxCycles = 3
    MaxFaults = 2
    MaxCrashes = 1
    Contents = {"script", "rewrite"}
INVARIANTS OutcomeIsDurable ReferencesIntact ExportDurable
PROPERTY ImplementsAtomicStore
CHECK_DEADLOCK FALSE
