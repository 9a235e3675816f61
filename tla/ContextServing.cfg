SPECIFICATION Spec
CONSTANTS
    MaxCycles = 3
    MaxRestarts = 1
    MaxScore = 1
    Names = {"entrypoint", "requirements"}
    ObjectSets = {{}, {"entrypoint", "requirements"}}
    Presets = {"none", "all", "all_accepted", "all_revised_or_accepted",
               "all_accepted_or_superseded", "last_accepted", "last_revised_or_accepted",
               "best_accepted", "best_revised_or_accepted", "typo"}
    StatusSpecs = {{"any", "accepted"}}
    ArtifactLimits = {1}
    ByteLimits = {1, 3}
    Unlimited = Unlimited
    ManifestLimit = 2
    TailLimit = 1
    DigestLimit = 2
INVARIANTS DigestIsTrail ProvisionedFromStore
CHECK_DEADLOCK FALSE
