SPECIFICATION Spec
CONSTANTS
    Task = {t1}
    Public = Public
    Labels = Labels
    Content = {Public, Labels}
    Request <- MCRequest
    TaskPlugin <- MCTaskPlugin
    VerifierPlugin <- MCVerifierPlugin
    None = None
    Torn = Torn
    MaxBoots = 2
INVARIANTS
    NeverShadowed
    KeyIsolated
    InputsDurable
CHECK_DEADLOCK FALSE
