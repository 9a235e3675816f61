SPECIFICATION Spec
CONSTANTS
    Task = {t1, t2}
    Run = {r1, r2, r3}
    NoTask = NoTask
    NoRun = NoRun
    Faults = {"build", "report"}
    MaxRestarts = 1
INVARIANTS
    OwnRecord
PROPERTIES
    RecordsFinal
    RunsFinish
