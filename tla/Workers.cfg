SPECIFICATION Spec
CONSTANTS
    MaxContainers = 3
    MaxRuns = 2
    MaxFaults = 1
    MaxSweeps = 1
INVARIANTS AcceptsOwnExit CleanUnlessFault
PROPERTY WaitEnds
CHECK_DEADLOCK FALSE
