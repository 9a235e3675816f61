SPECIFICATION Spec
CONSTANTS
    MaxProposals = 2
    MaxScore = 2
    Modes = {"improve", "always", "kaggle"}
    Runs = {"full", "fails"}
    Deps = {"good"}
    Margin = 0
    TrialDeflation = 0
    MinCalibration = 1
    Pessimism = 0
    MaxStandings = 1
    DailyCap = 1
    DailyFallback = 2
    MaxFaults = 1
    MaxTeam = 1
    MaxDays = 2
INVARIANTS IncumbentIsBest SpendsOnlyOnImprovement ScoreNotStale
PROPERTY EvaluationEnds
CHECK_DEADLOCK FALSE
