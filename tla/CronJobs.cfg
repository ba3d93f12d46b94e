CONSTANTS
    NManagers = 2
    Limits = {1}
    HistoryLimit = 1
    None = None
    MaxRuns = 2
    MaxRequests = 2
SPECIFICATION Spec
INVARIANTS HistoryKept DeletedIsNotRun RunningIsTrue
CHECK_DEADLOCK FALSE
