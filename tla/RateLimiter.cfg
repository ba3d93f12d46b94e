CONSTANTS
    Calls = {c1, c2}
    MaxConcurrent = 1
    MaxQpm = 1
    Window = 1
    Attempts = 2
    AcquireTimeout = 2
    MaxPause = 2
SPECIFICATION LimiterFairSpec
INVARIANTS PermitsConserved
PROPERTIES PauseKept CallsEnd
