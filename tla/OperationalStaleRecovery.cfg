SPECIFICATION HistorySpec
CONSTANTS
    Threads = {t1, t2}
    Inputs <- AllInputs
    MaxLines = 1
    Window = 2
    MaxCalls = 3
    MaxTime = 3
INVARIANTS
    FailureStaysVisible
CHECK_DEADLOCK FALSE
