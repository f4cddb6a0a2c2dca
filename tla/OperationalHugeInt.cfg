SPECIFICATION Spec
CONSTANTS
    Threads = {t1, t2}
    Inputs <- AllInputs
    MaxLines = 1
    Window = 2
    MaxCalls = 1
    MaxTime = 3
INVARIANTS
    ContainedUnlessStrict
CHECK_DEADLOCK FALSE
