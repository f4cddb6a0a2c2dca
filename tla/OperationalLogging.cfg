SPECIFICATION FairSpec
CONSTANTS
    Threads = {t1, t2}
    Inputs <- AllInputs
    MaxLines = 1
    Window = 2
    MaxCalls = 5
    MaxTime = 2
INVARIANTS
    TypeOK
    OnlyStrictRaises
    EveryCallAccounted
    CountersAgree
    FallbackHasOneOwner
    BoundedVolume
PROPERTIES
    EveryCallReturns
CHECK_DEADLOCK FALSE
