SPECIFICATION FairLifeSpec
CONSTANTS
    Threads = {t1, t2}
    Sinks = {a1, a2, o1}
    OperationalSinks = {o1}
    Paths = {p1, p2}
    Entries = {p1, p2}
    Files = {f1}
    NoThread = NoThread
    NoFile = NoFile
    NoPath = NoPath
    NoSink = NoSink
    RecordLen = 2
    Replaceable = {p1}
    Interruptible = {}
    MaxCalls = 3
    MaxCrashes = 0
    KindOf <- MCKindOf
    Entry <- MCEntry
    Siblings <- MCSiblings
INVARIANTS
    TypeOK
    Framed
    TornImpliesLatched
    WriterHoldsOpenSink
    KindsNeverMix
PROPERTIES
    LatchedNeverGrows
    EveryCallReturns
CHECK_DEADLOCK FALSE
