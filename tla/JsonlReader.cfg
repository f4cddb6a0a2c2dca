SPECIFICATION ReaderSpec
CONSTANTS
    Threads = {t1, t2}
    Sinks = {a1}
    Paths = {p1}
    Entries = {p1}
    Files = {f1}
    NoThread = NoThread
    NoFile = NoFile
    NoPath = NoPath
    NoSink = NoSink
    RecordLen = 2
    Replaceable = {}
    Interruptible = {t1}
    MaxCalls = 3
    MaxCrashes = 1
    KindOf <- MCKindOf
    Entry <- MCEntry
    Siblings <- MCSiblings
INVARIANTS
    ReaderTypeOK
    NothingSkipped
    AcknowledgedIsRead
PROPERTIES
    VerdictIsTrue
CHECK_DEADLOCK FALSE
