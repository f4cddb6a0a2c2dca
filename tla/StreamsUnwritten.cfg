SPECIFICATION Spec
CONSTANTS
    Threads = {t1, t2}
    Sinks = {a1, a2, o1}
    OperationalSinks = {o1}
    Paths = {p1, p2}
    Entries = {p1, p2}
    Files = {f1, f2}
    NoThread = NoThread
    NoFile = NoFile
    NoPath = NoPath
    NoSink = NoSink
    RecordLen = 2
    Replaceable = {}
    Interruptible = {}
    MaxCalls = 2
    MaxCrashes = 0
    KindOf <- MCKindOf
    Entry <- MCEntry
    Siblings <- MCSiblings
INVARIANTS
    FailedLeavesNoRecord
CHECK_DEADLOCK FALSE
