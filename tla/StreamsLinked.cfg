SPECIFICATION Spec
CONSTANTS
    Threads = {t1, t2}
    Sinks = {a1, o1}
    OperationalSinks = {o1}
    Paths = {p1, link}
    Entries = {p1}
    Files = {f1, f2}
    NoThread = NoThread
    NoFile = NoFile
    NoPath = NoPath
    NoSink = NoSink
    RecordLen = 2
    Replaceable = {}
    Interruptible = {}
    MaxCalls = 2
    MaxCrashes = 1
    KindOf <- MCKindOf
    Entry <- MCEntry
    Siblings <- MCSiblings
INVARIANTS
    AckedAuditDurable
CHECK_DEADLOCK FALSE
