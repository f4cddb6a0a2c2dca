SPECIFICATION Spec
CONSTANTS
    Threads = {t1, t2}
    Sinks = {a1, a2, o1}
    OperationalSinks = {o1}
    Paths = {p1}
    Entries = {p1}
    Files = {f1, f2}
    NoThread = NoThread
    NoFile = NoFile
    NoPath = NoPath
    NoSink = NoSink
    RecordLen = 2
    Replaceable = {}
    Interruptible = {t1}
    MaxCalls = 2
    MaxCrashes = 2
    KindOf <- MCKindOf
    Entry <- MCEntry
    Siblings <- MCSiblings
SYMMETRY FileSystemSymmetry
INVARIANTS
    LatchedMeansTorn
    AckedAuditDurable
PROPERTIES
    ImplementsDurableLog
CHECK_DEADLOCK FALSE
