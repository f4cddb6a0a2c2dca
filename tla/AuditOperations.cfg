SPECIFICATION Spec
CONSTANTS
    Workers = {w1}
    Ops = {a, b}
    NoWorker = NoWorker
    FieldOps = {b}
    Helpers = {}
INVARIANTS
    TypeOK
    AtMostOneOutcome
    NothingWithoutDurableIntent
    OutcomesTruthful
    SilentExitMeansRecorded
    ReportedFailureIsReal
PROPERTIES
    FailureSurfaces
