SPECIFICATION Spec
CONSTANTS
    Workers = {w1, w2}
    Ops = {a}
    NoWorker = NoWorker
    FieldOps = {}
    Helpers = {w2}
INVARIANTS
    AtMostOneOutcome
