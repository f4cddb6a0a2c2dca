SPECIFICATION Spec
CONSTANTS
    Threads = {t1, t2}
    EventIds = {e, defect}
    ReservedIds = {defect}
    DefectEvent = defect
    FieldNames = {violation, offending_event, actor}
    ReservedNames = {actor}
    Violation = violation
    OffendingEvent = offending_event
    Proposals <- MCProposals
    Values <- MCValues
    Actors <- MCActors
    MaxFields = 2
    EnvelopeSize <- MCEnvelopeSize
    OutcomeSize <- MCOutcomeSize
    DefectTextSize = 3
    MAX_RECORD_BYTES = 8
INVARIANTS
    TypeOK
    RecordsConform
    NoLateRefusal
    AlwaysRendered
    AutomaticOutcomeFits
    DefectRecordable
SYMMETRY ThreadSymmetry
CHECK_DEADLOCK FALSE
