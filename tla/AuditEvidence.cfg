SPECIFICATION Spec
CONSTANTS
    Others = {x1, x2}
    SafeOthers = {x1}
    BrokenOthers = {}
    Original = original
    Normalized = normalized
    Finalisation = finalisation
    Usage = usage
    NoException = NoException
    MAX_CHAIN_DEPTH = 3
    MaxRaises = 2
    Exceptions <- MCExceptions
    Marker <- MCMarker
INVARIANTS
    TypeOK
    OriginalStaysOffChain
    BodyIsLocated
    TruncatedMeansMissing
    NearestFirst
CHECK_DEADLOCK FALSE
