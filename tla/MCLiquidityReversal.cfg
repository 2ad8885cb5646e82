SPECIFICATION Spec
CONSTANTS
    Span <- MCSpan
    Starts <- MCStarts
    Windows <- MCWindows
    FoundingStart = 3
    FoundingEnd = 8
    AsOfs = {29, 41}
    Requests = {1, 2}
    Tuples = {p, q}
    None = None
CHECK_DEADLOCK FALSE
INVARIANTS
    TypeOK
    StagesAreCausal
    WithinWindows
    LifeIsBounded
    ReportIsJustified
PROPERTIES
    BindingsAreFixed
