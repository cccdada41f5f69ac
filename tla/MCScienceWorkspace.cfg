CONSTANTS
    Jobs = {j1, j2}
    NoJob = NoJob
    MaxOutstanding = 2
    MaxTerminal = 1
    MaxCalls = 2
SPECIFICATION Spec
INVARIANTS
    TypeOK
    KnownJobTracked
    RequestsExclusive
    ShownIsLatest
    ButtonsAtRest
PROPERTIES
    RequestEnds
