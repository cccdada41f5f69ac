SPECIFICATION Spec
CONSTANTS
    Scenarios = {"kepler", "binary"}
    Default = "kepler"
    MaxGen = 2
    MaxSeries = 2
    MaxRevision = 2
INVARIANTS
    TypeOK
    ExportIsCurrent
PROPERTIES
    FrameFollows
CHECK_DEADLOCK FALSE
