CONSTANTS
    Jobs = {j1, j2, j3}
    Workers = {w1, w2}
    NoJob = NoJob
    MaxOutstanding = 2
    MaxTerminal = 1
SPECIFICATION Spec
INVARIANTS
    TypeOK
    SlotsMatchFutures
    PublishedIffSucceeded
    RetainedRecords
    NoLockCycle
    ClosedIsQuiescent
PROPERTIES
    TerminalIsFinal
    SlotsDrain
    CloseReturns
    ImplementsContract
