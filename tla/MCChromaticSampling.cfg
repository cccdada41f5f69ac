SPECIFICATION Spec
CONSTANTS
    t1 = t1
    t2 = t2
    Times <- MCTimes
    MaxRuntime = 2
    MaxCalls = 4
INVARIANTS
    TypeOK
    WorkerServesActive
    ShownMatchesScenario
PROPERTIES
    RequestServed
CHECK_DEADLOCK FALSE
