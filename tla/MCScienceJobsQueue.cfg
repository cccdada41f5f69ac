CONSTANTS
    Jobs = {j1, j2, j3, j4}
    Workers = {w1}
    NoJob = NoJob
    MaxOutstanding = 2
    MaxTerminal = 1
SPECIFICATION Safety
INVARIANT QueueIsBounded
