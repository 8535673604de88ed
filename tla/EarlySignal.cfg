CONSTANTS
    w1 = w1
    w2 = w2
    Workers <- MCWorkers
    MaxCalls = 1
SPECIFICATION Spec
INVARIANTS
    CleanStopIsClean
