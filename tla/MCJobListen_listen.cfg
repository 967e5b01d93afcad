SPECIFICATION Spec
CONSTANTS
    k1 = k1
    k2 = k2
    w1 = w1
    None = None
    Callers = {c1}
    Waiters = {a1}
    Keys = {k1, k2}
    Workers = {w1}
    Owns <- MCOwns
    MaxRuns = 1
    MaxCalls = 1
    MaxFaults = 1
INVARIANTS MapReturnsResults WaitCountsOnce
PROPERTIES CallersReturn
CHECK_DEADLOCK FALSE
