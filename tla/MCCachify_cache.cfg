SPECIFICATION Spec
CONSTANTS
    Callers = {c1, c2}
    Background = {b1}
    Keys = {k1, k2}
    Styles = {"sync", "async", "background"}
    Policies = {"LFU"}
    MaxSize = 1
    Ttl = 0
    Afters = {None, 1}
    MaxTime = 1
    MaxVersion = 1
    MaxCalls = 4
    MaxShared = 3
    None = None
INVARIANTS NeverOvercounts ExactAlone
CHECK_DEADLOCK FALSE
SYMMETRY Symmetry
