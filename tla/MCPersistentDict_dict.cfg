SPECIFICATION Spec
CONSTANTS
    Threads = {t}
    Coroutines = {a}
    Keys = {k1}
    Members = {m}
    Expirations = {None, 1}
    Lives = {None, 1}
    Imports <- MCImports
    MaxTime = 2
    MaxNum = 1
    None = None
    Bad = Bad
INVARIANTS ExpirationIsKept NeverEarly
CHECK_DEADLOCK FALSE
