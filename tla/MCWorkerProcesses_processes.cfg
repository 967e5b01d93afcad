SPECIFICATION Spec
CONSTANTS
    p1 = p1
    p2 = p2
    Programs = {p1, p2}
    Digit <- MCDigit
    Counts = {1, 2}
    MaxWorkers <- MCMaxWorkers
INVARIANTS NamesTellApart ExitStopsAll
PROPERTIES ProgramsEnd
CHECK_DEADLOCK FALSE
