SPECIFICATION Spec
CONSTANTS
    q1 = q1
    q2 = q2
    None = None
    Queues = {q1, q2}
    Jobs = {j1}
    Settings <- MCSettings
    MaxTasks = 3
    MaxStarts = 2
INVARIANTS KeptUnlessCut OnlyShutdownRepeats EveryQueueIsServed
PROPERTIES SignalEndsWorker
CHECK_DEADLOCK FALSE
