SPECIFICATION Spec
CONSTANTS
    NoJob = NoJob
    Jobs = {j1}
    Scheduled = {}
    Workers = {w1, w2}
    Sweepers = {w1}
    Clients = {c1}
    Retries = 1
    RetryDelays = {TRUE, FALSE}
    ResultTtl = "expires"
    KeyReuse = FALSE
    StuckChecker = FALSE
    HasCronjobs = TRUE
    Faults = {"update_lost", "finish_lost", "launch"}
    MaxCrashes = 2
    MaxCopies = 2
INVARIANTS AtMostOneRun DelayIsServed  AbortIsExclusive
PROPERTIES GoneForGood ImplementsLifecycle
