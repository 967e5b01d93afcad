SPECIFICATION FairSpec
CONSTANTS
    NoJob = NoJob
    Jobs = {j1}
    Scheduled = {}
    Workers = {w1}
    Sweepers = {w1}
    Clients = {}
    Retries = 1
    RetryDelays = {TRUE, FALSE}
    ResultTtl = "expires"
    KeyReuse = FALSE
    StuckChecker = TRUE
    HasCronjobs = TRUE
    Faults = {}
    MaxCrashes = 1
    MaxCopies = 2
INVARIANTS NoLostJob
PROPERTIES EveryJobSettles
