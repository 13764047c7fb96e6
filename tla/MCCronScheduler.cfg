\* One executor, the admin, a cron task and a one-shot, one fault.
SPECIFICATION FairSpec
CONSTANTS
    Tasks = {cron, once}
    OneShots = {once}
    Executors = {e1}
    Admin = admin
    MaxRetries = 2
    BaseDelay = 1
    Exponential = TRUE
    Period = 1
    LastRun = 3
    U64 = 32
    MaxExponent = 3
    MaxTime = 5
    MaxNow = 4
    MaxFaults = 1
INVARIANTS
    TypeOK
    RetryBudget
PROPERTIES
    BackoffRespected
    OneShotDoneOnce
    OnlyFaultsStrand
    DueTaskPickedUp
\* The clock is bounded: in the end nothing is due any more.
CHECK_DEADLOCK FALSE
