\* One cron task: it fails, succeeds and fails again.
SPECIFICATION FairSpec
CONSTANTS
    Tasks = {cron}
    OneShots = {}
    Executors = {e1}
    Admin = admin
    MaxRetries = 2
    BaseDelay = 1
    Exponential = FALSE
    Period = 2
    LastRun = 8
    U64 = 64
    MaxExponent = 4
    MaxTime = 8
    MaxNow = 6
    MaxFaults = 0
INVARIANT ConsecutiveFailures
CHECK_DEADLOCK FALSE
