SPECIFICATION Spec
CONSTANTS
    Items = {i1, i2}
    Login = login
    NoItem = noitem
    Commands = {show, ping}
    Threads = 1
    Concurrency = 1
    MaxRetries = 3
    InitialDelay = 2
    MaxDelay = 3
    ExtraDelay = 1
    ExtraAttempts = 1
    SmartAttempts = 2
INVARIANT
    FailedIsReportedFailed
CHECK_DEADLOCK FALSE
