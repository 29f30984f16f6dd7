SPECIFICATION FairSpec
CONSTANTS
    Items = {i1, i2}
    Login = login
    NoItem = noitem
    Commands = {show, ping}
    Threads = 1
    Concurrency = 2
    MaxRetries = 3
    InitialDelay = 2
    MaxDelay = 3
    ExtraDelay = 1
    ExtraAttempts = 1
    SmartAttempts = 2
INVARIANTS
    NoTempFileLeft
    DowntimeWasSlept
    RaisedFails
    PlainResultsAgree
    CachedWasAnswered
PROPERTY
    TestEnds
CHECK_DEADLOCK FALSE
