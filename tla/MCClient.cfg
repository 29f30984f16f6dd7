SPECIFICATION FairSpec
CONSTANTS
    Callers = {t1, t2, t3}
    NoCaller = NoCaller
    Calls = {"request", "connect", "disconnect"}
    CommandsFail = TRUE
    BrokerStops = TRUE
    MaxCalls = 4
    MaxSockets = 3
INVARIANTS
    FramesPaired
    NoSocketLeak
PROPERTY
    CallsReturnUnlessLocked
CHECK_DEADLOCK FALSE
