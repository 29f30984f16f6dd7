SPECIFICATION FairSpec
CONSTANTS
    Callers = {t1, t2}
    NoCaller = NoCaller
    Calls = {"request"}
    CommandsFail = TRUE
    BrokerStops = FALSE
    MaxCalls = 4
    MaxSockets = 2
PROPERTIES
    CallsReturn
CHECK_DEADLOCK FALSE
