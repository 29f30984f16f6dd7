SPECIFICATION FairSpec
CONSTANTS
    Clients = {c1, c2}
    Closer = closer
    NoTask = NoTask
    Hosts = {h1, h2, h3}
    Testbed = {h1, h2}
    Cmds = {show}
    OtherRequests = {}
    MaxConnections = 1
    MaxRequests = 1
INVARIANT
    PermitsConserved
PROPERTIES
    RequestsEnd
    ShutdownEnds
CHECK_DEADLOCK FALSE
