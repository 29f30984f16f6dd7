SPECIFICATION Spec
CONSTANTS
    Clients = {c1, c2, c3}
    Closer = closer
    NoTask = NoTask
    Hosts = {h1}
    Testbed = {h1}
    Cmds = {show}
    OtherRequests = {"connect", "disconnect"}
    MaxConnections = 1
    MaxRequests = 1
SYMMETRY ClientSymmetry
INVARIANTS
    OneCallPerDevice
    OwnSession
    CacheMatchesSession
    AnswerNotOlderThanRequest
    NoRedundantExecution
PROPERTIES
    RetryOnFreshSession
    DeviceSpec
CHECK_DEADLOCK FALSE
