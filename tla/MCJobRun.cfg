SPECIFICATION FairSpec
CONSTANTS
    Devices = {"d1", "d2"}
    Outcomes = {"passed", "errored"}
    ApiNames <- OneApiTest
    D2dNames <- OneD2dTest
    Files <- AllFiles
    KeepIfDebug <- JobFiles
    Debug = FALSE
    Parallel = 1
    PipeSize = 2
    MaxFaults = 1
INVARIANTS
    StatusIsTrue
    ArchiveTells
    FinishedJobsCount
    LeftBehind
PROPERTIES
    RunEnds
CHECK_DEADLOCK FALSE
