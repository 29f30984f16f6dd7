SPECIFICATION Spec
CONSTANTS
    ApiTests = {a1}
    Devices = {d1}
    Statuses = {"passed", "failed", "skipped", "unfinished"}
    RobotTests = 1
    MaxRuns = 2
    FailureCap = 2
INVARIANT
    ZeroMeansPassed
CHECK_DEADLOCK FALSE
