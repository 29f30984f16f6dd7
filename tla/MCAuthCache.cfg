SPECIFICATION FairSpec
CONSTANTS
    Runs = {r1, r2}
    Tests = {a}
    Preflight = preflight
    NoFile = NoFile
    Unlocked = Unlocked
    Torn = Torn
    Crashes = TRUE
INVARIANTS
    OneHolderUnlessBroken
    NoNeedlessLogin
    NoFileError
    PreflightSeesNewToken
PROPERTY
    CallsEnd
CHECK_DEADLOCK FALSE
