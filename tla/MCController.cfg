SPECIFICATION Spec
CONSTANTS
    Configured = {"ACI", "SDWAN", "IOSXE"}
    MaxTries = 1
INVARIANTS
    AdviceWorks
    TestsAgree
CHECK_DEADLOCK FALSE
