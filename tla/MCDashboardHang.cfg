SPECIFICATION FairSpec
CONSTANTS
    None = None
    Dirs = {"here"}
    Outcomes = {"passed", "failed"}
    Lingers <- MCLingers
    MaxCalls = 1
PROPERTIES
    FailureLeavesByItself
CHECK_DEADLOCK FALSE
