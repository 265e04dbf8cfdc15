SPECIFICATION FairSpec
CONSTANTS
    None = None
    Dirs = {"here", "there"}
    Outcomes = {"passed", "failed"}
    Lingers <- MCLingers
    MaxCalls = 2
INVARIANTS
    RunControlTypeOK
    ExitCodeTellsTheRun
    AutoExitShowsTheEnd
    OneSampler
PROPERTIES
    EndedRunIsReported
    SamplersEnd
CHECK_DEADLOCK FALSE
