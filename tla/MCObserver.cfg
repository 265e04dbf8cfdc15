SPECIFICATION FairSpec
CONSTANTS
    Root = "R"
    Cases <- MCCases
    Functions <- MCFunctions
    CaseOf <- MCCaseOf
    MaxRetries <- MCMaxRetries
    Outcomes = {"passed", "failed"}
    Plans <- MCPlans
    MaxFaults = 1
    MaxRuns = 2
    MaxLeft = 2
INVARIANTS
    ObserverTypeOK
    EventsAreNested
    SequenceOrdersOneProcess
    EventsExplainSnapshot
    NoFinalStatusTooEarly
    EndedRunIsOnDisk
PROPERTIES
    RunComesToAnEnd
CHECK_DEADLOCK FALSE
