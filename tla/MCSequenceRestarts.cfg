SPECIFICATION Spec
CONSTANTS
    Root = "R"
    Cases <- MCCases
    Functions <- MCFunctions
    CaseOf <- MCCaseOf
    MaxRetries <- MCMaxRetries
    Outcomes = {"passed", "failed"}
    Plans <- MCPlans
    MaxFaults = 1
    MaxRuns = 2
    MaxLeft = 2
INVARIANT SequenceRisesWithinRequest
CHECK_DEADLOCK FALSE
