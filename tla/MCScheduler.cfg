SPECIFICATION FairSpec
CONSTANTS
    Root = "R"
    Cases <- MCCases
    Functions <- MCFunctions
    CaseOf <- MCCaseOf
    Position <- MCPosition
    Outcomes = {"passed", "failed"}
    Plans <- MCPlans
INVARIANTS
    SchedulerTypeOK
    NothingOutlivesItsContainer
    
    DependenciesRespected
    AbortedForAReason
    PassedMeansAllPassed
PROPERTIES
    StopIsFinal
    RunEnds
    ImplementsTaskTree
CHECK_DEADLOCK FALSE
