SPECIFICATION Spec
CONSTANTS
    Root = "R"
    Cases <- MCCases
    Functions <- MCFunctions
    CaseOf <- MCCaseOf
    Position <- MCPosition
    Outcomes = {"passed", "failed"}
    Plans <- MCPlans
INVARIANT StopFailsCase
CHECK_DEADLOCK FALSE
