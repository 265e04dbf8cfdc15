SPECIFICATION TaskSpec
CONSTANTS
    t1 = t1
    t2 = t2
    Threads = {t1, t2}
    TaskIds = {t1, t2}
    TaskOf <- MCTaskOf
    Resources = {1}
    Managers = {lm1, lm2}
    NoOwner = NoOwner
    Free = Free
    NoManager = NoManager
    MaxTimeout = 1
    MaxQuarantine = 1
    MaxLag = 1
    Needs <- MCNeeds
    MaxRetries <- MCMaxRetries
    TimeoutOf <- MCTimeoutOf
    IntervalOf <- MCIntervalOf
    QuarantineOf <- MCQuarantineOf
    Outcomes = {"passed", "failed"}
INVARIANTS
    Serialised
