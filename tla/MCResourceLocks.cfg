SPECIFICATION FairSpec
CONSTANTS
    t1 = t1
    t2 = t2
    Threads = {t1, t2}
    TaskIds = {t1, t2}
    TaskOf <- MCTaskOf
    Resources = {1, 2}
    Managers = {lm}
    NoOwner = NoOwner
    Free = Free
    MaxTimeout = 1
    MaxQuarantine = 1
    MaxLag = 1
INVARIANTS
    TypeOK
    MutualExclusion
    OwnershipMatchesCalls
    NoOwnerInQuarantine
PROPERTIES
    ImplementsLockTable
    CallsReturn
CHECK_DEADLOCK TRUE
