SPECIFICATION Spec
CONSTANTS
    None = None
    Numerals <- MCNumerals
    StringOrder <- MCStringOrder
    Requests <- MCRequests
    Boards <- MCBoards
    Interfaces <- MCInterfaces
    Devices <- MCDevices
INVARIANTS
    OverrideReachesEveryTask
    SettingsAreInherited
    PlanIsRunnable
    SharedInterfaceIsLocked
    VerdictOnlyWorsens
CHECK_DEADLOCK FALSE
