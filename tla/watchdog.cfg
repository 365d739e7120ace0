SPECIFICATION Spec
CONSTANTS
    Machines <- MCMachines
    Timeouts = {0, 1, 30, 255, 256, 614, 1229, 8388, 65535}
    WdatPeriod = 600
    WdatRange = 1024
INVARIANTS
    TypeOK
    SuccessMeansArmed
    NeverUntimed
    PlatformFirst
    NothingMissed
    TimeEnough
PROPERTIES
    Ends
CHECK_DEADLOCK FALSE
