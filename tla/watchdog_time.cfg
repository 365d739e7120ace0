SPECIFICATION Spec
CONSTANTS
    Machines <- TcoMachines
    Timeouts = {30, 614, 616}
    WdatPeriod = 600
    WdatRange = 1024
INVARIANT
    TimeoutHonoured
CHECK_DEADLOCK FALSE
