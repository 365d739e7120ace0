SPECIFICATION Spec
CONSTANTS
    ENV_NUM_CONFIG_PARTS = 2
    UINT32_MAX = 5
    good = good
    better = better
    bad = bad
    gone = gone
    Kernels = {good, bad, gone}
    NoKernel = NoKernel
    Timeouts = {0, 30}
    Loadable = {good, bad}
    Works = {good}
    Visible <- AnyParts
    PowerFails = TRUE
    FirmwareErrors = TRUE
    ReadErrors = TRUE
    WriteErrors = TRUE
    ProbeOk = {TRUE, FALSE}
    Commands <- MCCommands
    Procedure = TRUE
    ConfirmFirst = TRUE
INVARIANTS
    AlwaysBootable
    RollbackWorks
PROPERTIES
    ConfirmedNeverLost
