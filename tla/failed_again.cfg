SPECIFICATION Spec
CONSTANTS
    ENV_NUM_CONFIG_PARTS = 2
    UINT32_MAX = 5
    good = good
    better = better
    bad = bad
    gone = gone
    Kernels = {good, bad, gone}
    NoKernel = NoKernel
    Timeouts = {0, 30}
    Loadable = {good, bad}
    Works = {good}
    Visible <- MCParts
    PowerFails = FALSE
    FirmwareErrors = FALSE
    ReadErrors = FALSE
    WriteErrors = FALSE
    ProbeOk = {TRUE}
    Commands <- MCCommands
    Procedure = TRUE
    ConfirmFirst = FALSE
INVARIANTS
    FailedNeverBooted
CHECK_DEADLOCK FALSE
