SPECIFICATION Spec
CONSTANTS
    ENV_NUM_CONFIG_PARTS = 2
    UINT32_MAX = 3
    good = good
    better = better
    bad = bad
    gone = gone
    Kernels = {good}
    NoKernel = NoKernel
    Timeouts = {0, 30}
    Loadable = {good}
    Works = {good}
    Visible <- MCParts
    PowerFails = TRUE
    FirmwareErrors = TRUE
    ReadErrors = FALSE
    WriteErrors = FALSE
    ProbeOk = {TRUE}
    Commands <- AnyCommands
    Procedure = FALSE
    ConfirmFirst = FALSE
INVARIANTS
    TypeOK
    DistinctRevisions
