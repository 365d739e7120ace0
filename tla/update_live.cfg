SPECIFICATION FairSpec
CONSTANTS
    ENV_NUM_CONFIG_PARTS = 3
    UINT32_MAX = 7
    good = good
    better = better
    bad = bad
    gone = gone
    Kernels = {good, better, bad, gone}
    NoKernel = NoKernel
    Timeouts = {0, 30}
    Loadable = {good, better, bad}
    Works = {good, better}
    Visible <- MCParts
    PowerFails = TRUE
    FirmwareErrors = FALSE
    ReadErrors = FALSE
    WriteErrors = FALSE
    ProbeOk = {TRUE}
    Commands <- MCCommands
    Procedure = TRUE
    ConfirmFirst = TRUE
INVARIANTS
    MarkedBeforeStart
PROPERTIES
    OutcomeReported
    RollbackHappens
    KeepsPromise
