SPECIFICATION Spec
CONSTANTS
    ENV_NUM_CONFIG_PARTS = 3
    UINT32_MAX = 3
    Kernels = {}
    NoKernel = NoKernel
    Timeouts = {0}
    Records <- MCRecords
INVARIANTS
    ScanCorrect
    LibraryScansCorrect
    SameLatest
    SuccessMeansComplete
CHECK_DEADLOCK FALSE
