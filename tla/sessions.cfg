SPECIFICATION Spec
SYMMETRY Symmetry
CONSTANTS
    ENV_NUM_CONFIG_PARTS = 2
    UINT32_MAX = 4
    Kernels = {k1}
    NoKernel = NoKernel
    Timeouts = {0}
    Procs = {p1, p2}
    Serial = TRUE
    MaxMisreads = 2
    NoPart = NoPart
INVARIANTS
    ConfirmedSurvives
PROPERTIES
    NoLostUpdate
