SPECIFICATION Spec
CONSTANTS
    ENV_NUM_CONFIG_PARTS = 2
    Machines <- MCMachines
    NoPartition = NoPartition
    NoLabel = NoLabel
    NoPath = NoPath
    NoDisk = NoDisk
    Labels <- MCLabels
    MaxFaults = 2
    MaxSearches = 2
INVARIANTS
    RecoveryMode
    KernelByLabel
    SearchExact
    MountsRestored
    SameFiles
CHECK_DEADLOCK FALSE
