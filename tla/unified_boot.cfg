SPECIFICATION Spec
CONSTANTS
    HEADER = 1
    PAGE = 16
    CMDLINE_VIRT = 32
    DTB_VIRT = 40
    KERNEL_VIRT = 56
    INITRD_VIRT = 72
    a = a
    b = b
    NoFile = NoFile
    NoCompat = NoCompat
    NoTree = NoTree
    Stubs <- MCStubs
    Cmdlines <- MCCmdlines
    KernelFiles <- MCKernelFiles
    Initrds <- MCInitrds
    Dtbs <- MCDtbs
    Garbage <- MCGarbage
    Boards <- MCBoards
    MaxDtbs = 2
    EFI_PAGE_SIZE = 4
    UINTPTR_MAX = 100
    Bases = {4, 8, 100}
    MaxStarts = 2
    MaxFaults = 2
INVARIANTS
    FileLayout
    NothingDangles
    RunsAsBuilt
    CopyFits
CHECK_DEADLOCK FALSE
