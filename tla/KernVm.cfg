SPECIFICATION Spec
CONSTANTS
    Machines <- SomeMachines
    PageK = 2
    OneMB = 28
    SixteenMB = 56
    Ext16K = 4
    IOPHYSMEM = 12
    EXTPHYSMEM = 14
    MPENTRY = 2
    PGSIZE = 8
    NPTE = 40
    NUser = 2
    NKern = 2
    InfoSize = 1
    EnvPages = 2
    NCPU = 2
    KSTKSIZE = 2
    KSTKGAP = 2
INVARIANTS FreePagesSafe BootReachable KernMapExact SelfTestsPass
CHECK_DEADLOCK FALSE
