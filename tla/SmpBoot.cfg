SPECIFICATION Spec
CONSTANTS
    NCPU = 3
    NEnvs = 3
    MmioPages = 4
    Machines <- BootFirst
INVARIANTS TypeOK StacksPrivate SetupExclusive SchedAfterBoot
PROPERTIES EveryCpuComesUp
