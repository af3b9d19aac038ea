SPECIFICATION FairSpec
CONSTANTS
    c0 = c0
    c1 = c1
    CPUs = {c0,c1}
    BSP = c0
    NENV = 4
    NGen = 1
    NBoot = 4
    NULL = NULL
    Calls = {"set_status", "destroy", "ipc", "fault", "breakpoint"}
PROPERTIES RunnableRuns
