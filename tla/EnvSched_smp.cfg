SPECIFICATION Spec
CONSTANTS
    c0 = c0
    c1 = c1
    CPUs = {c0,c1}
    BSP = c0
    NENV = 3
    NGen = 2
    NBoot = 2
    NULL = NULL
    Calls = {"exofork", "set_status", "destroy", "ipc", "fault", "breakpoint"}
INVARIANTS LockAndSlotsAgree OneCpuPerEnv StatusTracksCurenv PgdirTracksCurenv NoPanic MonitorOnlyWhenIdleOrAsked
PROPERTIES ChildStartedByParent ZombieFreedByItsCpu
VIEW LiveState
