SPECIFICATION FairSpec
CONSTANTS
    c0 = c0
    c1 = c1
    c2 = c2
    CPUs = {c0, c1, c2}
    NULL = NULL
    Misuse = TRUE
INVARIANTS MutualExclusion MisuseCaught
PROPERTIES ImplementsMutex SomebodyGetsIn
