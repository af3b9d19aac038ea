SPECIFICATION Spec
CONSTANTS
    c0 = c0
    c1 = c1
    e0 = e0
    e1 = e1
    p1 = p1
    p2 = p2
    p3 = p3
    p4 = p4
    p5 = p5
    p6 = p6
    CPUs = {c0}
    Envs = {e0, e1}
    BootEnv = e0
    FirstFree <- FivePages
    NPde = 2
    NPte = 2
    VgaUser = 2
    BootVa = 3
    RefMod = 65536
    Perms = {{"P", "U"}}
    NULL = NULL
    Calls = {"page", "fork", "map_unmapped"}
INVARIANTS NoPanic
