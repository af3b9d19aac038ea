SPECIFICATION Spec
CONSTANTS
    c0 = c0
    c1 = c1
    e0 = e0
    e1 = e1
    p1 = p1
    p2 = p2
    p3 = p3
    p4 = p4
    p5 = p5
    p6 = p6
    CPUs = {c0, c1}
    Envs = {e0, e1}
    BootEnv = e0
    FirstFree <- SixPages
    NPde = 1
    NPte = 2
    VgaUser = 0
    BootVa = 1
    RefMod = 65536
    Perms = {{"P", "U", "W"}}
    NULL = NULL
    Calls = {"touch", "page", "ipc", "fork", "destroy"}
INVARIANTS TlbCoherent
SYMMETRY Symmetry
