SPECIFICATION Spec
CONSTANTS
    parent = parent
    child = child
    Envs = {parent, child}
    Parent = parent
    Child = child
    FirstFree <- SixteenPages
    NPde = 3
    NPte = 2
    UTEMP = 0
    VgaUser = 1
    DataVa = 2
    MoreVa = 3
    StackVa = 5
    MorePerms = {{"P", "U"}, {"P", "U", "W"}, {"P", "U", "W", "M"}}
    MaxSteal = 9
    RefMod = 65536
    NULL = NULL
INVARIANTS ChildIsCopy ParentIntact MemoryAccounted
CHECK_DEADLOCK FALSE
