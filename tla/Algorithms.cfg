SPECIFICATION Spec
CONSTANTS
    NULL = NULL
    IntMod = 256
    LongMod = 65536
    MAXERROR = 9
    MAXARGS = 3
    Commands <- TwoCommands
    MaxAddr = 17
    MaxMove = 8
    MaxStr = 3
    MaxNum = 40
    MaxWidth = 4
    MaxFmt = 3
    FmtChars = {"%", "-", "0", "2", ".", "*", "#", "l", "s", "d", "e", "c", "p", "z"}
    MaxLine = 6
    NStabs = 4
    NFuns = 2
    MaxSeg = 5
    MaxFree = 9
    CountTo = 110
    SECTSIZE = 4
    PGSIZE = 4
    TablePages = 5
    AddrBytes = 32
    ULIM = 12
    StackPage = 6
    Junk = Junk
INVARIANTS StringsExact FormatExact DebuggerExact RangesExact TrapFrameUniform
CHECK_DEADLOCK FALSE
