SPECIFICATION Spec
CONSTANTS
    Keys <- MCKeys
    Scenes <- MCScenes
    SerialBytes = {"a", "BS", "RUBOUT", "CR"}
    Outputs = {"a", "TAB", "CR", "BS"}
    MaxHeld = 2
    MaxPending = 2
    CONSBUFSIZE = 3
    BUFLEN = 4
    CRT_COLS = 2
    CRT_ROWS = 2
    NULL = NULL
INVARIANTS NoStuckModifier ScreenExact
PROPERTIES ImplementsInputQueue
