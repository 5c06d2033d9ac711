SPECIFICATION MCSpec
CONSTANTS
    IntBits = 4
    MaxT = 6
    MaxSlots = 2
    LINE = 2
    Null = null
    STDIN_MAX <- MCStdinMax
    STDIN_ROOM = 1
    FILE_MAX = 5
    Stray = stray
    Octet = 3
    Old = old
    FrameLimit = 3
    Programs = {"hexread"}
    Texts <- MCDumpTexts
    Dumped <- MCDumped
    Headers <- MCHeaders
INVARIANT FlushWritesBuffer
CHECK_DEADLOCK FALSE
