SPECIFICATION MCSpec
CONSTANTS
    IntBits = 4
    MaxT = 6
    MaxSlots = 2
    LINE = 2
    Null = null
    STDIN_MAX <- MCStdinMax
    STDIN_ROOM = 1
    FILE_MAX = 5
    Stray = stray
    Octet = 3
    Old = old
    FrameLimit = 3
    Programs = {"backoff", "study", "hexread", "hexdump", "checksum", "frames"}
    Texts <- MCTexts
    Dumped <- MCDumped
    Headers <- MCHeaders
INVARIANTS
    NoDeviceLost
    OneFramePerSlot
    AttemptsAccounted
    DecodesText
    DumpsAll
    ChecksumTells
    PrintsWhatWasSent
PROPERTIES
    PortCarriesOne
CHECK_DEADLOCK FALSE
