SPECIFICATION FairSpec
CONSTANTS
    TCP_CONNECTION_LIMIT = 2
    SeqSpace = 16
    Peers = {p1, p2}
    NoPeer = none
    Macs = {m1}
    NoMac = m0
    Isns = {5}
    Inputs <- MCInputs
    Lines <- NoLines
    Iss = 14
    Window = 1
    DataBits = {24}
    MaxConnects = 2
    MaxOctets = 1
    MaxLines = 0
    MaxLosses = 2
INVARIANTS
    OpenHasLivePeer
    AckedWasPrinted
    PeerHasSlot
PROPERTIES
    EverythingAcked
    CloseCompletes
CHECK_DEADLOCK FALSE
