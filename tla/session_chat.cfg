SPECIFICATION SessionSpec
CONSTANTS
    TCP_CONNECTION_LIMIT = 2
    SeqSpace = 16
    Peers = {p1, p2}
    NoPeer = none
    Macs = {m1}
    NoMac = m0
    Isns = {5}
    Inputs <- MCInputs
    Lines <- AllLines
    Iss = 14
    Window = 1
    DataBits = {24}
    MaxConnects = 1
    MaxOctets = 2
    MaxLines = 3
    MaxLosses = 0
INVARIANTS
    ChatReachesChosen
CHECK_DEADLOCK FALSE
