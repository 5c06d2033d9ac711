SPECIFICATION FairSpec
CONSTANTS
    TCP_CONNECTION_LIMIT = 2
    SeqSpace = 16
    Peers = {p1}
    NoPeer = none
    Macs = {m1}
    NoMac = m0
    Isns = {5}
    Inputs <- MCInputs
    Lines <- NoLines
    Iss = 14
    Window = 1
    DataBits = {16}
    MaxConnects = 1
    MaxOctets = 1
    MaxLines = 0
    MaxLosses = 0
PROPERTIES
    EverythingAcked
CHECK_DEADLOCK FALSE
