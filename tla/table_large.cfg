SPECIFICATION Spec
CONSTANTS
    TCP_CONNECTION_LIMIT = 2
    SeqSpace = 4
    Peers = {p1, p2, zero}
    NoPeer = zero
    Macs = {m1}
    NoMac = m0
    Lens = {0, 253}
    SeqsIn = {3}
    Isns = {2}
    Inputs <- MCInputs
    Lines <- MCLines
PROPERTIES
    OnlyFinCloses
CHECK_DEADLOCK FALSE
