SPECIFICATION StackSpec
CONSTANTS
    TCP_CONNECTION_LIMIT = 1
    SeqSpace = 4
    Peers <- MCPeers
    NoPeer <- MCNoPeer
    Macs = {"host1"}
    NoMac = "zero"
    Isns = {2}
    Inputs <- MCInputs
    Lines <- MCLines
    NUMBER_INTERFACES = 3
    IfMac <- MCIfMac
    IfIp <- MCIfIp
    Routes <- MCRoutes
    ArpCache <- MCArpCache
    NoGateway <- MCNoGateway
    Broadcast = "ff"
    HOST_TCP_PORT = 1234
    Frames <- MCFrames
PROPERTIES
    DroppedLeavesTable
CHECK_DEADLOCK FALSE
