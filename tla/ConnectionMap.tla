--------------------------- MODULE ConnectionMap ---------------------------
(***************************************************************************)
(* What the connection table promises, with no slots, keys or searches: a  *)
(* bounded set of connections, each at one peer, half open until the       *)
(* handshake's ACK and then established. TcpTable implements it.           *)
(***************************************************************************)
EXTENDS Integers, FiniteSets

CONSTANTS Peers,             \* peers that may send
          Capacity           \* TCP_CONNECTION_LIMIT

VARIABLES halfOpen,          \* peers whose SYN was answered
          established        \* peers whose handshake is complete

cmVars == <<halfOpen, established>>

Connected == halfOpen \cup established

CMInit == halfOpen = {} /\ established = {}

\* A SYN opens a connection while there is room, or restarts the handshake
\* of the connection the peer already has.
Open(p) ==
    /\ p \in Connected \/ Cardinality(Connected) < Capacity
    /\ halfOpen' = halfOpen \cup {p}
    /\ established' = established \ {p}

\* The ACK of the SYN/ACK.
Establish(p) ==
    /\ p \in halfOpen
    /\ halfOpen' = halfOpen \ {p}
    /\ established' = established \cup {p}

\* Either side's FIN.
Close(p) ==
    /\ p \in Connected
    /\ halfOpen' = halfOpen \ {p}
    /\ established' = established \ {p}

CMNext == \E p \in Peers : Open(p) \/ Establish(p) \/ Close(p)

CMSpec == CMInit /\ [][CMNext]_cmVars
=============================================================================
