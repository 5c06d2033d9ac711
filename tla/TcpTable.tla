------------------------------ MODULE TcpTable ------------------------------
(***************************************************************************)
(* The connection table at work: every segment that reaches handle_tcp for *)
(* TCP_IP:HOST_TCP_PORT (src/ip.c, src/tcp.c) and every line the user      *)
(* types (interaction_handler). The stack is one process around poll(2),   *)
(* so each handler runs to its end before the next one starts: one action  *)
(* is one whole handler, with the frames it sends and the data it prints.  *)
(*                                                                         *)
(* Nothing is assumed of the peers: any segment of Inputs may arrive at    *)
(* any time, which covers lost, repeated and reordered segments.           *)
(***************************************************************************)
EXTENDS Tcp, Sequences

CONSTANTS
    Peers,      \* peers that may send
    Macs,       \* Ethernet addresses they may send from
    Inputs,     \* segments that may arrive
    Isns,       \* numbers tcp_seq_generator may draw
    Lines       \* lines the user may type

\* A segment as handle_tcp decodes it; len is its data_octets.
Segment == [peer : Peers, mac : Macs, bits : 0 .. 63,
            seq : Seqs, ack : Seqs, len : UInt16]

\* A line as read(2) returns it: len characters, then a newline if nl. The
\* command parser sees the last character and atoi of the ones before it, the
\* chat sees whether the first one is a q. read(2) takes at most 1023.
Line == [len : {n \in Nat : n < 1024}, nl : BOOLEAN, q : BOOLEAN,
         last : {"c", "q", "other"}, id : Int]

ASSUME IsnsAssumption == Isns \subseteq Seqs
ASSUME InputsAssumption == Inputs \subseteq Segment
ASSUME LinesAssumption == Lines \subseteq Line

VARIABLES
    table,      \* tcp_connection_table
    sent,       \* segments the last handler sent, in order
    printed,    \* data the last handler wrote to stdout
    cause       \* history: the peer and control bits the last handler served

vars == <<table, sent, printed, cause>>

\* A line of the user's, or nothing yet.
NoSegment == [peer |-> NoPeer, bits |-> 0]

\* What a write of received data names as its origin, and where it came from.
\* A PSH/ACK is announced with the slot's ip_str and port.
Announce(e, s, octets) ==
    [claimed |-> IF s.bits = PSH_ACK THEN e.peer ELSE s.peer,
     sender |-> s.peer, octets |-> octets]

Init ==
    /\ table = [i \in Slots |-> FreshEntry]
    /\ sent = <<>>
    /\ printed = <<>>
    /\ cause = NoSegment

-----------------------------------------------------------------------------
(* handle_packet on a TCP segment, by the status handle_tcp returns.       *)

\* write(STDOUT_FILENO, ...) during handle_tcp_payload.
Output(e, s) ==
    printed' = IF PayloadOctets(e, s) > 0
               THEN <<Announce(e, s, PayloadOctets(e, s))>>
               ELSE <<>>

\* No slot for the peer and no room: TCP_NONE before handle_tcp_payload.
ReceiveLimitReached(s) ==
    /\ LimitReached(table, s.peer)
    /\ sent' = <<>>
    /\ printed' = <<>>
    /\ UNCHANGED table

\* TCP_NONE, and every negative status the switch has no case for.
ReceiveNoReply(s) ==
    \E i \in Slots :
        /\ Selected(table, s.peer, i)
        /\ PayloadStatus(table[i], s) < 0
        /\ PayloadStatus(table[i], s) \notin {TCP_CLOSED, TCP_FIN_ACK}
        /\ table' = [table EXCEPT ![i] = PayloadEntry(@, s)]
        /\ sent' = <<>>
        /\ Output(table[i], s)

\* One frame goes back: TCP_REG, TCP_CLOSED, or the octets of a PSH/ACK.
ReceiveReply(s) ==
    \E i \in Slots, iss \in Isns :
        /\ Selected(table, s.peer, i)
        /\ \/ PayloadStatus(table[i], s) >= TCP_REG
           \/ PayloadStatus(table[i], s) = TCP_CLOSED
        /\ table' = [table EXCEPT ![i] = PayloadEntry(@, s)]
        /\ sent' = <<PayloadReply(s, iss)>>
        /\ Output(table[i], s)

\* Mutants of ReceiveFinAck: the second transmission is left out; it goes out
\* but the slot is not closed.
ReceiveFinAckOnce(s) ==
    \E i \in Slots, iss \in Isns :
        /\ Selected(table, s.peer, i)
        /\ PayloadStatus(table[i], s) = TCP_FIN_ACK
        /\ table' = [table EXCEPT ![i] = CloseEntry(PayloadEntry(@, s))]
        /\ sent' = <<PayloadReply(s, iss)>>
        /\ Output(table[i], s)
ReceiveFinAckStaysOpen(s) ==
    \E i \in Slots, iss \in Isns :
        /\ Selected(table, s.peer, i)
        /\ PayloadStatus(table[i], s) = TCP_FIN_ACK
        /\ table' = [table EXCEPT ![i] = PayloadEntry(@, s)]
        /\ sent' = <<PayloadReply(s, iss), SecondReply(PayloadReply(s, iss))>>
        /\ Output(table[i], s)

\* TCP_FIN_ACK: the ACK goes out, handle_tcp runs again with flag = 1 (its
\* lookup of the reply's destination finds the same slot), closes the slot,
\* and the FIN/ACK goes out.
ReceiveFinAck(s) ==
    \E i \in Slots, iss \in Isns :
        /\ Selected(table, s.peer, i)
        /\ PayloadStatus(table[i], s) = TCP_FIN_ACK
        /\ table' = [table EXCEPT ![i] = CloseEntry(PayloadEntry(@, s))]
        /\ sent' = <<PayloadReply(s, iss), SecondReply(PayloadReply(s, iss))>>
        /\ Output(table[i], s)

Receive(s) ==
    /\ \/ ReceiveLimitReached(s)
       \/ ReceiveNoReply(s)
       \/ ReceiveReply(s)
       \/ ReceiveFinAck(s)
    /\ cause' = [peer |-> s.peer, bits |-> s.bits]

-----------------------------------------------------------------------------
(* interaction_handler on one read from stdin.                             *)

ReadBytes(l) == l.len + (IF l.nl THEN 1 ELSE 0)

\* promise: the first slot in write mode, or none.
Chatting(i) == /\ table[i].io = 1
               /\ \A j \in Slots : j < i => table[j].io = 0
NoChat == \A i \in Slots : table[i].io = 0

\* parse_connection_command returns an id other than -1.
WellFormed(l) == l.len >= 2 /\ l.last \in {"c", "q"} /\ l.id # -1

\* verify_user_id_input.
ValidId(id) == id \in Slots /\ table[id].status # NOT_CONNECTED

\* Nothing was read, the command does not parse, or its ID names no connection.
CommandRefused(l) ==
    /\ NoChat
    /\ ReadBytes(l) > 0 => ~(WellFormed(l) /\ ValidId(l.id))
    /\ sent' = <<>> /\ printed' = <<>>
    /\ UNCHANGED table

\* "[ID]q": the connection is closed at once and a FIN/ACK is sent, unless
\* create_tcp_segment cannot allocate the frame.
CommandClose(l) ==
    /\ NoChat
    /\ WellFormed(l) /\ ValidId(l.id) /\ l.last = "q"
    /\ \/ /\ table' = [table EXCEPT ![l.id] = CreatedEntry(@, 0)]
          /\ sent' = <<CreatedSegment(table[l.id], 0)>>
       \/ /\ table' = [table EXCEPT ![l.id] = CloseEntry(@)]
          /\ sent' = <<>>
    /\ printed' = <<>>

\* Mutant of CommandChat: no look at promise before a slot enters write mode.
CommandChatAnytime(l) ==
    /\ WellFormed(l) /\ ValidId(l.id) /\ l.last = "c"
    /\ table' = [table EXCEPT ![l.id].io = 1]
    /\ sent' = <<>> /\ printed' = <<>>

\* "[ID]c": the slot enters write mode.
CommandChat(l) ==
    /\ NoChat
    /\ WellFormed(l) /\ ValidId(l.id) /\ l.last = "c"
    /\ table' = [table EXCEPT ![l.id].io = 1]
    /\ sent' = <<>> /\ printed' = <<>>

\* A lone q, with no newline after it, leaves write mode.
ChatExit(l) ==
    \E i \in Slots :
        /\ Chatting(i)
        /\ ReadBytes(l) = 1 /\ l.q
        /\ table' = [table EXCEPT ![i].io = 0]
        /\ sent' = <<>> /\ printed' = <<>>

\* Anything else that was read goes out as one PSH/ACK from the slot in write
\* mode, whatever the slot's status; write mode ends even when the frame
\* cannot be allocated.
ChatSend(l) ==
    \E i \in Slots :
        /\ Chatting(i)
        /\ ReadBytes(l) > 0
        /\ ~(ReadBytes(l) = 1 /\ l.q)
        /\ \/ /\ table' = [table EXCEPT ![i] =
                              [CreatedEntry(@, ReadBytes(l)) EXCEPT !.io = 0]]
              /\ sent' = <<CreatedSegment(table[i], ReadBytes(l))>>
           \/ /\ table' = [table EXCEPT ![i].io = 0]
              /\ sent' = <<>>
        /\ printed' = <<>>

\* End of file in write mode.
ChatNothing(l) ==
    /\ ~NoChat
    /\ ReadBytes(l) = 0
    /\ sent' = <<>> /\ printed' = <<>>
    /\ UNCHANGED table

UserLine(l) ==
    /\ \/ CommandRefused(l)
       \/ CommandClose(l)
       \/ CommandChat(l)
       \/ ChatExit(l)
       \/ ChatSend(l)
       \/ ChatNothing(l)
    /\ cause' = NoSegment

Next == \/ \E s \in Inputs : Receive(s)
        \/ \E l \in Lines : UserLine(l)

Spec == Init /\ [][Next]_vars

-----------------------------------------------------------------------------
(* Properties.                                                             *)

IsOpen(i) == table[i].status # NOT_CONNECTED

SentSegment == [peer : Peers \cup {NoPeer}, mac : Macs \cup {NoMac},
                toPeerPort : BOOLEAN, bits : {ACK, FIN_ACK, SYN_ACK, PSH_ACK},
                seq : Seqs, ack : Seqs, len : UInt16]

Entry == [io : {0, 1}, peer : Peers \cup {NoPeer}, mac : Macs \cup {NoMac},
          next_seq : Seqs, curr_seq : Seqs, status : Statuses]

Announcement == [claimed : Peers \cup {NoPeer}, sender : Peers, octets : 1 .. 127]

\* The table, the frames of a step and the data it prints keep their types:
\* sequence numbers stay in uint32_t through every sum, an int8_t length
\* never reaches write as a count.
TypeOK == /\ table \in [Slots -> Entry]
          /\ sent \in Seq(SentSegment)
          /\ printed \in Seq(Announcement)
          /\ cause \in [peer : Peers \cup {NoPeer}, bits : 0 .. 63]

\* connection_lookup compares keys and never the status, and it stops at the
\* first match: an open connection must not be hidden behind a closed slot
\* with the same key, or its segments would go to the wrong slot. In
\* particular no peer has two open connections.
LookupFindsOpen ==
    \A i \in Slots : IsOpen(i) => Found(table, table[i].peer, i)

\* promise returns the first slot in write mode, so a second one would have
\* its user's text sent elsewhere: io is set in at most one slot, across
\* closes, reuse of the slot and failed sends.
OneChat ==
    \A i, j \in Slots : table[i].io = 1 /\ table[j].io = 1 => i = j

\* The ack number of every segment sent to a known peer is the next_seq of
\* the slot a lookup of that peer finds ("next server's ack number", tcp.h):
\* the reply header and the table are written by different statements, and a
\* user segment takes the number from the table.
AckIsNextSeq ==
    \A n \in DOMAIN sent, i \in Slots :
        Found(table, sent[n].peer, i) => sent[n].ack = table[i].next_seq

\* An open connection is never handed to another peer: is_space and
\* connection_lookup between them never select it for a foreign SYN.
NoEviction ==
    [][\A i \in Slots : IsOpen(i) => table'[i].peer = table[i].peer]_vars

\* A segment of one peer leaves the open connections of all others as they
\* were, also when the peer is unknown and a slot is picked for it.
NoCrosstalk ==
    [][\A i \in Slots :
          /\ cause' # NoSegment
          /\ IsOpen(i) /\ table[i].peer # cause'.peer
          => table'[i] = table[i]]_vars

\* A connection opens half open, in the step that answers its peer with a
\* SYN/ACK for the recorded next_seq; it becomes active only from there.
OpensByHandshake ==
    [][\A i \in Slots :
          /\ ~IsOpen(i) /\ IsOpen(i)' =>
                /\ table'[i].status = SYN_RCVD
                /\ \E r \in {sent'[n] : n \in DOMAIN sent'} :
                      /\ r.bits = SYN_ACK
                      /\ r.peer = table'[i].peer
                      /\ r.ack = table'[i].next_seq
          /\ table[i].status = SYN_RCVD /\ table'[i].status = ACTIVE
                => sent' = <<>>]_vars

\* Whoever closes a connection, its peer is told in the same step: the last
\* segment sent is a FIN/ACK to it. The exception is a user's close whose
\* frame could not be allocated, which closes the slot in silence.
ClosesWithFin ==
    [][\A i \in Slots : IsOpen(i) /\ ~IsOpen(i)' =>
          \/ /\ sent' # <<>>
             /\ sent'[Len(sent')].bits = FIN_ACK
             /\ sent'[Len(sent')].peer = table[i].peer
          \/ sent' = <<>> /\ cause' = NoSegment]_vars

\* A received segment closes a connection only when it is a FIN/ACK
\* (TCP_FIN_ACK, "Double transmission", is the status of that case alone).
OnlyFinCloses ==
    [][\A i \in Slots :
          /\ cause' # NoSegment
          /\ IsOpen(i) /\ ~IsOpen(i)'
          => cause'.bits = FIN_ACK]_vars

\* The connection a PSH/ACK's data is announced under ("Received data from
\* <ip> PORT <port>") is the sender's whenever the sender has one open. Data of
\* a peer without a connection is announced under whatever the slot held.
AnnouncesSender ==
    [][\A n \in DOMAIN printed' :
          (\E i \in Slots : IsOpen(i) /\ table[i].peer = printed'[n].sender)
          => printed'[n].claimed = printed'[n].sender]_vars

\* The table implements the connection map: slots, keys and first-match
\* searches are invisible, and the limit is the capacity.
PeersIn(status) == {table[i].peer : i \in {j \in Slots : table[j].status = status}}

Map == INSTANCE ConnectionMap WITH
          Capacity <- TCP_CONNECTION_LIMIT,
          halfOpen <- PeersIn(SYN_RCVD),
          established <- PeersIn(ACTIVE)

ImplementsMap == Map!CMSpec
=============================================================================
