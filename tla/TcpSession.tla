----------------------------- MODULE TcpSession -----------------------------
(***************************************************************************)
(* The connection table with its peers: hosts with a standard TCP (the     *)
(* clients of src/configuration.md are netcat), each joined to the stack   *)
(* by a link that keeps frames in order and may lose MaxLosses of them.    *)
(* The stack has no timer and never repeats a segment; a peer sends its    *)
(* oldest unacknowledged segment again once its link is idle.              *)
(*                                                                         *)
(* A data segment of a peer carries one octet, so an octet is named by its *)
(* sequence number; SeqSpace must exceed what one connection sends.        *)
(***************************************************************************)
EXTENDS TcpTable, SequencesExt

CONSTANTS
    Iss,            \* a peer's first initial sequence number
    Window,         \* octets (a FIN counts as one) a peer may have in flight
    DataBits,       \* control bits a peer's data may carry
    MaxConnects,    \* bound: connections a peer opens, one after the other
    MaxOctets,      \* bound: octets a peer sends on one connection
    MaxLines,       \* bound: lines the user types
    MaxLosses       \* bound: frames the links lose

ASSUME MacsAssumption == Macs # {}
ASSUME DataBitsAssumption == DataBits \subseteq {ACK, PSH_ACK}
ASSUME BoundsAssumption == {MaxConnects, MaxOctets, MaxLines, MaxLosses} \subseteq Nat

\* The octets of a connection and its FIN have numbers of their own.
ASSUME NumbersAssumption ==
    /\ Iss \in Seqs
    /\ Window \in Nat /\ Window < SeqSpace
    /\ MaxOctets + 1 < SeqSpace

VARIABLES
    peer,           \* the TCP of each peer
    toStack,        \* frames on the link from each peer
    toPeer,         \* frames on the link to each peer
    got,            \* history: octets printed on a peer's current connection
    chat,           \* history: the peer the user last chose to chat with
    lines, losses   \* counters for the bounds

sessionVars == <<vars, peer, toStack, toPeer, got, chat, lines, losses>>

\* una is the oldest unacknowledged number, nxt the next to send, rcv the next
\* expected and data the first octet's of the connection.
PeerState == [st : {"closed", "syn_sent", "established", "close_wait", "fin_wait_1",
                    "fin_wait_2", "closing", "last_ack"},
              una : Seqs, nxt : Seqs, rcv : Seqs, data : Seqs,
              conns : 0 .. MaxConnects]

SessionInit ==
    /\ Init
    /\ peer = [p \in Peers |-> [st |-> "closed", una |-> Iss, nxt |-> Iss, rcv |-> 0,
                                data |-> Iss, conns |-> 0]]
    /\ toStack = [p \in Peers |-> <<>>]
    /\ toPeer = [p \in Peers |-> <<>>]
    /\ got = [p \in Peers |-> <<>>]
    /\ chat = NoPeer
    /\ lines = 0 /\ losses = 0

-----------------------------------------------------------------------------
(* The stack: one handler, then its frames are on the links.               *)

\* The frames of one handler all go to one peer.
Transmit == toPeer' = [p \in Peers |-> IF sent' # <<>> /\ sent'[1].peer = p
                                       THEN toPeer[p] \o sent' ELSE toPeer[p]]

\* bound: an octet printed over and over is recorded twice.
Twice(g, n) == Len(g) > 1 /\ g[Len(g)] = n /\ g[Len(g) - 1] = n

\* The poll loop reads one frame from the link of p.
StackReceive(p) ==
    /\ toStack[p] # <<>>
    /\ Receive(Head(toStack[p]))
    /\ toStack' = [toStack EXCEPT ![p] = Tail(@)]
    /\ Transmit
    /\ got' = IF printed' = <<>> \/ Twice(got[p], Head(toStack[p]).seq) THEN got
              ELSE [got EXCEPT ![p] = Append(@, Head(toStack[p]).seq)]
    /\ UNCHANGED <<peer, chat, lines, losses>>

StackUserLine(l) ==
    /\ lines < MaxLines
    /\ UserLine(l)
    /\ Transmit
    /\ lines' = lines + 1
    /\ chat' = IF CommandChat(l) THEN table[l.id].peer ELSE chat
    /\ UNCHANGED <<peer, toStack, got, losses>>

-----------------------------------------------------------------------------
(* The peers and their links.                                              *)

\* Distance from a to b in sequence space.
Gap(a, b) == Wrap(b - a)

Seg(p, bits, seq, ack, len) ==
    [peer |-> p, mac |-> CHOOSE m \in Macs : TRUE, bits |-> bits,
     seq |-> seq, ack |-> ack, len |-> len]

Send(p, s) == toStack' = [toStack EXCEPT ![p] = Append(@, s)]

LinkIdle(p) == toStack[p] = <<>> /\ toPeer[p] = <<>>

\* A connection starts on an idle link; its numbers follow the last one's.
PeerConnect(p) ==
    /\ peer[p].st = "closed" /\ peer[p].conns < MaxConnects
    /\ LinkIdle(p)
    /\ LET iss == peer[p].nxt IN
         /\ peer' = [peer EXCEPT ![p] =
                       [st |-> "syn_sent", una |-> iss, nxt |-> Wrap(iss + 1), rcv |-> 0,
                        data |-> Wrap(iss + 1), conns |-> @.conns + 1]]
         /\ Send(p, Seg(p, SYN, iss, 0, 0))
    /\ got' = [got EXCEPT ![p] = <<>>]
    /\ UNCHANGED <<vars, toPeer, chat, lines, losses>>

PeerSend(p) ==
    /\ peer[p].st \in {"established", "close_wait"}
    /\ Gap(peer[p].una, peer[p].nxt) < Window
    /\ Gap(peer[p].data, peer[p].nxt) < MaxOctets
    /\ \E bits \in DataBits : Send(p, Seg(p, bits, peer[p].nxt, peer[p].rcv, 1))
    /\ peer' = [peer EXCEPT ![p].nxt = Wrap(@ + 1)]
    /\ UNCHANGED <<vars, toPeer, got, chat, lines, losses>>

PeerClose(p) ==
    /\ Gap(peer[p].una, peer[p].nxt) < Window
    /\ \/ /\ peer[p].st = "established"
          /\ peer' = [peer EXCEPT ![p].st = "fin_wait_1", ![p].nxt = Wrap(@ + 1)]
       \/ /\ peer[p].st = "close_wait"
          /\ peer' = [peer EXCEPT ![p].st = "last_ack", ![p].nxt = Wrap(@ + 1)]
    /\ Send(p, Seg(p, FIN_ACK, peer[p].nxt, peer[p].rcv, 0))
    /\ UNCHANGED <<vars, toPeer, got, chat, lines, losses>>

\* The peer's FIN is out and was not acknowledged.
Closing(e) == e.st \in {"fin_wait_1", "closing", "last_ack"}

PeerRetransmit(p) ==
    /\ peer[p].una # peer[p].nxt
    /\ LinkIdle(p)
    /\ \/ /\ peer[p].st = "syn_sent"
          /\ Send(p, Seg(p, SYN, peer[p].una, 0, 0))
       \/ /\ Closing(peer[p]) /\ Gap(peer[p].una, peer[p].nxt) = 1
          /\ Send(p, Seg(p, FIN_ACK, peer[p].una, peer[p].rcv, 0))
       \/ /\ peer[p].st # "syn_sent"
          /\ Closing(peer[p]) => Gap(peer[p].una, peer[p].nxt) > 1
          /\ \E bits \in DataBits : Send(p, Seg(p, bits, peer[p].una, peer[p].rcv, 1))
    /\ UNCHANGED <<vars, peer, toPeer, got, chat, lines, losses>>

InConnection(e) == e.st \notin {"closed", "syn_sent"}

\* A peer in a connection takes the acknowledgement of a segment, which may be
\* its FIN's.
Acknowledged(e, r) ==
    LET una == IF Gap(e.una, r.ack) <= Gap(e.una, e.nxt) THEN r.ack ELSE e.una
    IN  [e EXCEPT !.una = una,
                  !.st = IF una # e.nxt           THEN @
                         ELSE IF @ = "fin_wait_1" THEN "fin_wait_2"
                         ELSE IF Closing(e)       THEN "closed"
                         ELSE @]

\* It takes the data or the FIN of the segment it expects.
Accepted(e, r) ==
    [e EXCEPT !.rcv = Wrap(@ + r.len + (IF r.bits = FIN_ACK THEN 1 ELSE 0)),
              !.st = IF r.bits # FIN_ACK        THEN @
                     ELSE IF @ = "established"  THEN "close_wait"
                     ELSE IF @ = "fin_wait_1"   THEN "closing"
                     ELSE IF @ = "fin_wait_2"   THEN "closed"
                     ELSE @]

\* The peer takes the next frame off its link. Frames for another port, or for
\* no connection, are dropped (the reset they provoke is one the stack
\* ignores). A segment out of sequence is answered with the number expected;
\* hosts differ in whether they still take the acknowledgement of a late ACK.
PeerReceive(p) ==
    /\ toPeer[p] # <<>>
    /\ toPeer' = [toPeer EXCEPT ![p] = Tail(@)]
    /\ LET r == Head(toPeer[p])
           e == peer[p]
           ack(f) == Send(p, Seg(p, ACK, f.nxt, f.rcv, 0))
       IN
       \/ /\ \/ ~r.toPeerPort
             \/ e.st = "closed"
             \/ e.st = "syn_sent" /\ ~(r.bits = SYN_ACK /\ r.ack = e.nxt)
          /\ UNCHANGED <<peer, toStack>>
       \/ /\ e.st = "syn_sent" /\ r.bits = SYN_ACK /\ r.ack = e.nxt
          /\ peer' = [peer EXCEPT ![p].st = "established", ![p].una = e.nxt,
                                  ![p].rcv = Wrap(r.seq + 1)]
          /\ ack(peer'[p])
       \/ /\ r.toPeerPort /\ InConnection(e)
          /\ r.bits = SYN_ACK \/ r.seq # e.rcv
          /\ ack(e)
          /\ \/ UNCHANGED peer
             \/ r.bits = ACK /\ peer' = [peer EXCEPT ![p] = Acknowledged(@, r)]
       \/ /\ r.toPeerPort /\ InConnection(e)
          /\ r.bits # SYN_ACK /\ r.seq = e.rcv
          /\ peer' = [peer EXCEPT ![p] = Accepted(Acknowledged(@, r), r)]
          /\ IF r.len > 0 \/ r.bits = FIN_ACK THEN ack(peer'[p]) ELSE UNCHANGED toStack
    /\ UNCHANGED <<vars, got, chat, lines, losses>>

Lose(p) ==
    /\ losses < MaxLosses
    /\ losses' = losses + 1
    /\ \/ /\ toStack[p] # <<>>
          /\ toStack' = [toStack EXCEPT ![p] = Tail(@)]
          /\ UNCHANGED toPeer
       \/ /\ toPeer[p] # <<>>
          /\ toPeer' = [toPeer EXCEPT ![p] = Tail(@)]
          /\ UNCHANGED toStack
    /\ UNCHANGED <<vars, peer, got, chat, lines>>

SessionNext ==
    \/ \E p \in Peers : \/ StackReceive(p) \/ PeerReceive(p) \/ PeerRetransmit(p)
                        \/ PeerConnect(p) \/ PeerSend(p) \/ PeerClose(p)
                        \/ Lose(p)
    \/ \E l \in Lines : StackUserLine(l)

SessionSpec == SessionInit /\ [][SessionNext]_sessionVars

\* poll(2) returns while any link has a frame, and the loop serves every link
\* it reports; the peers' TCP answers and repeats. Nobody has to connect, send,
\* close or type, and no link has to lose a frame.
Fairness == \A p \in Peers : /\ WF_sessionVars(StackReceive(p))
                             /\ WF_sessionVars(PeerReceive(p))
                             /\ WF_sessionVars(PeerRetransmit(p))

FairSpec == SessionSpec /\ Fairness

-----------------------------------------------------------------------------
(* Properties.                                                             *)

SessionTypeOK ==
    /\ peer \in [Peers -> PeerState]
    /\ toStack \in [Peers -> Seq(Segment)]
    /\ toPeer \in [Peers -> Seq(SentSegment)]

\* No frame was lost, or no line typed: a line typed after a loss may carry an
\* acknowledgement of what was lost, which the stack recorded from a later segment.
Calm == losses = 0 \/ lines = 0

\* An open slot has a living peer: an active one a peer that completed the
\* handshake, a half-open one a peer that asked for it, and none outlives the FIN
\* of its peer being acknowledged. The other way round, see PeerHasSlot.
OpenHasLivePeer ==
    Calm => \A i \in Slots : IsOpen(i) =>
        peer[table[i].peer].st \in
            {"established", "fin_wait_1"}
            \cup (IF table[i].status = SYN_RCVD THEN {"syn_sent"} ELSE {})

\* A peer that is connected, and has not said that it closes, has its open slot:
\* whatever is lost and repeated, other peers' segments and a full table included,
\* nothing but the user takes it away. (The user does: when a connection is closed
\* half open, its FIN/ACK has the stale curr_seq of the slot, the peer does not take
\* it and stays connected.)
PeerHasSlot ==
    lines = 0 => \A p \in Peers : peer[p].st = "established" =>
        \E i \in Slots : IsOpen(i) /\ table[i].peer = p

\* The octets a peer sent that were acknowledged; its FIN's number is not one.
OctetsSent(e) == Gap(e.data, e.nxt) - (IF Closing(e) \/ e.st = "fin_wait_2" THEN 1 ELSE 0)
AckedOctets(e) == {n \in Seqs : /\ Gap(e.data, n) < OctetsSent(e)
                                /\ Gap(e.data, n) < Gap(e.data, e.una)}

\* An acknowledgement is a promise: every octet a peer takes for delivered was
\* written to the user's terminal.
AckedWasPrinted ==
    Calm => \A p \in Peers : InConnection(peer[p]) => AckedOctets(peer[p]) \subseteq ToSet(got[p])

\* Until a frame is lost or a line typed, the user reads the octets of a
\* connection once each and in order.
InOrderOutput ==
    losses = 0 /\ lines = 0 =>
        \A p \in Peers : \A k \in DOMAIN got[p] : got[p][k] = Wrap(peer[p].data + k - 1)

\* With nothing under way, both ends of an active connection agree on both
\* directions' numbers.
QuietEndsAgree ==
    Calm => \A i \in Slots :
        LET p == table[i].peer IN
        /\ table[i].status = ACTIVE
        /\ LinkIdle(p) /\ peer[p].una = peer[p].nxt
        => table[i].next_seq = peer[p].nxt /\ table[i].curr_seq = peer[p].rcv

\* curr_seq is the number the stack's next octet has to carry, in whatever
\* order its own data and its peer's cross on the link.
CurrSeqIsNext ==
    \A i \in Slots :
        LET p == table[i].peer IN
        table[i].status = ACTIVE =>
            table[i].curr_seq =
                Wrap(FoldLeft(LAMBDA n, r : n + r.len, peer[p].rcv, toPeer[p]))

\* Text goes to the peer the user chose to chat with.
ChatReachesChosen ==
    \A n \in DOMAIN sent : sent[n].bits = PSH_ACK => sent[n].peer = chat

\* Whatever a peer sends, SYN, data or FIN, is acknowledged in the end.
EverythingAcked ==
    \A p \in Peers : peer[p].una # peer[p].nxt ~> peer[p].una = peer[p].nxt

\* A peer's close ends the connection on both sides, unless a frame is lost:
\* the stack sends its FIN once.
CloseCompletes ==
    \A p \in Peers : peer[p].st = "fin_wait_1" ~> peer[p].st = "closed" \/ losses > 0
=============================================================================
