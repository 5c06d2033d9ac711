-------------------------- MODULE TcpSessionProofs --------------------------
(***************************************************************************)
(* Proofs about TcpSession, for every number of peers and slots and every  *)
(* bound: types, and that open slots and connected peers have each other.  *)
(***************************************************************************)
EXTENDS TcpSession, TcpTableProofs

USE DEF NOT_CONNECTED, ACTIVE, SYN_RCVD, SYN, ACK, FIN_ACK, SYN_ACK, PSH_ACK,
        TCP_NONE, TCP_REG, TCP_CLOSED, TCP_FIN_ACK

-----------------------------------------------------------------------------
(* Distances in sequence space.                                            *)

\* A distance is a sequence number.
LEMMA GapValue ==
  ASSUME NEW a \in Seqs, NEW b \in Seqs
  PROVE  /\ Gap(a, b) = IF a <= b THEN b - a ELSE b - a + SeqSpace
         /\ Gap(a, b) \in Nat /\ Gap(a, b) < SeqSpace
  <1>1. a \in Int /\ b \in Int /\ 0 <= a /\ a < SeqSpace /\ 0 <= b /\ b < SeqSpace
        /\ SeqSpace \in Int
    BY SeqSpaceAssumption DEF Seqs
  <1>2. CASE a <= b
    BY <1>1, <1>2 DEF Gap, Wrap
  <1>3. CASE ~ (a <= b)
    <2>1. (b - a) % SeqSpace = b - a + SeqSpace
      BY <1>1, <1>3
    <2>2. QED
      BY <1>1, <1>3, <2>1 DEF Gap, Wrap
  <1>4. QED
    BY <1>2, <1>3

\* A segment of k octets, or a FIN, moves a number k further away.
LEMMA GapNext ==
  ASSUME NEW a \in Seqs, NEW b \in Seqs, NEW k \in {0, 1}, Gap(a, b) + k < SeqSpace
  PROVE  Wrap(b + k) \in Seqs /\ Gap(a, Wrap(b + k)) = Gap(a, b) + k
  <1>1. a \in Int /\ b \in Int /\ 0 <= a /\ a < SeqSpace /\ 0 <= b /\ b < SeqSpace
        /\ SeqSpace \in Int /\ Wrap(b + k) \in Seqs
    BY SeqSpaceAssumption, WrapType DEF Seqs
  <1>2. Wrap(b + k) = IF b + k < SeqSpace THEN b + k ELSE 0
    BY <1>1 DEF Wrap
  <1>3. /\ Gap(a, b) = IF a <= b THEN b - a ELSE b - a + SeqSpace
        /\ Gap(a, Wrap(b + k)) = IF a <= Wrap(b + k) THEN Wrap(b + k) - a
                                 ELSE Wrap(b + k) - a + SeqSpace
    BY <1>1, GapValue
  <1>4. CASE b + k < SeqSpace
    BY <1>1, <1>2, <1>3, <1>4
  <1>5. CASE ~ (b + k < SeqSpace)
    BY <1>1, <1>2, <1>3, <1>5
  <1>6. QED
    BY <1>1, <1>4, <1>5

\* Nothing is at distance zero but the number itself.
LEMMA GapSame ==
  ASSUME NEW a \in Seqs, NEW b \in Seqs, NEW c \in Seqs
  PROVE  Gap(a, a) = 0 /\ (Gap(a, b) = Gap(a, c) => b = c)
  <1>1. a \in Int /\ b \in Int /\ c \in Int /\ SeqSpace \in Int
        /\ 0 <= a /\ a < SeqSpace /\ 0 <= b /\ b < SeqSpace /\ 0 <= c /\ c < SeqSpace
    BY SeqSpaceAssumption DEF Seqs
  <1>2. QED
    BY <1>1, GapValue

\* From a nearer number, the rest of the way is left.
LEMMA GapRest ==
  ASSUME NEW a \in Seqs, NEW b \in Seqs, NEW c \in Seqs, Gap(a, b) <= Gap(a, c)
  PROVE  Gap(b, c) = Gap(a, c) - Gap(a, b)
  <1>1. a \in Int /\ b \in Int /\ c \in Int /\ SeqSpace \in Int
        /\ 0 <= a /\ a < SeqSpace /\ 0 <= b /\ b < SeqSpace /\ 0 <= c /\ c < SeqSpace
    BY SeqSpaceAssumption DEF Seqs
  <1>2. QED
    BY <1>1, GapValue

-----------------------------------------------------------------------------
(* Types.                                                                  *)

\* What a peer may send.
Sendable(p, s) == /\ s \in Segment /\ s.peer = p
                  /\ s.bits \in {SYN, ACK, FIN_ACK, PSH_ACK}
                  /\ s.len \in {0, 1}
                  /\ s.len = 1 => s.bits \in {ACK, PSH_ACK}
                  /\ s.bits = PSH_ACK => s.len = 1

FromStack(r) == r \in SentSegment /\ (r.bits = SYN_ACK => r.toPeerPort)


\* A handler's frames.
LEMMA ReplyFrames ==
  ASSUME TableInv, NEW s \in Segment, Receive(s)
  PROVE  sent' \in Seq(SentSegment) /\ \A n \in 1 .. Len(sent') : FromStack(sent'[n])
  <1>1. sent' \in Seq(SentSegment)
    BY ReceiveType DEF TableInv
  <1>2. ASSUME NEW n \in 1 .. Len(sent') PROVE FromStack(sent'[n])
    <2>1. sent'[n] \in SentSegment /\ n \in DOMAIN sent'
      BY <1>1
    <2>2. sent'[n].toPeerPort = (s.bits # ACK)
      BY <2>1, ReplyFacts
    <2>3. CASE s.bits = ACK
      <3>1. \E iss \in Isns : sent' = <<PayloadReply(s, iss)>>
        BY <2>1, <2>3 DEF Receive, ReceiveLimitReached, ReceiveNoReply, ReceiveReply,
                          ReceiveFinAck, PayloadStatus
      <3>2. QED
        BY <2>1, <2>3, <3>1 DEF FromStack, PayloadReply
    <2>4. QED
      BY <2>1, <2>2, <2>3 DEF FromStack
  <1>3. QED
    BY <1>1, <1>2

LEMMA UserFrames ==
  ASSUME TableInv, NEW l \in Lines, UserLine(l)
  PROVE  sent' \in Seq(SentSegment) /\ \A n \in 1 .. Len(sent') : FromStack(sent'[n])
  <1>1. sent' \in Seq(SentSegment)
    BY UserType DEF TableInv
  <1>2. ASSUME NEW i \in Slots, NEW n \in Nat, sent' = <<CreatedSegment(table[i], n)>>
        PROVE  \A m \in 1 .. Len(sent') : FromStack(sent'[m])
    <2>1. CreatedSegment(table[i], n).bits \in {FIN_ACK, PSH_ACK}
      BY DEF CreatedSegment
    <2>2. Len(sent') = 1 /\ sent'[1] = CreatedSegment(table[i], n) /\ 1 \in 1 .. Len(sent')
      BY <1>2
    <2>3. sent'[1] \in SentSegment
      <3>1. \A q \in Seq(SentSegment) : \A m \in 1 .. Len(q) : q[m] \in SentSegment
        OBVIOUS
      <3>2. 1 \in 1 .. Len(sent')
        BY <2>2
      <3>3. QED
        BY <1>1, <3>1, <3>2
    <2>4. CreatedSegment(table[i], n).bits # SYN_ACK
      BY <2>1
    <2>5. QED
      BY <2>2, <2>3, <2>4 DEF FromStack
  <1>3. QED
    BY <1>1, <1>2, UserSends

\* A peer's segments are of the kinds it may send.
LEMMA SegSendable ==
  ASSUME NEW p \in Peers, NEW bits \in {SYN, ACK, FIN_ACK, PSH_ACK},
         NEW seq \in Seqs, NEW ack \in Seqs, NEW len \in {0, 1},
         bits = PSH_ACK => len = 1, len = 1 => bits \in {ACK, PSH_ACK}
  PROVE  Sendable(p, Seg(p, bits, seq, ack, len))
  <1>1. (CHOOSE m \in Macs : TRUE) \in Macs
    BY MacsAssumption
  <1>2. bits \in 0 .. 63 /\ len \in UInt16
    BY DEF UInt16
  <1>3. Seg(p, bits, seq, ack, len) \in Segment
    BY <1>1, <1>2 DEF Seg, Segment
  <1>4. /\ Seg(p, bits, seq, ack, len).peer = p
        /\ Seg(p, bits, seq, ack, len).bits = bits
        /\ Seg(p, bits, seq, ack, len).len = len /\ Seg(p, bits, seq, ack, len).ack = ack
    BY DEF Seg
  <1>5. QED
    BY <1>3, <1>4 DEF Sendable

\* The links from the peers.
LinksTyped(links) ==
    /\ links \in [Peers -> Seq(Segment)]
    /\ \A p \in Peers : \A n \in 1 .. Len(links[p]) : Sendable(p, links[p][n])

LEMMA SendTyped ==
  ASSUME LinksTyped(toStack), NEW p \in Peers, NEW s, Sendable(p, s), Send(p, s)
  PROVE  LinksTyped(toStack')
  <1>1. s \in Segment /\ toStack[p] \in Seq(Segment)
    BY DEF Sendable, LinksTyped
  <1>2. toStack' = [toStack EXCEPT ![p] = Append(toStack[p], s)]
    BY DEF Send
  <1>3. toStack' \in [Peers -> Seq(Segment)]
    BY <1>1, <1>2 DEF LinksTyped
  <1>4. ASSUME NEW q \in Peers, NEW n \in 1 .. Len(toStack'[q])
        PROVE  Sendable(q, toStack'[q][n])
    <2>1. CASE q # p
      <3>1. toStack'[q] = toStack[q]
        BY <1>2, <2>1 DEF LinksTyped
      <3>2. QED
        BY <1>4, <3>1 DEF LinksTyped
    <2>2. CASE q = p
      <3>1. toStack'[q] = Append(toStack[p], s)
        BY <1>2, <2>2 DEF LinksTyped
      <3>2. n \in 1 .. Len(toStack[p]) + 1
            /\ toStack'[q][n] = IF n <= Len(toStack[p]) THEN toStack[p][n] ELSE s
        BY <1>1, <1>4, <3>1
      <3>3. n \in 1 .. Len(toStack[p]) \/ ~ (n <= Len(toStack[p]))
        BY <1>1, <3>2
      <3>4. QED
        BY <2>2, <3>2, <3>3 DEF LinksTyped
    <2>3. QED
      BY <2>1, <2>2
  <1>5. QED
    BY <1>3, <1>4 DEF LinksTyped

LEMMA TailTyped ==
  ASSUME LinksTyped(toStack), NEW p \in Peers, toStack[p] # <<>>,
         toStack' = [toStack EXCEPT ![p] = Tail(@)]
  PROVE  LinksTyped(toStack') /\ Sendable(p, Head(toStack[p])) /\ Head(toStack[p]) \in Segment
  <1>1. toStack[p] \in Seq(Segment) /\ Len(toStack[p]) \in Nat \ {0}
    BY DEF LinksTyped
  <1>2. toStack' \in [Peers -> Seq(Segment)]
    BY <1>1 DEF LinksTyped
  <1>3. ASSUME NEW q \in Peers, NEW n \in 1 .. Len(toStack'[q])
        PROVE  Sendable(q, toStack'[q][n])
    <2>1. CASE q # p
      <3>1. toStack'[q] = toStack[q]
        BY <2>1 DEF LinksTyped
      <3>2. QED
        BY <1>3, <3>1 DEF LinksTyped
    <2>2. CASE q = p
      <3>1. toStack'[q] = Tail(toStack[p])
        BY <2>2 DEF LinksTyped
      <3>2. n \in 1 .. Len(Tail(toStack[p]))
        BY <1>3, <3>1
      <3>3. n + 1 \in 1 .. Len(toStack[p]) /\ Tail(toStack[p])[n] = toStack[p][n + 1]
        BY <1>1, <3>2
      <3>4. QED
        BY <2>2, <3>1, <3>3 DEF LinksTyped
    <2>3. QED
      BY <2>1, <2>2
  <1>4. Head(toStack[p]) = toStack[p][1] /\ 1 \in 1 .. Len(toStack[p])
    BY <1>1
  <1>5. QED
    BY <1>1, <1>2, <1>3, <1>4 DEF LinksTyped

\* The links to the peers.
FramesTyped(links) ==
    /\ links \in [Peers -> Seq(SentSegment)]
    /\ \A p \in Peers : \A n \in 1 .. Len(links[p]) : FromStack(links[p][n])

\* A handler's frames go to the end of one queue.
LEMMA TransmitType ==
  ASSUME FramesTyped(toPeer), Transmit,
         sent' \in Seq(SentSegment), \A n \in 1 .. Len(sent') : FromStack(sent'[n])
  PROVE  FramesTyped(toPeer')
  <1>0. \A p \in Peers : /\ toPeer[p] \in Seq(SentSegment)
                          /\ \A n \in 1 .. Len(toPeer[p]) : FromStack(toPeer[p][n])
    BY DEF FramesTyped
  <1>1. ASSUME NEW p \in Peers
        PROVE  /\ toPeer'[p] \in Seq(SentSegment)
               /\ \A n \in 1 .. Len(toPeer'[p]) : FromStack(toPeer'[p][n])
    <2>1. toPeer'[p] = toPeer[p] \/ toPeer'[p] = toPeer[p] \o sent'
      BY DEF Transmit
    <2>2. CASE toPeer'[p] = toPeer[p] \o sent'
      <3>1. /\ toPeer'[p] \in Seq(SentSegment)
            /\ Len(toPeer'[p]) = Len(toPeer[p]) + Len(sent')
            /\ \A n \in 1 .. Len(toPeer'[p]) :
                  toPeer'[p][n] = IF n <= Len(toPeer[p]) THEN toPeer[p][n]
                                                         ELSE sent'[n - Len(toPeer[p])]
        BY <1>0, <2>2
      <3>2. ASSUME NEW n \in 1 .. Len(toPeer'[p]) PROVE FromStack(toPeer'[p][n])
        <4>1. n \in 1 .. Len(toPeer[p]) \/ (~(n <= Len(toPeer[p]))
                                            /\ n - Len(toPeer[p]) \in 1 .. Len(sent'))
          BY <1>0, <3>1, <3>2
        <4>2. CASE n \in 1 .. Len(toPeer[p])
          BY <1>0, <3>1, <3>2, <4>2
        <4>3. CASE ~(n <= Len(toPeer[p])) /\ n - Len(toPeer[p]) \in 1 .. Len(sent')
          BY <3>1, <3>2, <4>3
        <4>4. QED
          BY <4>1, <4>2, <4>3
      <3>3. QED
        BY <3>1, <3>2
    <2>3. QED
      BY <1>0, <2>1, <2>2
  <1>2. toPeer' \in [Peers -> Seq(SentSegment)]
    BY <1>1 DEF Transmit
  <1>3. QED
    BY <1>1, <1>2 DEF FramesTyped

LEMMA TakeTyped ==
  ASSUME FramesTyped(toPeer), NEW p \in Peers, toPeer[p] # <<>>,
         toPeer' = [toPeer EXCEPT ![p] = Tail(@)]
  PROVE  FramesTyped(toPeer') /\ FromStack(Head(toPeer[p]))
  <1>1. toPeer[p] \in Seq(SentSegment) /\ Len(toPeer[p]) \in Nat \ {0}
    BY DEF FramesTyped
  <1>2. toPeer' \in [Peers -> Seq(SentSegment)]
    BY <1>1 DEF FramesTyped
  <1>3. ASSUME NEW q \in Peers, NEW n \in 1 .. Len(toPeer'[q])
        PROVE  FromStack(toPeer'[q][n])
    <2>1. CASE q # p
      <3>1. toPeer'[q] = toPeer[q]
        BY <2>1 DEF FramesTyped
      <3>2. QED
        BY <1>3, <3>1 DEF FramesTyped
    <2>2. CASE q = p
      <3>1. toPeer'[q] = Tail(toPeer[p])
        BY <2>2 DEF FramesTyped
      <3>2. n \in 1 .. Len(Tail(toPeer[p]))
        BY <1>3, <3>1
      <3>3. n + 1 \in 1 .. Len(toPeer[p]) /\ Tail(toPeer[p])[n] = toPeer[p][n + 1]
        BY <1>1, <3>2
      <3>4. QED
        BY <3>1, <3>3 DEF FramesTyped
    <2>3. QED
      BY <2>1, <2>2
  <1>4. Head(toPeer[p]) = toPeer[p][1] /\ 1 \in 1 .. Len(toPeer[p])
    BY <1>1
  <1>5. QED
    BY <1>2, <1>3, <1>4 DEF FramesTyped

\* What a peer makes of a frame is a state of a peer.
LEMMA PeerTyped ==
  ASSUME NEW e \in PeerState, NEW r \in SentSegment
  PROVE  Acknowledged(e, r) \in PeerState /\ Accepted(e, r) \in PeerState
  <1>1. r.ack \in Seqs
        /\ Wrap(e.rcv + r.len + (IF r.bits = FIN_ACK THEN 1 ELSE 0)) \in Seqs
    <2>1. r.ack \in Seqs /\ r.len \in Nat /\ e.rcv \in Int
      BY DEF SentSegment, PeerState, UInt16, Seqs
    <2>2. QED
      BY <2>1, WrapType
  <1>2. Acknowledged(e, r) \in PeerState
    BY <1>1 DEF Acknowledged, PeerState, Closing
  <1>3. Accepted(e, r) \in PeerState
    BY <1>1 DEF Accepted, PeerState
  <1>4. QED
    BY <1>2, <1>3

SessionTypes ==
    /\ TableInv
    /\ peer \in [Peers -> PeerState]
    /\ LinksTyped(toStack) /\ FramesTyped(toPeer)
    /\ lines \in Nat /\ losses \in Nat

\* The initial state and the steps of the stack.
LEMMA InitTypes == SessionInit => SessionTypes
  <1>. SUFFICES ASSUME SessionInit PROVE SessionTypes
    OBVIOUS
  <1>1. TableInv
    BY TableInvInit DEF SessionInit
  <1>2. 0 \in Seqs /\ 0 \in 0 .. MaxConnects
    BY SeqSpaceAssumption, BoundsAssumption DEF Seqs
  <1>3. peer \in [Peers -> PeerState]
    BY <1>2, NumbersAssumption DEF SessionInit, PeerState
  <1>4. LinksTyped(toStack) /\ FramesTyped(toPeer)
    BY DEF SessionInit, LinksTyped, FramesTyped
  <1>5. QED
    BY <1>1, <1>3, <1>4 DEF SessionInit, SessionTypes

LEMMA StackTypes ==
  ASSUME SessionTypes,
         \/ \E p \in Peers : StackReceive(p)
         \/ \E l \in Lines : StackUserLine(l)
  PROVE  SessionTypes'
  <1>1. CASE \E p \in Peers : StackReceive(p)
    <2>1. PICK p \in Peers : StackReceive(p)
      BY <1>1
    <2>2. LinksTyped(toStack') /\ Head(toStack[p]) \in Segment
      BY <2>1, TailTyped DEF StackReceive, SessionTypes
    <2>3. Receive(Head(toStack[p])) /\ Transmit
      BY <2>1 DEF StackReceive
    <2>4. TableInv'
      BY <2>2, <2>3, ReceiveStep, TableStepKeeps DEF SessionTypes, TableInv, TableType
    <2>5. FramesTyped(toPeer')
      BY <2>2, <2>3, ReplyFrames, TransmitType DEF SessionTypes
    <2>6. QED
      BY <2>1, <2>2, <2>4, <2>5 DEF StackReceive, SessionTypes
  <1>2. CASE \E l \in Lines : StackUserLine(l)
    <2>1. PICK l \in Lines : StackUserLine(l)
      BY <1>2
    <2>2. UserLine(l) /\ Transmit
      BY <2>1 DEF StackUserLine
    <2>3. TableInv'
      BY <2>2, UserStep, TableStepKeeps DEF SessionTypes, TableInv, TableType
    <2>4. FramesTyped(toPeer')
      BY <2>2, UserFrames, TransmitType DEF SessionTypes
    <2>5. QED
      BY <2>1, <2>3, <2>4 DEF StackUserLine, SessionTypes
  <1>3. QED
    BY <1>1, <1>2

\* The table is the stack's.
LEMMA TableSame == ASSUME TableInv, UNCHANGED vars PROVE TableInv'
  BY TableStepKeeps DEF TableStep, vars

\* The steps of a peer and of its links.
LEMMA PeerTypes ==
  ASSUME SessionTypes, NEW p \in Peers,
         \/ PeerConnect(p) \/ PeerSend(p) \/ PeerClose(p) \/ PeerRetransmit(p)
         \/ PeerReceive(p) \/ Lose(p)
  PROVE  SessionTypes'
  <1>1. TableInv'
    BY TableSame DEF SessionTypes, PeerConnect, PeerSend, PeerClose, PeerRetransmit,
                     PeerReceive, Lose
  <1>2. /\ peer[p] \in PeerState /\ peer \in [Peers -> PeerState]
        /\ LinksTyped(toStack) /\ FramesTyped(toPeer)
        /\ lines \in Nat /\ losses \in Nat
    BY DEF SessionTypes
  <1>3. /\ peer[p].una \in Seqs /\ peer[p].nxt \in Seqs /\ peer[p].rcv \in Seqs
        /\ Wrap(peer[p].nxt + 1) \in Seqs /\ 0 \in Seqs
    <2>1. peer[p].nxt + 1 \in Int /\ 0 \in Seqs
      BY <1>2, SeqSpaceAssumption DEF PeerState, Seqs
    <2>2. QED
      BY <1>2, <2>1, WrapType DEF PeerState
  <1>4. CASE PeerConnect(p)
    <2>1. /\ LinksTyped(toStack')
      BY <1>2, <1>3, <1>4, SegSendable, SendTyped DEF PeerConnect
    <2>2. peer[p].conns + 1 \in 0 .. MaxConnects
      BY <1>2, <1>4, BoundsAssumption DEF PeerConnect, PeerState
    <2>3. peer' \in [Peers -> PeerState]
      BY <1>2, <1>3, <1>4, <2>2 DEF PeerConnect, PeerState
    <2>4. QED
      BY <1>1, <1>2, <1>4, <2>1, <2>3 DEF PeerConnect, SessionTypes
  <1>5. CASE PeerSend(p)
    <2>1. PICK bits \in DataBits : Send(p, Seg(p, bits, peer[p].nxt, peer[p].rcv, 1))
      BY <1>5 DEF PeerSend
    <2>2. bits \in {ACK, PSH_ACK}
      BY DataBitsAssumption
    <2>3. Sendable(p, Seg(p, bits, peer[p].nxt, peer[p].rcv, 1))
      BY <1>3, <2>2, SegSendable
    <2>4. LinksTyped(toStack')
      BY <1>2, <2>1, <2>3, SendTyped
    <2>5. peer' \in [Peers -> PeerState]
      BY <1>2, <1>3, <1>5 DEF PeerSend, PeerState
    <2>6. QED
      BY <1>1, <1>2, <1>5, <2>4, <2>5 DEF PeerSend, SessionTypes
  <1>6. CASE PeerClose(p)
    <2>1. LinksTyped(toStack')
      BY <1>2, <1>3, <1>6, SegSendable, SendTyped DEF PeerClose
    <2>2. peer' \in [Peers -> PeerState]
      BY <1>2, <1>3, <1>6 DEF PeerClose, PeerState
    <2>3. QED
      BY <1>1, <1>2, <1>6, <2>1, <2>2 DEF PeerClose, SessionTypes
  <1>7. CASE PeerRetransmit(p)
    <2>1. \E s : Sendable(p, s) /\ Send(p, s)
      <3>1. CASE \E bits \in DataBits :
                    Send(p, Seg(p, bits, peer[p].una, peer[p].rcv, 1))
        <4>1. PICK bits \in DataBits : Send(p, Seg(p, bits, peer[p].una, peer[p].rcv, 1))
          BY <3>1
        <4>2. bits \in {ACK, PSH_ACK}
          BY DataBitsAssumption
        <4>3. Sendable(p, Seg(p, bits, peer[p].una, peer[p].rcv, 1))
          BY <1>3, <4>2, SegSendable
        <4>4. QED
          BY <4>1, <4>3
      <3>2. /\ Sendable(p, Seg(p, SYN, peer[p].una, 0, 0))
            /\ Sendable(p, Seg(p, FIN_ACK, peer[p].una, peer[p].rcv, 0))
        BY <1>3, SegSendable
      <3>3. QED
        BY <1>7, <3>1, <3>2 DEF PeerRetransmit
    <2>2. LinksTyped(toStack')
      BY <1>2, <2>1, SendTyped
    <2>3. QED
      BY <1>1, <1>2, <1>7, <2>2 DEF PeerRetransmit, SessionTypes
  <1>8. CASE PeerReceive(p)
    <2>1. FramesTyped(toPeer') /\ FromStack(Head(toPeer[p]))
      BY <1>2, <1>8, TakeTyped DEF PeerReceive
    <2>2. Head(toPeer[p]) \in SentSegment
      BY <2>1 DEF FromStack
    <2>3. peer' \in [Peers -> PeerState]
      <3>1. /\ Acknowledged(peer[p], Head(toPeer[p])) \in PeerState
            /\ Accepted(Acknowledged(peer[p], Head(toPeer[p])), Head(toPeer[p]))
                  \in PeerState
        BY <1>2, <2>2, PeerTyped
      <3>2. Wrap(Head(toPeer[p]).seq + 1) \in Seqs
        <4>1. Head(toPeer[p]).seq + 1 \in Int
          BY <2>2 DEF SentSegment, Seqs
        <4>2. QED
          BY <4>1, WrapType
      <3>3. [peer[p] EXCEPT !.st = "established", !.una = peer[p].nxt,
                            !.rcv = Wrap(Head(toPeer[p]).seq + 1)] \in PeerState
        BY <1>2, <1>3, <3>2 DEF PeerState
      <3>4. QED
        BY <1>2, <1>8, <3>1, <3>3 DEF PeerReceive
    <2>4. LinksTyped(toStack')
      <3>1. peer'[p] \in PeerState
        BY <2>3
      <3>2. /\ peer[p].nxt \in Seqs /\ peer[p].rcv \in Seqs
            /\ peer'[p].nxt \in Seqs /\ peer'[p].rcv \in Seqs
        BY <1>2, <3>1 DEF PeerState
      <3>3. /\ Sendable(p, Seg(p, ACK, peer[p].nxt, peer[p].rcv, 0))
            /\ Sendable(p, Seg(p, ACK, peer'[p].nxt, peer'[p].rcv, 0))
        BY <3>2, SegSendable
      <3>4. \/ toStack' = toStack
            \/ Send(p, Seg(p, ACK, peer[p].nxt, peer[p].rcv, 0))
            \/ Send(p, Seg(p, ACK, peer'[p].nxt, peer'[p].rcv, 0))
        BY <1>8 DEF PeerReceive
      <3>5. QED
        BY <1>2, <3>3, <3>4, SendTyped
    <2>5. QED
      BY <1>1, <1>2, <1>8, <2>1, <2>3, <2>4 DEF PeerReceive, SessionTypes
  <1>9. CASE Lose(p)
    <2>1. LinksTyped(toStack') /\ FramesTyped(toPeer')
      BY <1>2, <1>9, TailTyped, TakeTyped DEF Lose
    <2>2. QED
      BY <1>1, <1>2, <1>9, <2>1 DEF Lose, SessionTypes
  <1>10. QED
    BY <1>4, <1>5, <1>6, <1>7, <1>8, <1>9

LEMMA StepTypes == SessionTypes /\ [SessionNext]_sessionVars => SessionTypes'
  <1>. SUFFICES ASSUME SessionTypes, [SessionNext]_sessionVars PROVE SessionTypes'
    OBVIOUS
  <1>1. CASE SessionNext
    BY <1>1, StackTypes, PeerTypes DEF SessionNext
  <1>2. CASE UNCHANGED sessionVars
    BY <1>2, TableSame DEF sessionVars, SessionTypes, LinksTyped, FramesTyped
  <1>3. QED
    BY <1>1, <1>2

\* Peers, links and table keep their types in every session; in particular the numbers
\* both ends compute stay in uint32_t, and the table's invariants hold with real peers.
THEOREM SessionTypeCorrect == SessionSpec => []SessionTypeOK
  <1>1. SessionTypes => SessionTypeOK
    BY DEF SessionTypes, SessionTypeOK, LinksTyped, FramesTyped
  <1>2. QED
    BY InitTypes, StepTypes, <1>1, PTL DEF SessionSpec

-----------------------------------------------------------------------------
(* What holds of a peer e, the links in from it and out to it and the open *)
(* slots it has in the table, while the session is calm; kept says that no *)
(* frame was lost.                                                         *)

\* A SYN is under way from a peer that waits for its answer.
SynOpens(e, in) == \A n \in 1 .. Len(in) : in[n].bits = SYN => e.st = "syn_sent"

\* A FIN/ACK is on its way to the peer of a closed connection.
FinCloses(out, rows) ==
    \A n \in 1 .. Len(out) : out[n].bits = FIN_ACK => rows = {}

\* The slots of a peer that has its handshake before it: the SYN, then a half-open
\* slot whose SYN/ACK is under way; what follows that acknowledges the SYN.
Handshake(e, in, out, rows, kept) ==
    e.st = "syn_sent" =>
        /\ e.nxt = e.data /\ Wrap(e.una + 1) = e.data
        /\ in # <<>> => /\ Len(in) = 1
                        /\ in[1].bits = SYN /\ Wrap(in[1].seq + 1) = e.data
                        /\ \A n \in 1 .. Len(out) : out[n].bits \notin {SYN_ACK, FIN_ACK}
                        /\ kept => rows = {}
        /\ \A row \in rows : row.status = SYN_RCVD /\ row.next_seq = e.data
        /\ rows # {} =>
              /\ kept => \E n \in 1 .. Len(out) : out[n].bits = SYN_ACK
              /\ \A n, m \in 1 .. Len(out) :
                    out[n].bits = SYN_ACK /\ n <= m => out[m].ack = e.data

\* A segment that acknowledges no FIN, or that the stack reads after the FIN.
BeforeFin(e, in, n, kept) ==
    \/ Gap(e.data, in[n].seq) + in[n].len <= OctetsSent(e)
    \/ in[n].len = 0 /\ (kept => \E m \in 1 .. n : in[m].bits = FIN_ACK)

\* The slots of a peer in its connection: the stack acknowledges its octets, and not
\* its FIN, which closes the slot.
Connected(e, in, out, rows, kept) ==
    e.st \in {"established", "fin_wait_1"} /\ rows # {} =>
        /\ OctetsSent(e) <= MaxOctets
        /\ Gap(e.data, e.una) <= OctetsSent(e)
        /\ \A n \in 1 .. Len(out) :
              out[n].toPeerPort => Gap(e.data, out[n].ack) <= OctetsSent(e)
        /\ kept => \A row \in rows : Gap(e.data, row.next_seq) <= OctetsSent(e)
        /\ \A n \in 1 .. Len(in) : BeforeFin(e, in, n, kept)
        /\ kept /\ e.st = "fin_wait_1" => \E n \in 1 .. Len(in) : in[n].bits = FIN_ACK

Live(e, rows) == rows # {} => e.st \in {"syn_sent", "established", "fin_wait_1"}

Fine(e, in, out, rows, kept) ==
    /\ SynOpens(e, in) /\ FinCloses(out, rows)
    /\ Handshake(e, in, out, rows, kept) /\ Connected(e, in, out, rows, kept)
    /\ Live(e, rows)

Rows(p) == {table[i] : i \in {j \in Slots : IsOpen(j) /\ table[j].peer = p}}

SessionInv ==
    Calm => \A p \in Peers : Fine(peer[p], toStack[p], toPeer[p], Rows(p), losses = 0)

-----------------------------------------------------------------------------
(* Queues.                                                                 *)

LEMMA AppendAt ==
  ASSUME NEW S, NEW q \in Seq(S), NEW x \in S
  PROVE  /\ Append(q, x) \in Seq(S) /\ Len(Append(q, x)) = Len(q) + 1
         /\ \A n \in 1 .. Len(q) : Append(q, x)[n] = q[n]
         /\ Append(q, x)[Len(q) + 1] = x
         /\ \A n \in 1 .. Len(Append(q, x)) : n \in 1 .. Len(q) \/ n = Len(q) + 1
         /\ Len(q) + 1 \in 1 .. Len(Append(q, x))
         /\ \A n \in 1 .. Len(q) : n \in 1 .. Len(Append(q, x))
  <1>1. Append(q, x) \in Seq(S) /\ Len(Append(q, x)) = Len(q) + 1 /\ Len(q) \in Nat
    OBVIOUS
  <1>2. \A n \in 1 .. Len(q) : Append(q, x)[n] = q[n]
    OBVIOUS
  <1>3. Append(q, x)[Len(q) + 1] = x
    OBVIOUS
  <1>4. QED
    BY <1>1, <1>2, <1>3

LEMMA TailAt ==
  ASSUME NEW S, NEW q \in Seq(S), q # <<>>
  PROVE  /\ Tail(q) \in Seq(S) /\ Len(Tail(q)) = Len(q) - 1 /\ Len(q) \in Nat
         /\ Head(q) = q[1] /\ 1 \in 1 .. Len(q) /\ Head(q) \in S
         /\ \A n \in 1 .. Len(Tail(q)) : n + 1 \in 1 .. Len(q) /\ Tail(q)[n] = q[n + 1]
         /\ \A n \in 1 .. Len(q) : n # 1 => /\ n - 1 \in 1 .. Len(Tail(q))
                                            /\ Tail(q)[n - 1] = q[n]
  OBVIOUS

-----------------------------------------------------------------------------
(* The octets a peer has sent.                                             *)

LEMMA Sent ==
  ASSUME NEW e \in PeerState
  PROVE  /\ OctetsSent(e) \in Int
         /\ e.st = "established" => OctetsSent(e) = Gap(e.data, e.nxt)
         /\ e.st = "fin_wait_1" => OctetsSent(e) = Gap(e.data, e.nxt) - 1
         /\ e.data \in Seqs /\ e.nxt \in Seqs /\ e.una \in Seqs
         /\ \A n \in Seqs : Gap(e.data, n) \in Nat
  <1>1. e.data \in Seqs /\ e.nxt \in Seqs /\ e.una \in Seqs
    BY DEF PeerState
  <1>2. \A n \in Seqs : Gap(e.data, n) \in Nat
    BY <1>1, GapValue
  <1>3. QED
    BY <1>1, <1>2 DEF OctetsSent, Closing

LEMMA Numbers ==
  /\ MaxOctets \in Nat /\ SeqSpace \in Nat \ {0} /\ MaxOctets + 1 < SeqSpace
  /\ Window \in Nat /\ Window < SeqSpace
  BY NumbersAssumption, BoundsAssumption, SeqSpaceAssumption

\* The distances of what is under way are numbers.
LEMMA Distances ==
  ASSUME NEW e \in PeerState
  PROVE  /\ \A out \in Seq(SentSegment) : \A n \in 1 .. Len(out) :
               Gap(e.data, out[n].ack) \in Nat
         /\ \A rows \in SUBSET Entry : \A row \in rows : Gap(e.data, row.next_seq) \in Nat
         /\ Gap(e.data, e.nxt) \in Nat /\ Gap(e.data, e.una) \in Nat
  <1>1. ASSUME NEW out \in Seq(SentSegment), NEW n \in 1 .. Len(out)
        PROVE  Gap(e.data, out[n].ack) \in Nat
    <2>1. out[n] \in SentSegment
      OBVIOUS
    <2>2. out[n].ack \in Seqs
      BY <2>1 DEF SentSegment
    <2>3. QED
      BY <2>2, Sent
  <1>2. ASSUME NEW rows \in SUBSET Entry, NEW row \in rows
        PROVE  Gap(e.data, row.next_seq) \in Nat
    <2>1. row.next_seq \in Seqs
      BY DEF Entry
    <2>2. QED
      BY <2>1, Sent
  <1>3. QED
    BY <1>1, <1>2, Sent

\* Octets of one connection are counted without a wrap.
LEMMA GapStep ==
  ASSUME NEW e \in PeerState, NEW n \in Seqs, NEW k \in {0, 1},
         Gap(e.data, n) + k <= MaxOctets
  PROVE  Gap(e.data, Wrap(n + k)) = Gap(e.data, n) + k
  <1>1. e.data \in Seqs /\ Gap(e.data, n) + k < SeqSpace
    BY Sent, Numbers
  <1>2. QED
    BY <1>1, GapNext, Zenon

\* A queue that grows at its end keeps what was known of its frames.
LEMMA BeforeFinAppend ==
  ASSUME NEW e, NEW in \in Seq(Segment), NEW s \in Segment, NEW kept,
         NEW n \in 1 .. Len(in), BeforeFin(e, in, n, kept)
  PROVE  BeforeFin(e, Append(in, s), n, kept)
  <1>1. \A m \in 1 .. n : m \in 1 .. Len(in)
    OBVIOUS
  <1>2. \A m \in 1 .. n : Append(in, s)[m] = in[m]
    BY <1>1, AppendAt
  <1>3. n \in 1 .. n
    OBVIOUS
  <1>4. QED
    BY <1>2, <1>3 DEF BeforeFin

\* A queue that loses its head keeps it too, unless that was the FIN.
LEMMA BeforeFinTail ==
  ASSUME NEW e, NEW in \in Seq(Segment), in # <<>>, NEW kept,
         kept => in[1].bits # FIN_ACK,
         NEW n \in 1 .. Len(Tail(in)), BeforeFin(e, in, n + 1, kept)
  PROVE  BeforeFin(e, Tail(in), n, kept)
  <1>1. Tail(in)[n] = in[n + 1]
    BY TailAt
  <1>2. ASSUME NEW m \in 1 .. n + 1, in[m].bits = FIN_ACK, kept
        PROVE  \E k \in 1 .. n : Tail(in)[k].bits = FIN_ACK
    <2>1. m # 1 /\ m \in 1 .. Len(in)
      BY <1>2, TailAt
    <2>2. m - 1 \in 1 .. n /\ Tail(in)[m - 1] = in[m]
      BY <1>2, <2>1, TailAt
    <2>3. QED
      BY <1>2, <2>2
  <1>3. QED
    BY <1>1, <1>2 DEF BeforeFin

\* It is kept when the peer sends more.
LEMMA BeforeFinMore ==
  ASSUME NEW e \in PeerState, NEW f \in PeerState, f.data = e.data,
         OctetsSent(e) <= OctetsSent(f),
         NEW in \in Seq(Segment), NEW n \in 1 .. Len(in), NEW kept,
         BeforeFin(e, in, n, kept)
  PROVE  BeforeFin(f, in, n, kept)
  <1>1. in[n] \in Segment
    OBVIOUS
  <1>2. in[n].seq \in Seqs /\ in[n].len \in Nat
    BY <1>1 DEF Segment, UInt16
  <1>3. Gap(e.data, in[n].seq) \in Nat /\ OctetsSent(e) \in Int /\ OctetsSent(f) \in Int
    BY <1>2, Sent
  <1>4. QED
    BY <1>2, <1>3 DEF BeforeFin

-----------------------------------------------------------------------------
(* The steps of a peer.                                                    *)

\* A connection starts on an idle link, with no slot of the last one left open.
LEMMA ConnectFine ==
  ASSUME NEW e \in PeerState, NEW rows, NEW kept,
         Fine(e, <<>>, <<>>, rows, kept), e.st = "closed",
         NEW s \in Segment, s.bits = SYN, s.seq = e.nxt,
         NEW f \in PeerState, f.st = "syn_sent", f.una = e.nxt,
         f.nxt = Wrap(e.nxt + 1), f.data = Wrap(e.nxt + 1)
  PROVE  Fine(f, Append(<<>>, s), <<>>, rows, kept)
  <1>1. rows = {}
    BY DEF Fine, Live
  <1>2. Append(<<>>, s) = <<s>> /\ Len(<<s>>) = 1 /\ <<s>>[1] = s /\ Len(<<>>) = 0
    OBVIOUS
  <1>3. Handshake(f, <<s>>, <<>>, rows, kept)
    BY <1>1, <1>2 DEF Handshake
  <1>4. SynOpens(f, <<s>>) /\ FinCloses(<<>>, rows) /\ Live(f, rows)
        /\ Connected(f, <<s>>, <<>>, rows, kept)
    BY <1>1, <1>2 DEF SynOpens, FinCloses, Live, Connected
  <1>5. QED
    BY <1>2, <1>3, <1>4 DEF Fine

\* Data is numbered after all that was sent.
LEMMA SendFine ==
  ASSUME NEW e \in PeerState, NEW in \in Seq(Segment), NEW out \in Seq(SentSegment),
         NEW rows \in SUBSET Entry, NEW kept, Fine(e, in, out, rows, kept),
         e.st \in {"established", "close_wait"}, Gap(e.data, e.nxt) < MaxOctets,
         NEW s \in Segment, s.bits \in {ACK, PSH_ACK}, s.seq = e.nxt, s.len = 1,
         NEW f \in PeerState, f = [e EXCEPT !.nxt = Wrap(e.nxt + 1)]
  PROVE  Fine(f, Append(in, s), out, rows, kept)
  <1>0. f.st = e.st /\ f.una = e.una /\ f.data = e.data /\ f.nxt = Wrap(e.nxt + 1)
    BY DEF PeerState
  <1>1. SynOpens(f, Append(in, s))
    BY <1>0, AppendAt DEF Fine, SynOpens
  <1>2. FinCloses(out, rows) /\ Live(f, rows) /\ Handshake(f, Append(in, s), out, rows, kept)
    BY <1>0 DEF Fine, Live, Handshake
  <1>3. Connected(f, Append(in, s), out, rows, kept)
    <2>. SUFFICES ASSUME f.st \in {"established", "fin_wait_1"}, rows # {}
                  PROVE  Connected(f, Append(in, s), out, rows, kept)
      BY DEF Connected
    <2>1. e.st = "established" /\ Connected(e, in, out, rows, kept)
      BY <1>0 DEF Fine
    <2>2. Gap(e.data, e.nxt) + 1 < SeqSpace /\ Gap(e.data, e.nxt) \in Nat
      BY Numbers, Distances
    <2>3. OctetsSent(f) = OctetsSent(e) + 1 /\ OctetsSent(e) = Gap(e.data, e.nxt)
          /\ OctetsSent(e) \in Nat
      <3>1. Gap(f.data, f.nxt) = Gap(e.data, e.nxt) + 1
        BY <1>0, <2>2, GapNext, Sent
      <3>2. QED
        BY <1>0, <2>1, <2>2, <3>1, Sent
    <2>4. OctetsSent(f) <= MaxOctets
      BY <2>3, BoundsAssumption
    <2>5. Gap(f.data, f.una) <= OctetsSent(f)
      BY <1>0, <2>1, <2>3, Sent DEF Connected
    <2>6. \A n \in 1 .. Len(out) :
             out[n].toPeerPort => Gap(f.data, out[n].ack) <= OctetsSent(f)
      <3>1. \A n \in 1 .. Len(out) : Gap(e.data, out[n].ack) \in Nat
        BY Distances
      <3>2. \A n \in 1 .. Len(out) :
               out[n].toPeerPort => Gap(e.data, out[n].ack) <= OctetsSent(e)
        BY <2>1 DEF Connected
      <3>3. QED
        BY <1>0, <2>3, <3>1, <3>2
    <2>7. kept => \A row \in rows : Gap(f.data, row.next_seq) <= OctetsSent(f)
      <3>1. \A row \in rows : Gap(e.data, row.next_seq) \in Nat
        BY Distances
      <3>2. kept => \A row \in rows : Gap(e.data, row.next_seq) <= OctetsSent(e)
        BY <2>1 DEF Connected
      <3>3. QED
        BY <1>0, <2>3, <3>1, <3>2
    <2>8. \A n \in 1 .. Len(Append(in, s)) : BeforeFin(f, Append(in, s), n, kept)
      <3>1. ASSUME NEW n \in 1 .. Len(in) PROVE BeforeFin(f, Append(in, s), n, kept)
        <4>1. BeforeFin(e, in, n, kept) /\ OctetsSent(e) <= OctetsSent(f)
          BY <2>1, <2>3 DEF Connected
        <4>2. BeforeFin(f, in, n, kept)
          BY <1>0, <4>1, BeforeFinMore
        <4>3. QED
          BY <4>2, BeforeFinAppend
      <3>2. BeforeFin(f, Append(in, s), Len(in) + 1, kept)
        BY <1>0, <2>3, AppendAt DEF BeforeFin
      <3>3. \A n \in 1 .. Len(Append(in, s)) : n \in 1 .. Len(in) \/ n = Len(in) + 1
        BY AppendAt
      <3>4. QED
        BY <3>1, <3>2, <3>3
    <2>9. QED
      BY <1>0, <2>1, <2>4, <2>5, <2>6, <2>7, <2>8 DEF Connected
  <1>4. QED
    BY <1>1, <1>2, <1>3 DEF Fine

\* A FIN comes last, and its number is beyond all that is acknowledged.
LEMMA CloseFine ==
  ASSUME NEW e \in PeerState, NEW in \in Seq(Segment), NEW out \in Seq(SentSegment),
         NEW rows \in SUBSET Entry, NEW kept, Fine(e, in, out, rows, kept),
         NEW s \in Segment, s.bits = FIN_ACK, s.len = 0,
         NEW f \in PeerState, f.nxt = Wrap(e.nxt + 1), f.una = e.una, f.data = e.data,
         \/ e.st = "established" /\ f.st = "fin_wait_1"
         \/ e.st = "close_wait" /\ f.st = "last_ack"
  PROVE  Fine(f, Append(in, s), out, rows, kept)
  <1>1. SynOpens(f, Append(in, s))
    BY AppendAt DEF Fine, SynOpens
  <1>2. FinCloses(out, rows) /\ Live(f, rows) /\ Handshake(f, Append(in, s), out, rows, kept)
    BY DEF Fine, Live, Handshake
  <1>3. Connected(f, Append(in, s), out, rows, kept)
    <2>. SUFFICES ASSUME f.st \in {"established", "fin_wait_1"}, rows # {}
                  PROVE  Connected(f, Append(in, s), out, rows, kept)
      BY DEF Connected
    <2>1. e.st = "established" /\ f.st = "fin_wait_1" /\ Connected(e, in, out, rows, kept)
      BY DEF Fine
    <2>2. OctetsSent(e) = Gap(e.data, e.nxt) /\ OctetsSent(e) <= MaxOctets
          /\ Gap(e.data, e.nxt) \in Nat
      BY <2>1, Sent DEF Connected
    <2>3. OctetsSent(f) = OctetsSent(e)
      <3>1. Gap(e.data, e.nxt) + 1 < SeqSpace
        BY <2>2, NumbersAssumption, BoundsAssumption, SeqSpaceAssumption
      <3>2. Gap(f.data, f.nxt) = Gap(e.data, e.nxt) + 1
        BY <3>1, GapNext, Sent
      <3>3. QED
        BY <2>1, <2>2, <3>2, Sent
    <2>4. \A n \in 1 .. Len(Append(in, s)) : BeforeFin(f, Append(in, s), n, kept)
      <3>1. ASSUME NEW n \in 1 .. Len(in) PROVE BeforeFin(f, Append(in, s), n, kept)
        <4>1. BeforeFin(f, in, n, kept)
          BY <2>1, <2>2, <2>3, BeforeFinMore DEF Connected
        <4>2. QED
          BY <4>1, BeforeFinAppend
      <3>2. Append(in, s)[Len(in) + 1] = s /\ Len(in) + 1 \in 1 .. Len(in) + 1
        BY AppendAt
      <3>3. BeforeFin(f, Append(in, s), Len(in) + 1, kept)
        BY <3>2 DEF BeforeFin
      <3>4. QED
        BY <3>1, <3>3, AppendAt
    <2>5. \E n \in 1 .. Len(Append(in, s)) : Append(in, s)[n].bits = FIN_ACK
      BY AppendAt
    <2>6. QED
      BY <2>1, <2>2, <2>3, <2>4, <2>5 DEF Connected
  <1>4. QED
    BY <1>1, <1>2, <1>3 DEF Fine

\* On an idle link the oldest segment is repeated, which never is one past the FIN.
LEMMA RetransmitFine ==
  ASSUME NEW e \in PeerState, NEW rows \in SUBSET Entry, NEW kept,
         Fine(e, <<>>, <<>>, rows, kept), e.una # e.nxt,
         NEW s \in Segment, s.seq = e.una,
         \/ e.st = "syn_sent" /\ s.bits = SYN
         \/ Closing(e) /\ s.bits = FIN_ACK /\ s.len = 0
         \/ /\ e.st # "syn_sent" /\ s.bits \in {ACK, PSH_ACK} /\ s.len = 1
            /\ Closing(e) => Gap(e.una, e.nxt) > 1
  PROVE  Fine(e, Append(<<>>, s), <<>>, rows, kept)
  <1>1. Append(<<>>, s) = <<s>> /\ Len(<<s>>) = 1 /\ <<s>>[1] = s /\ Len(<<>>) = 0
        /\ <<s>> # <<>>
    OBVIOUS
  <1>2. SynOpens(e, <<s>>) /\ FinCloses(<<>>, rows) /\ Live(e, rows)
    BY <1>1 DEF Fine, SynOpens, Live, FinCloses
  <1>3. Handshake(e, <<s>>, <<>>, rows, kept)
    BY <1>1 DEF Fine, Handshake, Closing
  <1>4. Connected(e, <<s>>, <<>>, rows, kept)
    <2>. SUFFICES ASSUME e.st \in {"established", "fin_wait_1"}, rows # {}
                  PROVE  Connected(e, <<s>>, <<>>, rows, kept)
      BY DEF Connected
    <2>1. Connected(e, <<>>, <<>>, rows, kept)
      BY DEF Fine
    <2>2. kept => e.st = "established"
      BY <1>1, <2>1 DEF Connected
    <2>3. BeforeFin(e, <<s>>, 1, kept)
      <3>1. CASE s.bits = FIN_ACK /\ s.len = 0
        <4>1. 1 \in 1 .. 1
          OBVIOUS
        <4>2. QED
          BY <1>1, <3>1, <4>1 DEF BeforeFin
      <3>2. CASE s.len = 1 /\ (Closing(e) => Gap(e.una, e.nxt) > 1)
        <4>1. /\ Gap(e.data, e.una) <= OctetsSent(e)
              /\ Gap(e.data, e.una) \in Nat /\ Gap(e.data, e.nxt) \in Nat
          BY <2>1, Distances DEF Connected
        <4>2. Gap(e.data, e.una) <= Gap(e.data, e.nxt)
          BY <4>1, Sent
        <4>3. Gap(e.una, e.nxt) = Gap(e.data, e.nxt) - Gap(e.data, e.una)
          BY <4>2, Sent, GapRest
        <4>4. Gap(e.data, e.una) # Gap(e.data, e.nxt)
          BY Sent, GapSame
        <4>5. e.st = "fin_wait_1" => Gap(e.data, e.nxt) - Gap(e.data, e.una) > 1
          BY <3>2, <4>3 DEF Closing
        <4>6. Gap(e.data, e.una) + 1 <= OctetsSent(e)
          BY <4>1, <4>2, <4>4, <4>5, Sent
        <4>7. QED
          BY <1>1, <3>2, <4>6 DEF BeforeFin
      <3>3. QED
        BY <3>1, <3>2
    <2>4. QED
      BY <1>1, <2>1, <2>2, <2>3 DEF Connected
  <1>5. QED
    BY <1>1, <1>2, <1>3, <1>4 DEF Fine

\* A frame that is not taken changes nothing, unless it is the answer to the SYN.
LEMMA DropFine ==
  ASSUME NEW e, NEW in, NEW out \in Seq(SentSegment), out # <<>>,
         NEW rows, NEW kept, Fine(e, in, out, rows, kept),
         e.st = "syn_sent" /\ rows # {} /\ kept => Head(out).bits # SYN_ACK
  PROVE  Fine(e, in, Tail(out), rows, kept)
  <1>1. /\ \A n \in 1 .. Len(Tail(out)) : n + 1 \in 1 .. Len(out)
                                           /\ Tail(out)[n] = out[n + 1]
        /\ \A n \in 1 .. Len(out) : n # 1 => /\ n - 1 \in 1 .. Len(Tail(out))
                                             /\ Tail(out)[n - 1] = out[n]
        /\ Head(out) = out[1]
    BY TailAt
  <1>2. SynOpens(e, in) /\ FinCloses(Tail(out), rows) /\ Live(e, rows)
    BY <1>1 DEF Fine, FinCloses
  <1>3. Connected(e, in, Tail(out), rows, kept)
    BY <1>1 DEF Fine, Connected
  <1>4. Handshake(e, in, Tail(out), rows, kept)
    <2>. SUFFICES ASSUME e.st = "syn_sent" PROVE Handshake(e, in, Tail(out), rows, kept)
      BY DEF Handshake
    <2>1. Handshake(e, in, out, rows, kept)
      BY DEF Fine
    <2>2. in # <<>> => \A n \in 1 .. Len(Tail(out)) :
                          Tail(out)[n].bits \notin {SYN_ACK, FIN_ACK}
      BY <1>1, <2>1 DEF Handshake
    <2>3. rows # {} /\ kept => \E n \in 1 .. Len(Tail(out)) : Tail(out)[n].bits = SYN_ACK
      BY <1>1, <2>1 DEF Handshake
    <2>4. ASSUME rows # {}, NEW n \in 1 .. Len(Tail(out)), NEW m \in 1 .. Len(Tail(out)),
                 Tail(out)[n].bits = SYN_ACK, n <= m
          PROVE  Tail(out)[m].ack = e.data
      <3>1. n + 1 \in 1 .. Len(out) /\ m + 1 \in 1 .. Len(out) /\ n + 1 <= m + 1
        BY <1>1, <2>4
      <3>2. out[n + 1].bits = SYN_ACK
        BY <1>1, <2>4
      <3>3. out[m + 1].ack = e.data
        BY <2>1, <2>4, <3>1, <3>2 DEF Handshake
      <3>4. QED
        BY <1>1, <3>3
    <2>5. QED
      BY <2>1, <2>2, <2>3, <2>4 DEF Handshake
  <1>5. QED
    BY <1>2, <1>3, <1>4 DEF Fine

\* Less is known once a frame has been lost.
LEMMA LossFine ==
  ASSUME NEW e, NEW in, NEW out, NEW rows, NEW kept, Fine(e, in, out, rows, kept)
  PROVE  Fine(e, in, out, rows, FALSE)
  <1>1. Handshake(e, in, out, rows, FALSE)
    BY DEF Fine, Handshake
  <1>2. Connected(e, in, out, rows, FALSE)
    BY DEF Fine, Connected, BeforeFin
  <1>3. QED
    BY <1>1, <1>2 DEF Fine

LEMMA LoseFine ==
  ASSUME NEW e, NEW in \in Seq(Segment), in # <<>>, NEW out, NEW rows,
         Fine(e, in, out, rows, FALSE)
  PROVE  Fine(e, Tail(in), out, rows, FALSE)
  <1>1. SynOpens(e, Tail(in)) /\ FinCloses(out, rows) /\ Live(e, rows)
    BY TailAt DEF Fine, SynOpens
  <1>2. Handshake(e, Tail(in), out, rows, FALSE)
    <2>1. Len(in) = 1 => Tail(in) = <<>>
      <3>1. Tail(in) \in Seq(Segment) /\ Len(Tail(in)) = Len(in) - 1
        BY TailAt
      <3>2. \A q \in Seq(Segment) : Len(q) = 0 => q = <<>>
        OBVIOUS
      <3>3. ASSUME Len(in) = 1 PROVE Len(Tail(in)) = 0
        BY <3>1, <3>3
      <3>4. QED
        BY <3>1, <3>2, <3>3, Zenon
    <2>2. QED
      BY <2>1 DEF Fine, Handshake
  <1>3. Connected(e, Tail(in), out, rows, FALSE)
    <2>. SUFFICES ASSUME e.st \in {"established", "fin_wait_1"}, rows # {}
                  PROVE  Connected(e, Tail(in), out, rows, FALSE)
      BY DEF Connected
    <2>1. Connected(e, in, out, rows, FALSE)
      BY DEF Fine
    <2>2. ASSUME NEW n \in 1 .. Len(Tail(in)) PROVE BeforeFin(e, Tail(in), n, FALSE)
      <3>1. n + 1 \in 1 .. Len(in)
        BY TailAt
      <3>2. BeforeFin(e, in, n + 1, FALSE)
        BY <2>1, <3>1 DEF Connected
      <3>3. QED
        BY <3>2, BeforeFinTail
    <2>3. QED
      BY <2>1, <2>2 DEF Connected
  <1>4. QED
    BY <1>1, <1>2, <1>3 DEF Fine

\* A SYN/ACK is answered, and the connection has its first number.
LEMMA EstablishFine ==
  ASSUME NEW e \in PeerState, NEW in \in Seq(Segment), NEW out \in Seq(SentSegment),
         NEW rows \in SUBSET Entry, NEW kept, Fine(e, in, out, rows, kept),
         e.st = "syn_sent", out # <<>>, Head(out).bits = SYN_ACK,
         NEW f \in PeerState, f.st = "established", f.una = e.nxt, f.nxt = e.nxt,
         f.data = e.data,
         NEW s \in Segment, s.bits = ACK, s.seq = f.nxt, s.len = 0
  PROVE  Fine(f, Append(in, s), Tail(out), rows, kept)
  <1>1. /\ \A n \in 1 .. Len(Tail(out)) : n + 1 \in 1 .. Len(out)
                                           /\ Tail(out)[n] = out[n + 1]
        /\ Head(out) = out[1] /\ 1 \in 1 .. Len(out)
    BY TailAt
  <1>2. Handshake(e, in, out, rows, kept) /\ FinCloses(out, rows)
    BY DEF Fine
  <1>3. in = <<>>
    BY <1>1, <1>2 DEF Handshake
  <1>4. Append(in, s) = <<s>> /\ Len(<<s>>) = 1 /\ <<s>>[1] = s
    BY <1>3
  <1>5. FinCloses(Tail(out), rows) /\ Live(f, rows) /\ SynOpens(f, <<s>>)
        /\ Handshake(f, <<s>>, Tail(out), rows, kept)
    BY <1>1, <1>2, <1>4 DEF FinCloses, Live, SynOpens, Handshake
  <1>6. Connected(f, <<s>>, Tail(out), rows, kept)
    <2>. SUFFICES ASSUME rows # {} PROVE Connected(f, <<s>>, Tail(out), rows, kept)
      BY DEF Connected
    <2>1. f.nxt = f.data /\ f.una = f.data
      BY <1>2 DEF Handshake
    <2>2. OctetsSent(f) = 0 /\ Gap(f.data, f.data) = 0
      BY <2>1, Sent, GapSame
    <2>3. ASSUME NEW n \in 1 .. Len(Tail(out)) PROVE Tail(out)[n].ack = f.data
      <3>1. n + 1 \in 1 .. Len(out) /\ 1 <= n + 1
        BY <1>1
      <3>2. QED
        BY <1>1, <1>2, <3>1 DEF Handshake
    <2>4. \A row \in rows : row.next_seq = f.data
      BY <1>2 DEF Handshake
    <2>5. BeforeFin(f, <<s>>, 1, kept)
      BY <1>4, <2>1, <2>2 DEF BeforeFin
    <2>6. 0 <= MaxOctets
      BY Numbers
    <2>7. QED
      BY <1>4, <2>1, <2>2, <2>3, <2>4, <2>5, <2>6 DEF Connected
  <1>7. QED
    BY <1>4, <1>5, <1>6 DEF Fine

\* An ACK carries the next number: after the FIN, if that was sent.
LEMMA AckFine ==
  ASSUME NEW e \in PeerState, NEW in \in Seq(Segment), NEW out, NEW rows, NEW kept,
         Fine(e, in, out, rows, kept), e.st # "syn_sent",
         NEW s \in Segment, s.bits = ACK, s.seq = e.nxt, s.len = 0
  PROVE  Fine(e, Append(in, s), out, rows, kept)
  <1>1. SynOpens(e, Append(in, s))
    BY AppendAt DEF Fine, SynOpens
  <1>2. FinCloses(out, rows) /\ Live(e, rows) /\ Handshake(e, Append(in, s), out, rows, kept)
    BY DEF Fine, Handshake
  <1>3. Connected(e, Append(in, s), out, rows, kept)
    <2>. SUFFICES ASSUME e.st \in {"established", "fin_wait_1"}, rows # {}
                  PROVE  Connected(e, Append(in, s), out, rows, kept)
      BY DEF Connected
    <2>1. Connected(e, in, out, rows, kept)
      BY DEF Fine
    <2>2. ASSUME NEW n \in 1 .. Len(in) PROVE BeforeFin(e, Append(in, s), n, kept)
      <3>1. BeforeFin(e, in, n, kept)
        BY <2>1 DEF Connected
      <3>2. QED
        BY <3>1, BeforeFinAppend
    <2>3. /\ Append(in, s)[Len(in) + 1] = s
          /\ \A n \in 1 .. Len(in) : /\ Append(in, s)[n] = in[n]
                                     /\ n \in 1 .. Len(Append(in, s))
                                     /\ n \in 1 .. Len(in) + 1
      BY AppendAt
    <2>4. BeforeFin(e, Append(in, s), Len(in) + 1, kept)
      <3>1. CASE e.st = "established"
        <4>1. Gap(e.data, e.nxt) + 0 <= OctetsSent(e)
          BY <3>1, Sent
        <4>2. QED
          BY <2>3, <4>1 DEF BeforeFin
      <3>2. CASE e.st = "fin_wait_1"
        <4>1. kept => \E n \in 1 .. Len(in) : in[n].bits = FIN_ACK
          BY <2>1, <3>2 DEF Connected
        <4>2. kept => \E n \in 1 .. Len(in) + 1 : Append(in, s)[n].bits = FIN_ACK
          BY <2>3, <4>1
        <4>3. QED
          BY <2>3, <4>2 DEF BeforeFin
      <3>3. QED
        BY <3>1, <3>2
    <2>5. \A n \in 1 .. Len(Append(in, s)) : BeforeFin(e, Append(in, s), n, kept)
      <3>1. \A n \in 1 .. Len(Append(in, s)) : n \in 1 .. Len(in) \/ n = Len(in) + 1
        BY AppendAt
      <3>2. QED
        BY <2>2, <2>4, <3>1
    <2>6. kept /\ e.st = "fin_wait_1" =>
             \E n \in 1 .. Len(Append(in, s)) : Append(in, s)[n].bits = FIN_ACK
      BY <2>1, <2>3 DEF Connected
    <2>7. QED
      BY <2>1, <2>5, <2>6 DEF Connected
  <1>4. QED
    BY <1>1, <1>2, <1>3 DEF Fine

\* An acknowledgement from an open slot is of octets and never of the FIN.
LEMMA TakeFine ==
  ASSUME NEW e \in PeerState, NEW in, NEW out \in Seq(SentSegment), NEW rows, NEW kept,
         Fine(e, in, out, rows, kept), e.st # "syn_sent",
         out # <<>>, Head(out).toPeerPort
  PROVE  /\ Fine(Acknowledged(e, Head(out)), in, out, rows, kept)
         /\ Acknowledged(e, Head(out)) \in PeerState
         /\ Acknowledged(e, Head(out)).st # "syn_sent"
         /\ Acknowledged(e, Head(out)).nxt = e.nxt
  <1>. DEFINE r == Head(out)
              una == IF Gap(e.una, r.ack) <= Gap(e.una, e.nxt) THEN r.ack ELSE e.una
              f == Acknowledged(e, r)
  <1>1. r = out[1] /\ 1 \in 1 .. Len(out) /\ r \in SentSegment
    BY TailAt
  <1>2. f \in PeerState
    BY <1>1, PeerTyped
  <1>3. /\ f.una = una /\ f.nxt = e.nxt /\ f.data = e.data
        /\ f.st \in {e.st, "fin_wait_2", "closed"}
        /\ f.st # e.st => una = e.nxt /\ e.st \notin {"established"}
    BY DEF Acknowledged, PeerState, Closing
  <1>4. f.st # "syn_sent"
    BY <1>3
  <1>5. SynOpens(f, in) /\ FinCloses(out, rows) /\ Handshake(f, in, out, rows, kept)
    BY <1>4 DEF Fine, SynOpens, Handshake
  <1>6. CASE rows = {}
    BY <1>2, <1>3, <1>4, <1>5, <1>6 DEF Fine, Connected, Live
  <1>7. CASE rows # {}
    <2>1. e.st \in {"established", "fin_wait_1"} /\ Connected(e, in, out, rows, kept)
      BY <1>7 DEF Fine, Live
    <2>2. Gap(e.data, una) <= OctetsSent(e) /\ una \in Seqs
      <3>1. Gap(e.data, r.ack) <= OctetsSent(e) /\ Gap(e.data, e.una) <= OctetsSent(e)
        BY <1>1, <1>7, <2>1 DEF Connected
      <3>2. r.ack \in Seqs /\ e.una \in Seqs
        BY <1>1 DEF SentSegment, PeerState
      <3>3. QED
        BY <3>1, <3>2
    <2>3. f.st = e.st
      <3>1. e.st = "fin_wait_1" => una # e.nxt
        BY <2>2, Sent
      <3>2. QED
        BY <1>3, <2>1, <3>1
    <2>4. OctetsSent(f) = OctetsSent(e)
      BY <1>3, <2>3 DEF OctetsSent, Closing
    <2>5. \A n \in 1 .. Len(in) : BeforeFin(f, in, n, kept)
      BY <1>3, <1>7, <2>1, <2>4 DEF Connected, BeforeFin
    <2>6. Connected(f, in, out, rows, kept)
      BY <1>3, <1>7, <2>1, <2>2, <2>3, <2>4, <2>5 DEF Connected
    <2>7. Live(f, rows)
      BY <2>1, <2>3 DEF Live
    <2>8. QED
      BY <1>2, <1>3, <1>4, <1>5, <2>6, <2>7 DEF Fine
  <1>8. QED
    BY <1>6, <1>7

\* A FIN/ACK of the stack's ends a connection whose slot is closed.
LEMMA AcceptFine ==
  ASSUME NEW e \in PeerState, NEW in, NEW out \in Seq(SentSegment), NEW rows, NEW kept,
         Fine(e, in, out, rows, kept), e.st # "syn_sent", out # <<>>
  PROVE  /\ Fine(Accepted(e, Head(out)), in, out, rows, kept)
         /\ Accepted(e, Head(out)).st # "syn_sent"
  <1>. DEFINE r == Head(out)
              f == Accepted(e, r)
  <1>1. r = out[1] /\ 1 \in 1 .. Len(out) /\ r \in SentSegment
    BY TailAt
  <1>2. /\ f.una = e.una /\ f.nxt = e.nxt /\ f.data = e.data
        /\ f.st # "syn_sent"
        /\ r.bits # FIN_ACK => f.st = e.st
    BY DEF Accepted, PeerState
  <1>3. SynOpens(f, in) /\ FinCloses(out, rows) /\ Handshake(f, in, out, rows, kept)
    BY <1>2 DEF Fine, SynOpens, Handshake
  <1>4. CASE rows = {}
    BY <1>2, <1>3, <1>4 DEF Fine, Connected, Live
  <1>5. CASE rows # {}
    <2>1. f.st = e.st
      BY <1>1, <1>2, <1>5 DEF Fine, FinCloses
    <2>2. OctetsSent(f) = OctetsSent(e)
      BY <1>2, <2>1 DEF OctetsSent, Closing
    <2>3. Connected(f, in, out, rows, kept) /\ Live(f, rows)
      BY <1>2, <2>1, <2>2 DEF Fine, Connected, BeforeFin, Live
    <2>4. QED
      BY <1>2, <1>3, <2>3 DEF Fine
  <1>6. QED
    BY <1>4, <1>5

-----------------------------------------------------------------------------
(* The steps of the stack.                                                 *)

LEMMA AddAt ==
  ASSUME NEW S, NEW q \in Seq(S), NEW r \in S
  PROVE  /\ q \o <<r>> = Append(q, r) /\ q \o <<>> = q
  OBVIOUS

\* What a handler sends reaches the end of one link, or nothing is sent.
LEMMA TransmitOne ==
  ASSUME toPeer \in [Peers -> Seq(SentSegment)], Transmit, NEW q \in Peers
  PROVE  /\ sent' = <<>> => toPeer'[q] = toPeer[q]
         /\ \A r \in SentSegment : sent' = <<r>> =>
               toPeer'[q] = IF r.peer = q THEN Append(toPeer[q], r) ELSE toPeer[q]
  <1>1. sent' = <<>> => toPeer'[q] = toPeer[q]
    BY DEF Transmit
  <1>2. ASSUME NEW r \in SentSegment, sent' = <<r>>
        PROVE  toPeer'[q] = IF r.peer = q THEN Append(toPeer[q], r) ELSE toPeer[q]
    <2>1. sent' # <<>> /\ sent'[1] = r
      BY <1>2
    <2>2. toPeer'[q] = IF r.peer = q THEN toPeer[q] \o <<r>> ELSE toPeer[q]
      BY <1>2, <2>1 DEF Transmit
    <2>3. QED
      BY <2>2, AddAt
  <1>3. QED
    BY <1>1, <1>2

\* A SYN is answered from a half-open slot, or the table is full.
LEMMA SynFine ==
  ASSUME NEW e \in PeerState, NEW in \in Seq(Segment), NEW out \in Seq(SentSegment),
         NEW rows, NEW kept, Fine(e, in, out, rows, kept), in # <<>>,
         NEW s, s = Head(in), s.bits = SYN,
         NEW rows2, NEW out2,
         \/ rows2 = {} /\ out2 = out
         \/ /\ \A row \in rows2 : row.status = SYN_RCVD /\ row.next_seq = Wrap(s.seq + 1)
            /\ \E r \in SentSegment : /\ out2 = Append(out, r)
                                      /\ r.bits = SYN_ACK /\ r.ack = Wrap(s.seq + 1)
  PROVE  Fine(e, Tail(in), out2, rows2, kept)
  <1>1. e.st = "syn_sent" /\ s = in[1]
    BY TailAt DEF Fine, SynOpens
  <1>2. Handshake(e, in, out, rows, kept)
    BY DEF Fine
  <1>3. Wrap(s.seq + 1) = e.data /\ Len(in) = 1
        /\ \A n \in 1 .. Len(out) : out[n].bits \notin {SYN_ACK, FIN_ACK}
    BY <1>1, <1>2 DEF Handshake
  <1>4. Tail(in) = <<>> /\ Len(<<>>) = 0
    <2>1. Tail(in) \in Seq(Segment) /\ Len(Tail(in)) = Len(in) - 1
      BY TailAt
    <2>2. \A q \in Seq(Segment) : Len(q) = 0 => q = <<>>
      OBVIOUS
    <2>3. Len(Tail(in)) = 0
      BY <1>3, <2>1
    <2>4. QED
      BY <2>1, <2>2, <2>3, Zenon
  <1>5. SynOpens(e, <<>>) /\ Live(e, rows2) /\ Connected(e, <<>>, out2, rows2, kept)
    BY <1>1, <1>4 DEF SynOpens, Live, Connected
  <1>6. CASE rows2 = {} /\ out2 = out
    <2>1. FinCloses(out2, rows2) /\ Handshake(e, <<>>, out2, rows2, kept)
      BY <1>2, <1>4, <1>6 DEF FinCloses, Handshake
    <2>2. QED
      BY <1>4, <1>5, <2>1 DEF Fine
  <1>7. CASE /\ \A row \in rows2 : row.status = SYN_RCVD /\ row.next_seq = Wrap(s.seq + 1)
             /\ \E r \in SentSegment : /\ out2 = Append(out, r)
                                       /\ r.bits = SYN_ACK /\ r.ack = Wrap(s.seq + 1)
    <2>1. PICK r \in SentSegment : /\ out2 = Append(out, r)
                                   /\ r.bits = SYN_ACK /\ r.ack = Wrap(s.seq + 1)
      BY <1>7
    <2>2. /\ \A n \in 1 .. Len(out) : out2[n] = out[n]
          /\ out2[Len(out) + 1] = r /\ Len(out) + 1 \in 1 .. Len(out2)
          /\ \A n \in 1 .. Len(out2) : n \in 1 .. Len(out) \/ n = Len(out) + 1
          /\ Len(out) \in Nat
      BY <2>1, AppendAt
    <2>3. FinCloses(out2, rows2)
      BY <1>3, <2>1, <2>2 DEF FinCloses
    <2>4. ASSUME NEW n \in 1 .. Len(out2), NEW m \in 1 .. Len(out2),
                 out2[n].bits = SYN_ACK, n <= m
          PROVE  out2[m].ack = e.data
      <3>1. n = Len(out) + 1
        BY <1>3, <2>2, <2>4
      <3>2. m = Len(out) + 1
        BY <2>2, <2>4, <3>1
      <3>3. QED
        BY <1>3, <2>1, <2>2, <3>2
    <2>5. \E n \in 1 .. Len(out2) : out2[n].bits = SYN_ACK
      BY <2>1, <2>2
    <2>6. Handshake(e, <<>>, out2, rows2, kept)
      BY <1>2, <1>3, <1>4, <1>7, <2>4, <2>5 DEF Handshake
    <2>7. QED
      BY <1>4, <1>5, <2>3, <2>6 DEF Fine
  <1>8. QED
    BY <1>6, <1>7

\* Without a slot nothing of the rest is claimed.
LEMMA NoSlotFine ==
  ASSUME NEW e, NEW in \in Seq(Segment), NEW out, NEW rows, NEW kept,
         Fine(e, in, out, rows, kept), in # <<>>, Head(in).bits # SYN, NEW out2
  PROVE  Fine(e, Tail(in), out2, {}, kept)
  <1>1. Head(in) = in[1]
    BY TailAt
  <1>2. e.st # "syn_sent"
    BY <1>1 DEF Fine, Handshake
  <1>3. SynOpens(e, Tail(in))
    BY TailAt DEF Fine, SynOpens
  <1>4. QED
    BY <1>2, <1>3 DEF Fine, FinCloses, Handshake, Connected, Live

\* Octets and ACKs are recorded, and octets acknowledged.
LEMMA DataFine ==
  ASSUME NEW e \in PeerState, NEW in \in Seq(Segment), NEW out \in Seq(SentSegment),
         NEW rows, NEW kept, Fine(e, in, out, rows, kept), in # <<>>,
         NEW s, s = Head(in), s.bits \in {ACK, PSH_ACK}, s.len \in {0, 1},
         NEW rows2 \in SUBSET Entry, rows = {} => rows2 = {},
         \A row \in rows2 : row.next_seq = Wrap(s.seq + s.len),
         NEW out2,
         \/ out2 = out
         \/ \E r \in SentSegment : /\ out2 = Append(out, r)
                                   /\ r.bits = ACK /\ r.ack = Wrap(s.seq + s.len)
                                   /\ r.toPeerPort => s.len = 1
  PROVE  Fine(e, Tail(in), out2, rows2, kept)
  <1>0. s = in[1] /\ s \in Segment /\ 1 \in 1 .. Len(in)
    BY TailAt
  <1>1. e.st # "syn_sent"
    BY <1>0 DEF Fine, Handshake
  <1>2. CASE rows2 = {}
    BY <1>2, NoSlotFine
  <1>3. CASE rows2 # {}
    <2>1. rows # {} /\ e.st \in {"established", "fin_wait_1"}
          /\ Connected(e, in, out, rows, kept)
      BY <1>1, <1>3 DEF Fine, Live
    <2>2. SynOpens(e, Tail(in)) /\ Live(e, rows2) /\ Handshake(e, Tail(in), out2, rows2, kept)
      BY <1>1, <2>1, TailAt DEF Fine, SynOpens, Live, Handshake
    <2>3. FinCloses(out2, rows2)
      BY <2>1, AppendAt DEF Fine, FinCloses
    <2>4. kept \/ s.len = 1 => Gap(e.data, Wrap(s.seq + s.len)) <= OctetsSent(e)
      <3>1. ASSUME kept \/ s.len = 1
            PROVE  Gap(e.data, s.seq) + s.len <= OctetsSent(e)
        <4>1. BeforeFin(e, in, 1, kept)
          BY <1>0, <2>1 DEF Connected
        <4>2. \A m \in 1 .. 1 : in[m].bits # FIN_ACK
          BY <1>0
        <4>3. QED
          BY <1>0, <3>1, <4>1, <4>2 DEF BeforeFin
      <3>2. s.seq \in Seqs /\ OctetsSent(e) <= MaxOctets
        BY <1>0, <2>1 DEF Segment, Connected
      <3>3. Gap(e.data, s.seq) \in Nat /\ OctetsSent(e) \in Int /\ e.data \in Seqs
        BY <3>2, Sent
      <3>4. ASSUME kept \/ s.len = 1
            PROVE  Gap(e.data, Wrap(s.seq + s.len)) = Gap(e.data, s.seq) + s.len
        <4>1. Gap(e.data, s.seq) + s.len <= MaxOctets
          BY <3>1, <3>2, <3>3, <3>4, Numbers
        <4>2. QED
          BY <3>2, <4>1, GapStep, Zenon
      <3>5. QED
        BY <3>1, <3>4
    <2>5. \A n \in 1 .. Len(out2) :
             out2[n].toPeerPort => Gap(e.data, out2[n].ack) <= OctetsSent(e)
      BY <2>1, <2>4, AppendAt DEF Connected
    <2>6. \A n \in 1 .. Len(Tail(in)) : BeforeFin(e, Tail(in), n, kept)
      <3>1. ASSUME NEW n \in 1 .. Len(Tail(in)) PROVE BeforeFin(e, Tail(in), n, kept)
        <4>1. n + 1 \in 1 .. Len(in)
          BY TailAt
        <4>2. BeforeFin(e, in, n + 1, kept)
          BY <2>1, <4>1 DEF Connected
        <4>3. in[1].bits # FIN_ACK
          BY <1>0
        <4>4. QED
          BY <4>2, <4>3, BeforeFinTail
      <3>2. QED
        BY <3>1
    <2>7. kept /\ e.st = "fin_wait_1" => \E n \in 1 .. Len(Tail(in)) : Tail(in)[n].bits = FIN_ACK
      <3>1. ASSUME NEW n \in 1 .. Len(in), in[n].bits = FIN_ACK
            PROVE  n - 1 \in 1 .. Len(Tail(in)) /\ Tail(in)[n - 1] = in[n]
        <4>1. n # 1
          BY <1>0, <3>1
        <4>2. QED
          BY <4>1, TailAt
      <3>2. QED
        BY <2>1, <3>1 DEF Connected
    <2>8. Connected(e, Tail(in), out2, rows2, kept)
      BY <2>1, <2>4, <2>5, <2>6, <2>7 DEF Connected
    <2>9. QED
      BY <2>2, <2>3, <2>8 DEF Fine
  <1>4. QED
    BY <1>2, <1>3

\* A line of the user's sends the number an open slot has recorded; a close tells the
\* peer of a slot that was open.
LEMMA UserFine ==
  ASSUME NEW e \in PeerState, NEW in \in Seq(Segment), NEW out \in Seq(SentSegment),
         NEW rows, Fine(e, in, out, rows, TRUE), NEW rows2,
         \A row2 \in rows2 : \E row \in rows : /\ row2.status = row.status
                                               /\ row2.next_seq = row.next_seq,
         NEW out2,
         \/ out2 = out
         \/ \E r \in SentSegment :
               /\ out2 = Append(out, r)
               /\ r.bits = PSH_ACK \/ (r.bits = FIN_ACK /\ rows # {} /\ rows2 = {})
               /\ \A row \in rows : r.ack = row.next_seq
  PROVE  Fine(e, in, out2, rows2, TRUE)
  <1>1. SynOpens(e, in) /\ Live(e, rows2)
    BY DEF Fine, Live
  <1>2. CASE out2 = out
    <2>1. FinCloses(out, rows2) /\ Handshake(e, in, out, rows2, TRUE)
      BY DEF Fine, FinCloses, Handshake
    <2>2. Connected(e, in, out, rows2, TRUE)
      BY DEF Fine, Connected
    <2>3. QED
      BY <1>1, <1>2, <2>1, <2>2 DEF Fine
  <1>3. CASE \E r \in SentSegment :
                /\ out2 = Append(out, r)
                /\ r.bits = PSH_ACK \/ (r.bits = FIN_ACK /\ rows # {} /\ rows2 = {})
                /\ \A row \in rows : r.ack = row.next_seq
    <2>1. PICK r \in SentSegment :
                /\ out2 = Append(out, r)
                /\ r.bits = PSH_ACK \/ (r.bits = FIN_ACK /\ rows # {} /\ rows2 = {})
                /\ \A row \in rows : r.ack = row.next_seq
      BY <1>3
    <2>2. /\ \A n \in 1 .. Len(out) : out2[n] = out[n] /\ n \in 1 .. Len(out2)
          /\ out2[Len(out) + 1] = r
          /\ \A n \in 1 .. Len(out2) : n \in 1 .. Len(out) \/ n = Len(out) + 1
          /\ Len(out) \in Nat
      BY <2>1, AppendAt
    <2>3. FinCloses(out2, rows2)
      BY <2>1, <2>2 DEF Fine, FinCloses
    <2>4. Handshake(e, in, out2, rows2, TRUE)
      <3>. SUFFICES ASSUME e.st = "syn_sent" PROVE Handshake(e, in, out2, rows2, TRUE)
        BY DEF Handshake
      <3>1. Handshake(e, in, out, rows, TRUE)
        BY DEF Fine
      <3>2. in # <<>> => rows2 = {}
        BY <3>1 DEF Handshake
      <3>3. in # <<>> => \A n \in 1 .. Len(out2) : out2[n].bits \notin {SYN_ACK, FIN_ACK}
        BY <2>1, <2>2, <3>1 DEF Handshake
      <3>4. \A row \in rows2 : row.status = SYN_RCVD /\ row.next_seq = e.data
        BY <3>1 DEF Handshake
      <3>5. rows2 # {} => \E n \in 1 .. Len(out2) : out2[n].bits = SYN_ACK
        BY <2>2, <3>1 DEF Handshake
      <3>6. ASSUME rows2 # {}, NEW n \in 1 .. Len(out2), NEW m \in 1 .. Len(out2),
                   out2[n].bits = SYN_ACK, n <= m
            PROVE  out2[m].ack = e.data
        <4>1. n \in 1 .. Len(out)
          BY <2>1, <2>2, <3>6
        <4>2. PICK row \in rows : TRUE
          BY <3>6
        <4>3. CASE m = Len(out) + 1
          BY <2>1, <2>2, <3>1, <4>2, <4>3 DEF Handshake
        <4>4. CASE m \in 1 .. Len(out)
          <5>1. out2[n] = out[n] /\ out2[m] = out[m]
            BY <2>2, <4>1, <4>4
          <5>2. rows # {} /\ out[n].bits = SYN_ACK /\ n <= m
            BY <3>6, <4>2, <5>1
          <5>3. out[m].ack = e.data
            BY <3>1, <4>1, <4>4, <5>2 DEF Handshake
          <5>4. QED
            BY <5>1, <5>3
        <4>5. QED
          BY <2>2, <4>3, <4>4
      <3>7. QED
        BY <3>1, <3>2, <3>3, <3>4, <3>5, <3>6 DEF Handshake
    <2>5. Connected(e, in, out2, rows2, TRUE)
      <3>. SUFFICES ASSUME e.st \in {"established", "fin_wait_1"}, rows2 # {}
                    PROVE  Connected(e, in, out2, rows2, TRUE)
        BY DEF Connected
      <3>1. Connected(e, in, out, rows, TRUE)
        BY DEF Fine
      <3>2. PICK row \in rows : TRUE
        OBVIOUS
      <3>3. r.ack = row.next_seq /\ Gap(e.data, row.next_seq) <= OctetsSent(e)
        BY <2>1, <3>1, <3>2 DEF Connected
      <3>4. \A n \in 1 .. Len(out2) :
               out2[n].toPeerPort => Gap(e.data, out2[n].ack) <= OctetsSent(e)
        BY <2>2, <3>1, <3>2, <3>3 DEF Connected
      <3>5. \A row2 \in rows2 : Gap(e.data, row2.next_seq) <= OctetsSent(e)
        BY <3>1 DEF Connected
      <3>6. QED
        BY <3>1, <3>2, <3>4, <3>5 DEF Connected
    <2>6. QED
      BY <1>1, <2>3, <2>4, <2>5 DEF Fine
  <1>4. QED
    BY <1>2, <1>3

\* The slot picked for a peer's segment is the only open one of the peer.
LEMMA OneSlot ==
  ASSUME TableInv, NEW p \in Peers, NEW i \in Slots, Selected(table, p, i),
         NEW x \in Entry, table' = [table EXCEPT ![i] = x],
         x.peer = p \/ x.status = NOT_CONNECTED
  PROVE  /\ \A q \in Peers : q # p => Rows(q)' = Rows(q)
         /\ Rows(p)' = IF x.status # NOT_CONNECTED THEN {x} ELSE {}
         /\ Rows(p) = IF IsOpen(i) THEN {table[i]} ELSE {}
  <1>1. /\ table \in [Slots -> Entry] /\ table'[i] = x
        /\ \A j \in Slots : j # i => table'[j] = table[j]
    BY DEF TableInv, TableType
  <1>2. IsOpen(i) => table[i].peer = p
    BY DEF Selected, Found, FirstFree, IsOpen
  <1>3. ASSUME NEW j \in Slots, IsOpen(j), table[j].peer = p PROVE j = i
    <2>1. Found(table, p, j)
      BY <1>3 DEF TableInv, KeyInv
    <2>2. Found(table, p, i)
      BY <1>3 DEF Selected, Unknown
    <2>3. QED
      BY <2>1, <2>2, FoundOnce
  <1>4. IsOpen(i)' <=> x.status # NOT_CONNECTED
    BY <1>1 DEF IsOpen
  <1>5. \A j \in Slots : j # i => (IsOpen(j)' <=> IsOpen(j))
    BY <1>1 DEF IsOpen
  <1>6. Rows(p) = IF IsOpen(i) THEN {table[i]} ELSE {}
    BY <1>2, <1>3 DEF Rows
  <1>7. Rows(p)' = IF x.status # NOT_CONNECTED THEN {x} ELSE {}
    BY <1>1, <1>3, <1>4, <1>5 DEF Rows
  <1>8. ASSUME NEW q \in Peers, q # p PROVE Rows(q)' = Rows(q)
    <2>1. ASSUME NEW j \in Slots
          PROVE  IsOpen(j)' /\ table'[j].peer = q <=> IsOpen(j) /\ table[j].peer = q
      BY <1>1, <1>2, <1>4, <1>5, <1>8
    <2>2. ASSUME NEW j \in Slots, IsOpen(j), table[j].peer = q PROVE table'[j] = table[j]
      BY <1>1, <1>2, <1>8, <2>2
    <2>3. QED
      BY <2>1, <2>2 DEF Rows
  <1>9. QED
    BY <1>6, <1>7, <1>8

\* What a segment does to the slot picked for it, and what is sent: a FIN closes an open
\* slot and has two answers, every other segment is recorded and has one or none.
Refuses(p) == LimitReached(table, p) /\ UNCHANGED table /\ sent' = <<>>

Ends(s, i) ==
    /\ s.bits = FIN_ACK /\ IsOpen(i)
    /\ table' = [table EXCEPT ![i] = CloseEntry(PayloadEntry(table[i], s))]
    /\ \E iss \in Isns :
          sent' = <<PayloadReply(s, iss), SecondReply(PayloadReply(s, iss))>>

Records(s, i) ==
    /\ s.bits = FIN_ACK => ~IsOpen(i)
    /\ table' = [table EXCEPT ![i] = PayloadEntry(table[i], s)]
    /\ \/ sent' = <<>> /\ s.bits = ACK
       \/ /\ s.bits = ACK => s.len = 1
          /\ \E iss \in Isns : sent' = <<PayloadReply(s, iss)>>

LEMMA ReceiveCases ==
  ASSUME NEW p \in Peers, NEW s, Sendable(p, s), Receive(s)
  PROVE  Refuses(p) \/ \E i \in Slots : Selected(table, p, i) /\ (Ends(s, i) \/ Records(s, i))
  <1>1. Int8(0) = 0 /\ Int8(1) = 1
    BY DEF Int8
  <1>2. s.peer = p /\ s.len \in {0, 1}
        /\ s.bits \in {SYN, ACK, FIN_ACK, PSH_ACK} /\ (s.bits = PSH_ACK => s.len = 1)
    BY DEF Sendable
  <1>3. ASSUME NEW i \in Slots
        PROVE  /\ s.bits = SYN => PayloadStatus(table[i], s) = TCP_REG
               /\ s.bits = ACK =>
                     PayloadStatus(table[i], s) =
                         IF table[i].status = ACTIVE /\ s.len > 0 THEN TCP_REG ELSE TCP_NONE
               /\ s.bits = PSH_ACK => PayloadStatus(table[i], s) = 1
               /\ s.bits = FIN_ACK =>
                     PayloadStatus(table[i], s) = IF IsOpen(i) THEN TCP_FIN_ACK ELSE TCP_CLOSED
    BY <1>1, <1>2 DEF PayloadStatus, IsOpen
  <1>4. CASE ReceiveLimitReached(s)
    BY <1>2, <1>4 DEF ReceiveLimitReached, Refuses
  <1>5. CASE ReceiveNoReply(s)
    <2>1. PICK i \in Slots :
             /\ Selected(table, s.peer, i)
             /\ PayloadStatus(table[i], s) < 0
             /\ PayloadStatus(table[i], s) \notin {TCP_CLOSED, TCP_FIN_ACK}
             /\ table' = [table EXCEPT ![i] = PayloadEntry(table[i], s)]
             /\ sent' = <<>>
      BY <1>5 DEF ReceiveNoReply
    <2>2. s.bits = ACK
      BY <1>2, <1>3, <2>1
    <2>3. Records(s, i)
      BY <2>1, <2>2 DEF Records
    <2>4. QED
      BY <1>2, <2>1, <2>3
  <1>6. CASE ReceiveReply(s)
    <2>1. PICK i \in Slots, iss \in Isns :
             /\ Selected(table, s.peer, i)
             /\ \/ PayloadStatus(table[i], s) >= TCP_REG
                \/ PayloadStatus(table[i], s) = TCP_CLOSED
             /\ table' = [table EXCEPT ![i] = PayloadEntry(table[i], s)]
             /\ sent' = <<PayloadReply(s, iss)>>
      BY <1>6 DEF ReceiveReply
    <2>2. /\ s.bits = ACK => s.len = 1
          /\ s.bits = FIN_ACK => ~IsOpen(i)
      BY <1>2, <1>3, <2>1
    <2>3. Records(s, i)
      BY <2>1, <2>2 DEF Records
    <2>4. QED
      BY <1>2, <2>1, <2>3
  <1>7. CASE ReceiveFinAck(s)
    <2>1. PICK i \in Slots, iss \in Isns :
             /\ Selected(table, s.peer, i)
             /\ PayloadStatus(table[i], s) = TCP_FIN_ACK
             /\ table' = [table EXCEPT ![i] = CloseEntry(PayloadEntry(table[i], s))]
             /\ sent' = <<PayloadReply(s, iss), SecondReply(PayloadReply(s, iss))>>
      BY <1>7 DEF ReceiveFinAck
    <2>2. s.bits = FIN_ACK /\ IsOpen(i)
      BY <1>2, <1>3, <2>1
    <2>3. Ends(s, i)
      BY <2>1, <2>2 DEF Ends
    <2>4. QED
      BY <1>2, <2>1, <2>3
  <1>8. QED
    BY <1>4, <1>5, <1>6, <1>7 DEF Receive

\* What is recorded in a slot, and the number it is answered with.
LEMMA Recorded ==
  ASSUME NEW p \in Peers, NEW s, Sendable(p, s), NEW e \in Entry
  PROVE  /\ PayloadEntry(e, s) \in Entry
         /\ s.bits = SYN => /\ PayloadEntry(e, s).peer = p
                            /\ PayloadEntry(e, s).status = SYN_RCVD
                            /\ PayloadEntry(e, s).next_seq = Wrap(s.seq + 1)
         /\ s.bits # SYN => /\ PayloadEntry(e, s).peer = e.peer
                            /\ e.status = NOT_CONNECTED =>
                                  PayloadEntry(e, s).status = NOT_CONNECTED
         /\ s.bits \in {ACK, PSH_ACK} /\ e.status # NOT_CONNECTED =>
               PayloadEntry(e, s).next_seq = Wrap(s.seq + s.len)
  <1>1. s.peer = p /\ s \in Segment /\ s.len \in {0, 1}
    BY DEF Sendable
  <1>2. /\ PayloadEntry(e, s) \in Entry
        /\ s.bits = SYN => /\ PayloadEntry(e, s).peer = p
                           /\ PayloadEntry(e, s).status = SYN_RCVD
        /\ s.bits # SYN => /\ PayloadEntry(e, s).peer = e.peer
                           /\ e.status = NOT_CONNECTED =>
                                  PayloadEntry(e, s).status = NOT_CONNECTED
    BY <1>1, PayloadEntryEffect
  <1>3. Int8(s.len) = s.len
    BY <1>1 DEF Int8
  <1>4. \A n \in {1, s.len} : RecordSeq(e, s, n).next_seq = Wrap(s.seq + n)
    BY DEF RecordSeq, Entry
  <1>5. CASE s.bits = SYN
    <2>1. PayloadEntry(e, s) = SynEntry(e, s)
      BY <1>5 DEF PayloadEntry
    <2>2. SynEntry(e, s).next_seq = Wrap(s.seq + 1)
      BY DEF SynEntry, Entry
    <2>3. QED
      BY <1>2, <1>5, <2>1, <2>2
  <1>6. CASE s.bits = PSH_ACK
    <2>1. PayloadEntry(e, s) = RecordSeq(e, s, s.len)
      BY <1>3, <1>6 DEF PayloadEntry
    <2>2. QED
      BY <1>2, <1>4, <1>6, <2>1
  <1>7. CASE s.bits = ACK
    <2>1. PayloadEntry(e, s) = AckEntry(e, s)
      BY <1>7 DEF PayloadEntry
    <2>2. e.status # NOT_CONNECTED =>
             AckEntry(e, s) = [RecordSeq(e, s, s.len) EXCEPT !.status = ACTIVE]
      BY <1>3 DEF AckEntry
    <2>3. [RecordSeq(e, s, s.len) EXCEPT !.status = ACTIVE].next_seq
             = RecordSeq(e, s, s.len).next_seq
      BY DEF RecordSeq, Entry
    <2>4. e.status # NOT_CONNECTED => PayloadEntry(e, s).next_seq = Wrap(s.seq + s.len)
      <3>1. RecordSeq(e, s, s.len).next_seq = Wrap(s.seq + s.len)
        BY <1>4
      <3>2. QED
        BY <2>1, <2>2, <2>3, <3>1, Zenon
    <2>5. QED
      BY <1>2, <1>7, <2>4
  <1>8. QED
    BY <1>2, <1>5, <1>6, <1>7

LEMMA Answers ==
  ASSUME NEW p \in Peers, NEW s, Sendable(p, s), NEW iss \in Isns
  PROVE  /\ PayloadReply(s, iss) \in SentSegment /\ PayloadReply(s, iss).peer = p
         /\ SecondReply(PayloadReply(s, iss)) \in SentSegment
         /\ s.bits = SYN => /\ PayloadReply(s, iss).bits = SYN_ACK
                            /\ PayloadReply(s, iss).ack = Wrap(s.seq + 1)
         /\ s.bits \in {ACK, PSH_ACK} => /\ PayloadReply(s, iss).bits = ACK
                                         /\ PayloadReply(s, iss).ack = Wrap(s.seq + s.len)
  <1>1. s.peer = p /\ s \in Segment /\ s.len \in {0, 1}
    BY DEF Sendable
  <1>2. Int8(s.len) = s.len
    BY <1>1 DEF Int8
  <1>3. QED
    BY <1>1, <1>2, PayloadReplyType DEF PayloadReply

\* What the stack sends on reading a segment goes to the segment's peer, in one frame unless
\* that is a FIN.
LEMMA AnswersTo ==
  ASSUME NEW p \in Peers, NEW s, Sendable(p, s), Receive(s)
  PROVE  \/ sent' = <<>>
         \/ \E r \in SentSegment :
               /\ r.peer = p
               /\ \/ sent' = <<r>>
                  \/ s.bits = FIN_ACK /\ sent' = <<r, SecondReply(r)>>
               /\ s.bits = SYN => r.bits = SYN_ACK /\ r.ack = Wrap(s.seq + 1)
               /\ s.bits \in {ACK, PSH_ACK} => /\ r.bits = ACK /\ s.len = 1
                                               /\ r.ack = Wrap(s.seq + s.len)
  <1>1. s.bits = PSH_ACK => s.len = 1
    BY DEF Sendable
  <1>2. CASE Refuses(p)
    BY <1>2 DEF Refuses
  <1>3. ASSUME NEW iss \in Isns
        PROVE  /\ PayloadReply(s, iss) \in SentSegment /\ PayloadReply(s, iss).peer = p
               /\ s.bits = SYN => /\ PayloadReply(s, iss).bits = SYN_ACK
                                  /\ PayloadReply(s, iss).ack = Wrap(s.seq + 1)
               /\ s.bits \in {ACK, PSH_ACK} =>
                      /\ PayloadReply(s, iss).bits = ACK
                      /\ PayloadReply(s, iss).ack = Wrap(s.seq + s.len)
    BY Answers
  <1>4. CASE \E i \in Slots : Ends(s, i)
    <2>1. PICK iss \in Isns : /\ s.bits = FIN_ACK
                              /\ sent' = <<PayloadReply(s, iss),
                                           SecondReply(PayloadReply(s, iss))>>
      BY <1>4 DEF Ends
    <2>2. QED
      BY <1>3, <2>1
  <1>5. CASE \E i \in Slots : Records(s, i)
    <2>1. CASE sent' = <<>>
      BY <2>1
    <2>2. CASE /\ s.bits = ACK => s.len = 1
               /\ \E iss \in Isns : sent' = <<PayloadReply(s, iss)>>
      <3>1. PICK iss \in Isns : sent' = <<PayloadReply(s, iss)>>
        BY <2>2
      <3>2. QED
        BY <1>1, <1>3, <2>2, <3>1
    <2>3. QED
      BY <1>5, <2>1, <2>2 DEF Records
  <1>6. QED
    BY <1>2, <1>4, <1>5, ReceiveCases

\* A peer's segment leaves the other peers' slots alone; its own slot is opened by a SYN,
\* closed by a FIN and otherwise records what the segment carries.
LEMMA ReceiveRows ==
  ASSUME TableInv, NEW p \in Peers, NEW s, Sendable(p, s), Receive(s)
  PROVE  /\ \A q \in Peers : q # p => Rows(q)' = Rows(q)
         /\ Rows(p)' \in SUBSET Entry
         /\ s.bits # SYN /\ Rows(p) = {} => Rows(p)' = {}
         /\ s.bits = FIN_ACK => Rows(p)' = {}
         /\ s.bits \in {ACK, PSH_ACK} =>
               \A row \in Rows(p)' : row.next_seq = Wrap(s.seq + s.len)
         /\ s.bits = SYN /\ sent' = <<>> => Rows(p)' = {}
         /\ s.bits = SYN => \A row \in Rows(p)' : /\ row.status = SYN_RCVD
                                                  /\ row.next_seq = Wrap(s.seq + 1)
  <1>0. table \in [Slots -> Entry] /\ s.bits \in {SYN, ACK, FIN_ACK, PSH_ACK}
    BY DEF TableInv, TableType, Sendable
  <1>1. CASE Refuses(p)
    <2>1. \A q \in Peers : Rows(q)' = Rows(q)
      BY <1>1 DEF Refuses, Rows, IsOpen
    <2>2. Rows(p) = {}
      BY <1>1 DEF Refuses, LimitReached, Unknown, Rows
    <2>3. QED
      BY <2>1, <2>2
  <1>2. ASSUME NEW i \in Slots, Selected(table, p, i), Ends(s, i)
        PROVE  Rows(p)' = {} /\ \A q \in Peers : q # p => Rows(q)' = Rows(q)
    <2>1. PayloadEntry(table[i], s) \in Entry
      BY <1>0, Recorded
    <2>2. /\ CloseEntry(PayloadEntry(table[i], s)) \in Entry
          /\ CloseEntry(PayloadEntry(table[i], s)).status = NOT_CONNECTED
      BY <2>1, CloseEntryEffect DEF Entry
    <2>3. table' = [table EXCEPT ![i] = CloseEntry(PayloadEntry(table[i], s))]
      BY <1>2 DEF Ends
    <2>4. QED
      BY <1>2, <2>2, <2>3, OneSlot
  <1>3. ASSUME NEW i \in Slots, Selected(table, p, i), Records(s, i)
        PROVE  /\ \A q \in Peers : q # p => Rows(q)' = Rows(q)
               /\ Rows(p)' \in SUBSET {PayloadEntry(table[i], s)}
               /\ s.bits # SYN /\ ~IsOpen(i) => Rows(p)' = {}
               /\ Rows(p) = IF IsOpen(i) THEN {table[i]} ELSE {}
    <2> DEFINE x == PayloadEntry(table[i], s)
    <2>1. table[i] \in Entry /\ x \in Entry
      BY <1>0, Recorded
    <2>2. s.bits # SYN /\ ~IsOpen(i) => x.status = NOT_CONNECTED
      BY <1>0, Recorded DEF IsOpen
    <2>3. s.bits # SYN /\ IsOpen(i) => x.peer = p
      <3>1. IsOpen(i) => table[i].peer = p
        BY <1>3 DEF Selected, Found, FirstFree, IsOpen
      <3>2. QED
        BY <1>0, <3>1, Recorded
    <2>4. s.bits = SYN => x.peer = p
      BY <1>0, Recorded
    <2>5. x.peer = p \/ x.status = NOT_CONNECTED
      BY <2>2, <2>3, <2>4
    <2>6. table' = [table EXCEPT ![i] = x]
      BY <1>3 DEF Records
    <2>. HIDE DEF x
    <2>7. /\ \A q \in Peers : q # p => Rows(q)' = Rows(q)
          /\ Rows(p)' = IF x.status # NOT_CONNECTED THEN {x} ELSE {}
          /\ Rows(p) = IF IsOpen(i) THEN {table[i]} ELSE {}
      BY <1>3, <2>1, <2>5, <2>6, OneSlot
    <2>8. Rows(p)' \in SUBSET {x}
      BY <2>7
    <2>9. s.bits # SYN /\ ~IsOpen(i) => Rows(p)' = {}
      BY <2>2, <2>7
    <2>10. QED
      BY <2>7, <2>8, <2>9 DEF x
  <1>4. ASSUME NEW i \in Slots, Selected(table, p, i), Ends(s, i)
        PROVE  s.bits = FIN_ACK
    BY <1>4 DEF Ends
  <1>5. ASSUME NEW i \in Slots, Selected(table, p, i), Records(s, i)
        PROVE  /\ s.bits = FIN_ACK => ~IsOpen(i)
               /\ s.bits = SYN => sent' # <<>>
    BY <1>5 DEF Records
  <1>6. CASE \E i \in Slots : Selected(table, p, i) /\ Ends(s, i)
    BY <1>2, <1>4, <1>6
  <1>7. CASE \E i \in Slots : Selected(table, p, i) /\ Records(s, i)
    <2>1. PICK i \in Slots : Selected(table, p, i) /\ Records(s, i)
      BY <1>7
    <2>2. /\ \A q \in Peers : q # p => Rows(q)' = Rows(q)
          /\ Rows(p)' \in SUBSET {PayloadEntry(table[i], s)}
          /\ s.bits # SYN /\ ~IsOpen(i) => Rows(p)' = {}
          /\ Rows(p) = IF IsOpen(i) THEN {table[i]} ELSE {}
      BY <1>3, <2>1
    <2>3. /\ PayloadEntry(table[i], s) \in Entry
          /\ s.bits = SYN => /\ PayloadEntry(table[i], s).status = SYN_RCVD
                             /\ PayloadEntry(table[i], s).next_seq = Wrap(s.seq + 1)
          /\ s.bits \in {ACK, PSH_ACK} /\ IsOpen(i) =>
               PayloadEntry(table[i], s).next_seq = Wrap(s.seq + s.len)
      BY <1>0, Recorded DEF IsOpen
    <2>4. Rows(p) = {} => ~IsOpen(i)
      BY <2>2
    <2>5. QED
      BY <1>0, <1>5, <2>1, <2>2, <2>3, <2>4
  <1>8. QED
    BY <1>1, <1>6, <1>7, ReceiveCases

\* Only the links of the segment's peer change.
LEMMA ReceiveLinks ==
  ASSUME SessionTypes, NEW p \in Peers, StackReceive(p), NEW s, s = Head(toStack[p])
  PROVE  /\ toStack[p] # <<>> /\ Receive(s) /\ Sendable(p, s)
         /\ toStack'[p] = Tail(toStack[p])
         /\ \A q \in Peers : q # p => toStack'[q] = toStack[q] /\ toPeer'[q] = toPeer[q]
         /\ \/ toPeer'[p] = toPeer[p] /\ sent' = <<>>
            \/ s.bits = FIN_ACK
            \/ \E r \in SentSegment :
                  /\ toPeer'[p] = Append(toPeer[p], r) /\ sent' # <<>>
                  /\ s.bits = SYN => r.bits = SYN_ACK /\ r.ack = Wrap(s.seq + 1)
                  /\ s.bits \in {ACK, PSH_ACK} => /\ r.bits = ACK /\ s.len = 1
                                                  /\ r.ack = Wrap(s.seq + s.len)
  <1>1. toStack \in [Peers -> Seq(Segment)] /\ toPeer \in [Peers -> Seq(SentSegment)]
    BY DEF SessionTypes, LinksTyped, FramesTyped
  <1>2. /\ toStack[p] # <<>> /\ Receive(s)
        /\ toStack' = [toStack EXCEPT ![p] = Tail(@)] /\ Transmit
    BY DEF StackReceive
  <1>3. Sendable(p, s)
    BY <1>2, TailTyped DEF SessionTypes
  <1>4. \/ sent' = <<>>
        \/ \E r \in SentSegment :
              /\ r.peer = p
              /\ \/ sent' = <<r>>
                 \/ s.bits = FIN_ACK /\ sent' = <<r, SecondReply(r)>>
              /\ s.bits = SYN => r.bits = SYN_ACK /\ r.ack = Wrap(s.seq + 1)
              /\ s.bits \in {ACK, PSH_ACK} => /\ r.bits = ACK /\ s.len = 1
                                              /\ r.ack = Wrap(s.seq + s.len)
    BY <1>2, <1>3, AnswersTo
  <1>5. sent' # <<>> => sent'[1].peer = p
    BY <1>4
  <1>6. ASSUME NEW q \in Peers, q # p
        PROVE  toStack'[q] = toStack[q] /\ toPeer'[q] = toPeer[q]
    BY <1>1, <1>2, <1>5, <1>6 DEF Transmit
  <1>7. /\ sent' = <<>> => toPeer'[p] = toPeer[p]
        /\ \A r \in SentSegment : r.peer = p /\ sent' = <<r>> =>
              toPeer'[p] = Append(toPeer[p], r)
    BY <1>1, <1>2, TransmitOne
  <1>8. QED
    BY <1>1, <1>2, <1>3, <1>4, <1>6, <1>7

\* A segment of a peer is read: its own queues and slots change, nobody else's.
LEMMA ReceiveFine ==
  ASSUME SessionTypes, SessionInv, Calm, NEW p \in Peers, StackReceive(p), NEW q \in Peers
  PROVE  Fine(peer[q], toStack'[q], toPeer'[q], Rows(q)', losses = 0)
  <1> DEFINE s == Head(toStack[p])
  <1>1. /\ TableInv /\ peer \in [Peers -> PeerState]
        /\ toStack \in [Peers -> Seq(Segment)] /\ toPeer \in [Peers -> Seq(SentSegment)]
    BY DEF SessionTypes, LinksTyped, FramesTyped
  <1>2. Fine(peer[q], toStack[q], toPeer[q], Rows(q), losses = 0)
    BY DEF SessionInv
  <1>3. /\ toStack[p] # <<>> /\ Receive(s) /\ Sendable(p, s)
        /\ toStack'[p] = Tail(toStack[p])
        /\ \A k \in Peers : k # p => toStack'[k] = toStack[k] /\ toPeer'[k] = toPeer[k]
        /\ \/ toPeer'[p] = toPeer[p] /\ sent' = <<>>
           \/ s.bits = FIN_ACK
           \/ \E r \in SentSegment :
                 /\ toPeer'[p] = Append(toPeer[p], r) /\ sent' # <<>>
                 /\ s.bits = SYN => r.bits = SYN_ACK /\ r.ack = Wrap(s.seq + 1)
                 /\ s.bits \in {ACK, PSH_ACK} => /\ r.bits = ACK /\ s.len = 1
                                                 /\ r.ack = Wrap(s.seq + s.len)
    BY ReceiveLinks
  <1>4. /\ \A k \in Peers : k # p => Rows(k)' = Rows(k)
        /\ Rows(p)' \in SUBSET Entry
        /\ s.bits # SYN /\ Rows(p) = {} => Rows(p)' = {}
        /\ s.bits = FIN_ACK => Rows(p)' = {}
        /\ s.bits \in {ACK, PSH_ACK} =>
              \A row \in Rows(p)' : row.next_seq = Wrap(s.seq + s.len)
        /\ s.bits = SYN /\ sent' = <<>> => Rows(p)' = {}
        /\ s.bits = SYN => \A row \in Rows(p)' : /\ row.status = SYN_RCVD
                                                 /\ row.next_seq = Wrap(s.seq + 1)
    BY <1>1, <1>3, ReceiveRows
  <1>5. s \in Segment /\ s.bits \in {SYN, ACK, FIN_ACK, PSH_ACK} /\ s.len \in {0, 1}
        /\ (s.bits = PSH_ACK => s.len = 1)
    BY <1>3 DEF Sendable
  <1>6. CASE q # p
    BY <1>2, <1>3, <1>4, <1>6
  <1>7. CASE q = p
    <2> DEFINE e == peer[p]
               in == toStack[p]
               out == toPeer[p]
               out2 == toPeer'[p]
    <2>1. /\ e \in PeerState /\ in \in Seq(Segment) /\ out \in Seq(SentSegment)
          /\ in # <<>> /\ s = Head(in) /\ toStack'[p] = Tail(in)
          /\ Fine(e, in, out, Rows(p), losses = 0)
      BY <1>1, <1>2, <1>3, <1>7
    <2>2. \/ out2 = out /\ sent' = <<>>
          \/ s.bits = FIN_ACK
          \/ \E r \in SentSegment :
                /\ out2 = Append(out, r)
                /\ s.bits = SYN => r.bits = SYN_ACK /\ r.ack = Wrap(s.seq + 1)
                /\ s.bits \in {ACK, PSH_ACK} => /\ r.bits = ACK /\ s.len = 1
                                                /\ r.ack = Wrap(s.seq + s.len)
      BY <1>3
    <2>3. Fine(e, Tail(in), out2, Rows(p)', losses = 0)
      <3>. HIDE DEF s, e, in, out, out2
      <3>1. CASE s.bits = FIN_ACK
        <4>1. Rows(p)' = {}
          BY <1>4, <3>1
        <4>2. Head(in).bits # SYN
          BY <2>1, <3>1
        <4>3. QED
          BY <2>1, <4>1, <4>2, NoSlotFine
      <3>2. CASE s.bits = SYN
        <4>1. \/ Rows(p)' = {} /\ out2 = out
              \/ /\ \A row \in Rows(p)' : row.status = SYN_RCVD /\ row.next_seq = Wrap(s.seq + 1)
                 /\ \E r \in SentSegment : /\ out2 = Append(out, r)
                                           /\ r.bits = SYN_ACK /\ r.ack = Wrap(s.seq + 1)
          BY <1>4, <2>2, <3>2
        <4>2. QED
          BY <2>1, <3>2, <4>1, SynFine
      <3>3. CASE s.bits \in {ACK, PSH_ACK}
        <4>1. /\ Rows(p)' \in SUBSET Entry /\ (Rows(p) = {} => Rows(p)' = {})
              /\ \A row \in Rows(p)' : row.next_seq = Wrap(s.seq + s.len)
          BY <1>4, <3>3
        <4>2. \/ out2 = out
              \/ \E r \in SentSegment : /\ out2 = Append(out, r)
                                        /\ r.bits = ACK /\ r.ack = Wrap(s.seq + s.len)
                                        /\ r.toPeerPort => s.len = 1
          BY <2>2, <3>3
        <4>3. s.len \in {0, 1}
          BY <1>5
        <4>4. /\ e \in PeerState /\ in \in Seq(Segment) /\ out \in Seq(SentSegment)
              /\ Fine(e, in, out, Rows(p), losses = 0) /\ in # <<>> /\ s = Head(in)
          BY <2>1
        <4>5. ASSUME NEW rows, rows = Rows(p), NEW rows2, rows2 = Rows(p)',
                     NEW kept, kept = (losses = 0)
              PROVE  Fine(e, Tail(in), out2, rows2, kept)
          <5>1. /\ Fine(e, in, out, rows, kept) /\ rows2 \in SUBSET Entry
                /\ rows = {} => rows2 = {}
                /\ \A row \in rows2 : row.next_seq = Wrap(s.seq + s.len)
            BY <4>1, <4>4, <4>5
          <5>2. QED
            BY <3>3, <4>2, <4>3, <4>4, <5>1, DataFine
        <4>6. QED
          BY <4>5
      <3>4. QED
        BY <1>5, <3>1, <3>2, <3>3
    <2>4. QED
      BY <1>7, <2>1, <2>3
  <1>8. QED
    BY <1>6, <1>7

\* A line keeps the key and the recorded number of every slot, opens none, and closes none
\* that is in write mode.
Spares(i) ==
    /\ table'[i].peer = table[i].peer /\ table'[i].next_seq = table[i].next_seq
    /\ table'[i].status \in {table[i].status, NOT_CONNECTED}
    /\ table'[i].io = 1 => table'[i].status = table[i].status
    /\ table'[i].io = 1 /\ ~IsOpen(i) => table[i].io = 1

\* What a line sends: nothing, a chat's text, or the FIN of the slot it closes.
SendsFrom(i) ==
    /\ Found(table, table[i].peer, i) /\ (IsOpen(i) \/ table[i].io = 1)
    /\ \E n \in Nat : /\ n <= 1024 /\ sent' = <<CreatedSegment(table[i], n)>>
                      /\ n = 0 => IsOpen(i) /\ ~IsOpen(i)'

LEMMA LineCases ==
  ASSUME TableInv, NEW l \in Lines, UserLine(l)
  PROVE  /\ \A i \in Slots : Spares(i)
         /\ sent' = <<>> \/ \E i \in Slots : SendsFrom(i)
  <1>1. table \in [Slots -> Entry] /\ ReadBytes(l) \in Nat /\ ReadBytes(l) <= 1024
    BY LinesAssumption DEF TableInv, TableType, ReadBytes, Line
  <1>2. ASSUME NEW i \in Slots, NEW x, table' = [table EXCEPT ![i] = x],
               x.peer = table[i].peer, x.next_seq = table[i].next_seq,
               x.status \in {table[i].status, NOT_CONNECTED}, x.io = 0
        PROVE  \A j \in Slots : Spares(j)
    BY <1>1, <1>2 DEF Spares
  <1>3. ASSUME NEW i \in Slots, NEW n \in Nat
        PROVE  /\ CreatedEntry(table[i], n).peer = table[i].peer
               /\ CreatedEntry(table[i], n).next_seq = table[i].next_seq
               /\ CreatedEntry(table[i], n).io = table[i].io
               /\ CreatedEntry(table[i], n).status =
                     IF n = 0 THEN NOT_CONNECTED ELSE table[i].status
    BY <1>1 DEF CreatedEntry, Entry
  <1>4. CASE CommandRefused(l) \/ ChatNothing(l)
    BY <1>4 DEF CommandRefused, ChatNothing, Spares
  <1>5. CASE CommandClose(l)
    <2>1. l.id \in Slots /\ IsOpen(l.id) /\ table[l.id].io = 0
      BY <1>5 DEF CommandClose, ValidId, IsOpen, NoChat
    <2>2. CASE /\ table' = [table EXCEPT ![l.id] = CreatedEntry(table[l.id], 0)]
               /\ sent' = <<CreatedSegment(table[l.id], 0)>>
      <3>1. \A j \in Slots : Spares(j)
        <4>1. /\ CreatedEntry(table[l.id], 0).peer = table[l.id].peer
              /\ CreatedEntry(table[l.id], 0).next_seq = table[l.id].next_seq
              /\ CreatedEntry(table[l.id], 0).io = 0
              /\ CreatedEntry(table[l.id], 0).status = NOT_CONNECTED
          BY <1>3, <2>1
        <4>2. QED
          BY <1>2, <2>1, <2>2, <4>1
      <3>2. ~IsOpen(l.id)'
        BY <1>1, <1>3, <2>1, <2>2 DEF IsOpen
      <3>3. Found(table, table[l.id].peer, l.id)
        BY <2>1 DEF TableInv, KeyInv
      <3>4. SendsFrom(l.id)
        BY <2>1, <2>2, <3>2, <3>3 DEF SendsFrom
      <3>5. QED
        BY <2>1, <3>1, <3>4
    <2>3. CASE /\ table' = [table EXCEPT ![l.id] = CloseEntry(table[l.id])]
               /\ sent' = <<>>
      <3>1. /\ CloseEntry(table[l.id]).peer = table[l.id].peer
            /\ CloseEntry(table[l.id]).next_seq = table[l.id].next_seq
            /\ CloseEntry(table[l.id]).status = NOT_CONNECTED
            /\ CloseEntry(table[l.id]).io = 0
        BY <1>1, <2>1 DEF CloseEntry, Entry
      <3>2. QED
        BY <1>2, <2>1, <2>3, <3>1
    <2>4. QED
      BY <1>5, <2>2, <2>3 DEF CommandClose
  <1>6. ASSUME NEW i \in Slots, NEW m \in {0, 1}, table' = [table EXCEPT ![i].io = m],
               m = 1 => IsOpen(i)
        PROVE  \A j \in Slots : Spares(j)
    BY <1>1, <1>6 DEF Spares, Entry, IsOpen
  <1>7. CASE CommandChat(l)
    BY <1>6, <1>7 DEF CommandChat, ValidId, IsOpen
  <1>8. CASE ChatExit(l)
    <2>1. PICK i \in Slots : table' = [table EXCEPT ![i].io = 0] /\ sent' = <<>>
      BY <1>8 DEF ChatExit
    <2>2. \A j \in Slots : Spares(j)
      BY <1>1, <2>1 DEF Spares, Entry, IsOpen
    <2>3. QED
      BY <2>1, <2>2
  <1>9. CASE ChatSend(l)
    <2>1. PICK i \in Slots :
             /\ Chatting(i) /\ ReadBytes(l) > 0
             /\ \/ /\ table' = [table EXCEPT ![i] =
                          [CreatedEntry(table[i], ReadBytes(l)) EXCEPT !.io = 0]]
                   /\ sent' = <<CreatedSegment(table[i], ReadBytes(l))>>
                \/ /\ table' = [table EXCEPT ![i].io = 0]
                   /\ sent' = <<>>
      BY <1>9 DEF ChatSend
    <2>2. CASE /\ table' = [table EXCEPT ![i] =
                          [CreatedEntry(table[i], ReadBytes(l)) EXCEPT !.io = 0]]
               /\ sent' = <<CreatedSegment(table[i], ReadBytes(l))>>
      <3>1. /\ [CreatedEntry(table[i], ReadBytes(l)) EXCEPT !.io = 0].peer = table[i].peer
            /\ [CreatedEntry(table[i], ReadBytes(l)) EXCEPT !.io = 0].next_seq
                   = table[i].next_seq
            /\ [CreatedEntry(table[i], ReadBytes(l)) EXCEPT !.io = 0].status
                   \in {table[i].status, NOT_CONNECTED}
            /\ [CreatedEntry(table[i], ReadBytes(l)) EXCEPT !.io = 0].io = 0
        BY <1>1, <1>3 DEF CreatedEntry, Entry
      <3>2. \A j \in Slots : Spares(j)
        BY <1>2, <2>2, <3>1
      <3>3. Found(table, table[i].peer, i)
        BY <2>1 DEF TableInv, KeyInv, Chatting
      <3>4. ReadBytes(l) # 0
        BY <1>1, <2>1
      <3>5. SendsFrom(i)
        BY <1>1, <2>1, <2>2, <3>3, <3>4 DEF SendsFrom, Chatting
      <3>6. QED
        BY <3>2, <3>5
    <2>3. QED
      BY <1>6, <2>1, <2>2
  <1>10. QED
    BY <1>4, <1>5, <1>7, <1>8, <1>9 DEF UserLine

LEMMA UserRows ==
  ASSUME TableInv, NEW l \in Lines, UserLine(l), NEW q \in Peers
  PROVE  /\ \A row2 \in Rows(q)' : \E row \in Rows(q) : /\ row2.status = row.status
                                                        /\ row2.next_seq = row.next_seq
         /\ \/ sent' = <<>>
            \/ \E r \in SentSegment :
                  /\ sent' = <<r>>
                  /\ r.peer = q =>
                        /\ r.bits = PSH_ACK \/ (r.bits = FIN_ACK /\ Rows(q) # {} /\ Rows(q)' = {})
                        /\ \A row \in Rows(q) : r.ack = row.next_seq
  <1>1. table \in [Slots -> Entry]
    BY DEF TableInv, TableType
  <1>2. /\ \A i \in Slots : Spares(i)
        /\ sent' = <<>> \/ \E i \in Slots : SendsFrom(i)
    BY LineCases
  <1>3. ASSUME NEW i \in Slots, IsOpen(i)', table'[i].peer = q
        PROVE  /\ IsOpen(i) /\ table[i].peer = q /\ table'[i].status = table[i].status
               /\ table'[i].next_seq = table[i].next_seq
    BY <1>2, <1>3 DEF Spares, IsOpen
  <1>4. \A row2 \in Rows(q)' : \E row \in Rows(q) : /\ row2.status = row.status
                                                    /\ row2.next_seq = row.next_seq
    <2>1. ASSUME NEW row2 \in Rows(q)'
          PROVE  \E row \in Rows(q) : row2.status = row.status /\ row2.next_seq = row.next_seq
      <3>1. PICK i \in Slots : IsOpen(i)' /\ table'[i].peer = q /\ row2 = table'[i]
        BY <2>1 DEF Rows
      <3>2. table[i] \in Rows(q)
        BY <1>3, <3>1 DEF Rows
      <3>3. QED
        BY <1>3, <3>1, <3>2
    <2>2. QED
      BY <2>1
  <1>5. ASSUME NEW i \in Slots, SendsFrom(i)
        PROVE  \E r \in SentSegment :
                  /\ sent' = <<r>>
                  /\ r.peer = q =>
                        /\ r.bits = PSH_ACK \/ (r.bits = FIN_ACK /\ Rows(q) # {} /\ Rows(q)' = {})
                        /\ \A row \in Rows(q) : r.ack = row.next_seq
    <2>1. PICK n \in Nat : /\ n <= 1024 /\ sent' = <<CreatedSegment(table[i], n)>>
                           /\ n = 0 => IsOpen(i) /\ ~IsOpen(i)'
      BY <1>5 DEF SendsFrom
    <2> DEFINE r == CreatedSegment(table[i], n)
    <2>2. /\ r \in SentSegment /\ r.peer = table[i].peer /\ r.ack = table[i].next_seq
          /\ r.bits = IF n = 0 THEN FIN_ACK ELSE PSH_ACK
      BY <1>1, <2>1, CreatedEffect DEF CreatedSegment
    <2>3. ASSUME NEW j \in Slots, IsOpen(j), table[j].peer = q, r.peer = q PROVE j = i
      <3>1. Found(table, q, j)
        BY <2>3 DEF TableInv, KeyInv
      <3>2. Found(table, q, i)
        BY <1>5, <2>2, <2>3 DEF SendsFrom
      <3>3. QED
        BY <3>1, <3>2, FoundOnce
    <2>4. sent' = <<r>>
      BY <2>1
    <2>. HIDE DEF r
    <2>5. r.peer = q => \A row \in Rows(q) : r.ack = row.next_seq
      BY <2>2, <2>3 DEF Rows
    <2>6. r.peer = q /\ n = 0 => Rows(q) # {} /\ Rows(q)' = {}
      <3>1. ASSUME r.peer = q, n = 0 PROVE table[i] \in Rows(q)
        BY <2>1, <2>2, <3>1 DEF Rows
      <3>2. ASSUME r.peer = q, n = 0, NEW j \in Slots, IsOpen(j)', table'[j].peer = q
            PROVE  FALSE
        BY <1>3, <2>1, <2>3, <3>2
      <3>3. r.peer = q /\ n = 0 => Rows(q)' = {}
        BY <3>2 DEF Rows
      <3>4. QED
        BY <3>1, <3>3
    <2>7. QED
      BY <2>2, <2>4, <2>5, <2>6
  <1>6. QED
    BY <1>2, <1>4, <1>5

\* A line of the user's, typed in a calm session: no frame was lost.
LEMMA LineFine ==
  ASSUME SessionTypes, SessionInv, losses = 0, NEW l \in Lines, StackUserLine(l),
         NEW q \in Peers
  PROVE  Fine(peer[q], toStack'[q], toPeer'[q], Rows(q)', TRUE)
  <1>1. /\ TableInv /\ peer[q] \in PeerState
        /\ toStack[q] \in Seq(Segment) /\ toPeer[q] \in Seq(SentSegment)
    BY DEF SessionTypes, LinksTyped, FramesTyped
  <1>2. Fine(peer[q], toStack[q], toPeer[q], Rows(q), TRUE)
    <2>1. (losses = 0) = TRUE
      OBVIOUS
    <2>2. QED
      BY <2>1 DEF SessionInv, Calm
  <1>3. UserLine(l) /\ Transmit /\ toStack' = toStack
    BY DEF StackUserLine
  <1>4. /\ \A row2 \in Rows(q)' : \E row \in Rows(q) : /\ row2.status = row.status
                                                       /\ row2.next_seq = row.next_seq
        /\ \/ sent' = <<>>
           \/ \E r \in SentSegment :
                 /\ sent' = <<r>>
                 /\ r.peer = q =>
                       /\ r.bits = PSH_ACK \/ (r.bits = FIN_ACK /\ Rows(q) # {} /\ Rows(q)' = {})
                       /\ \A row \in Rows(q) : r.ack = row.next_seq
    BY <1>1, <1>3, UserRows
  <1>5. \/ toPeer'[q] = toPeer[q]
        \/ \E r \in SentSegment :
              /\ toPeer'[q] = Append(toPeer[q], r)
              /\ r.bits = PSH_ACK \/ (r.bits = FIN_ACK /\ Rows(q) # {} /\ Rows(q)' = {})
              /\ \A row \in Rows(q) : r.ack = row.next_seq
    <2>1. /\ sent' = <<>> => toPeer'[q] = toPeer[q]
          /\ \A r \in SentSegment : sent' = <<r>> =>
                toPeer'[q] = IF r.peer = q THEN Append(toPeer[q], r) ELSE toPeer[q]
      BY <1>3, TransmitOne DEF SessionTypes, FramesTyped
    <2>2. QED
      BY <1>4, <2>1
  <1>6. QED
    BY <1>1, <1>2, <1>3, <1>4, <1>5, UserFine

-----------------------------------------------------------------------------
(* The steps of a peer and of its links, in the state.                     *)

\* What is known of the session where a peer or a link takes a step.
Known == SessionTypes /\ SessionTypes' /\ SessionInv /\ Calm /\ UNCHANGED table

LEMMA KnownFine ==
  ASSUME NEW p \in Peers, Known
  PROVE  /\ peer[p] \in PeerState /\ peer'[p] \in PeerState /\ peer \in [Peers -> PeerState]
         /\ toStack[p] \in Seq(Segment) /\ toPeer[p] \in Seq(SentSegment)
         /\ toStack \in [Peers -> Seq(Segment)] /\ toPeer \in [Peers -> Seq(SentSegment)]
         /\ Rows(p) \in SUBSET Entry
         /\ \A q \in Peers : /\ Rows(q)' = Rows(q)
                             /\ Fine(peer[q], toStack[q], toPeer[q], Rows(q), losses = 0)
  <1>1. /\ peer \in [Peers -> PeerState] /\ peer' \in [Peers -> PeerState]
        /\ toStack \in [Peers -> Seq(Segment)] /\ toPeer \in [Peers -> Seq(SentSegment)]
        /\ table \in [Slots -> Entry] /\ table' = table
    BY DEF Known, SessionTypes, LinksTyped, FramesTyped, TableInv, TableType
  <1>2. \A q \in Peers : Rows(q)' = Rows(q)
    BY <1>1 DEF Rows, IsOpen
  <1>3. Rows(p) \in SUBSET Entry
    BY <1>1 DEF Rows
  <1>4. QED
    BY <1>1, <1>2, <1>3 DEF Known, SessionInv

LEMMA Sends ==
  ASSUME NEW p \in Peers, Known, NEW bits \in {SYN, ACK, FIN_ACK, PSH_ACK},
         NEW seq \in Seqs, NEW ack \in Seqs, NEW len \in {0, 1},
         bits = PSH_ACK => len = 1, len = 1 => bits \in {ACK, PSH_ACK},
         Send(p, Seg(p, bits, seq, ack, len))
  PROVE  \E s \in Segment : /\ toStack'[p] = Append(toStack[p], s)
                            /\ s.bits = bits /\ s.seq = seq /\ s.len = len
                            /\ s.ack = ack
  <1>1. Seg(p, bits, seq, ack, len) \in Segment
    BY SegSendable DEF Sendable
  <1>2. /\ Seg(p, bits, seq, ack, len).bits = bits /\ Seg(p, bits, seq, ack, len).seq = seq
        /\ Seg(p, bits, seq, ack, len).len = len /\ Seg(p, bits, seq, ack, len).ack = ack
    BY DEF Seg
  <1>3. toStack'[p] = Append(toStack[p], Seg(p, bits, seq, ack, len))
    BY KnownFine DEF Send
  <1>4. QED
    BY <1>1, <1>2, <1>3

LEMMA ConnectStep ==
  ASSUME NEW p \in Peers, Known, PeerConnect(p)
  PROVE  Fine(peer'[p], toStack'[p], toPeer'[p], Rows(p)', losses' = 0)
  <1> DEFINE e == peer[p]
             f == peer'[p]
  <1>1. /\ e \in PeerState /\ f \in PeerState /\ peer \in [Peers -> PeerState]
        /\ Fine(e, toStack[p], toPeer[p], Rows(p), losses = 0) /\ Rows(p)' = Rows(p)
    BY KnownFine
  <1>2. /\ e.st = "closed" /\ toStack[p] = <<>> /\ toPeer[p] = <<>>
        /\ toPeer' = toPeer /\ losses' = losses
    BY DEF PeerConnect, LinkIdle
  <1>3. /\ f.st = "syn_sent" /\ f.una = e.nxt /\ f.nxt = Wrap(e.nxt + 1)
        /\ f.data = Wrap(e.nxt + 1)
    BY <1>1 DEF PeerConnect
  <1>4. Send(p, Seg(p, SYN, e.nxt, 0, 0)) /\ e.nxt \in Seqs /\ 0 \in Seqs
    BY <1>1, SeqSpaceAssumption DEF PeerConnect, PeerState, Seqs
  <1>5. PICK s \in Segment : /\ toStack'[p] = Append(<<>>, s)
                             /\ s.bits = SYN /\ s.seq = e.nxt
    BY <1>2, <1>4, Sends
  <1>. HIDE DEF e, f
  <1>6. Fine(f, Append(<<>>, s), <<>>, Rows(p), losses = 0)
    BY <1>1, <1>2, <1>3, <1>5, ConnectFine
  <1>7. QED
    BY <1>1, <1>2, <1>5, <1>6 DEF f

LEMMA SendStep ==
  ASSUME NEW p \in Peers, Known, PeerSend(p)
  PROVE  Fine(peer'[p], toStack'[p], toPeer'[p], Rows(p)', losses' = 0)
  <1> DEFINE e == peer[p]
             f == peer'[p]
  <1>1. /\ e \in PeerState /\ f \in PeerState /\ peer \in [Peers -> PeerState]
        /\ toStack[p] \in Seq(Segment) /\ toPeer[p] \in Seq(SentSegment)
        /\ Rows(p) \in SUBSET Entry
        /\ Fine(e, toStack[p], toPeer[p], Rows(p), losses = 0) /\ Rows(p)' = Rows(p)
    BY KnownFine
  <1>2. /\ e.st \in {"established", "close_wait"} /\ Gap(e.data, e.nxt) < MaxOctets
        /\ toPeer' = toPeer /\ losses' = losses
        /\ f = [e EXCEPT !.nxt = Wrap(e.nxt + 1)]
    BY <1>1 DEF PeerSend
  <1>3. PICK bits \in DataBits : Send(p, Seg(p, bits, e.nxt, e.rcv, 1))
    BY DEF PeerSend
  <1>4. bits \in {ACK, PSH_ACK} /\ e.nxt \in Seqs /\ e.rcv \in Seqs
    BY <1>1, DataBitsAssumption DEF PeerState
  <1>5. PICK s \in Segment : /\ toStack'[p] = Append(toStack[p], s)
                             /\ s.bits = bits /\ s.seq = e.nxt /\ s.len = 1
    BY <1>3, <1>4, Sends
  <1>. HIDE DEF e, f
  <1>6. Fine(f, Append(toStack[p], s), toPeer[p], Rows(p), losses = 0)
    BY <1>1, <1>2, <1>4, <1>5, SendFine
  <1>7. QED
    BY <1>1, <1>2, <1>5, <1>6 DEF f

LEMMA CloseStep ==
  ASSUME NEW p \in Peers, Known, PeerClose(p)
  PROVE  Fine(peer'[p], toStack'[p], toPeer'[p], Rows(p)', losses' = 0)
  <1> DEFINE e == peer[p]
             f == peer'[p]
  <1>1. /\ e \in PeerState /\ f \in PeerState /\ peer \in [Peers -> PeerState]
        /\ toStack[p] \in Seq(Segment) /\ toPeer[p] \in Seq(SentSegment)
        /\ Rows(p) \in SUBSET Entry
        /\ Fine(e, toStack[p], toPeer[p], Rows(p), losses = 0) /\ Rows(p)' = Rows(p)
    BY KnownFine
  <1>2. /\ toPeer' = toPeer /\ losses' = losses
        /\ \/ /\ e.st = "established"
              /\ peer' = [peer EXCEPT ![p].st = "fin_wait_1", ![p].nxt = Wrap(@ + 1)]
           \/ /\ e.st = "close_wait"
              /\ peer' = [peer EXCEPT ![p].st = "last_ack", ![p].nxt = Wrap(@ + 1)]
    BY DEF PeerClose
  <1>3. /\ f.nxt = Wrap(e.nxt + 1) /\ f.una = e.una /\ f.data = e.data
        /\ \/ e.st = "established" /\ f.st = "fin_wait_1"
           \/ e.st = "close_wait" /\ f.st = "last_ack"
    BY <1>1, <1>2 DEF PeerState
  <1>4. Send(p, Seg(p, FIN_ACK, e.nxt, e.rcv, 0)) /\ e.nxt \in Seqs /\ e.rcv \in Seqs
    BY <1>1 DEF PeerClose, PeerState
  <1>5. PICK s \in Segment : /\ toStack'[p] = Append(toStack[p], s)
                             /\ s.bits = FIN_ACK /\ s.seq = e.nxt /\ s.len = 0
    BY <1>4, Sends
  <1>. HIDE DEF e, f
  <1>6. Fine(f, Append(toStack[p], s), toPeer[p], Rows(p), losses = 0)
    BY <1>1, <1>3, <1>5, CloseFine
  <1>7. QED
    BY <1>1, <1>2, <1>5, <1>6 DEF f

LEMMA RetransmitStep ==
  ASSUME NEW p \in Peers, Known, PeerRetransmit(p)
  PROVE  Fine(peer'[p], toStack'[p], toPeer'[p], Rows(p)', losses' = 0)
  <1> DEFINE e == peer[p]
  <1>1. /\ e \in PeerState /\ Rows(p) \in SUBSET Entry
        /\ Fine(e, toStack[p], toPeer[p], Rows(p), losses = 0) /\ Rows(p)' = Rows(p)
    BY KnownFine
  <1>2. /\ toStack[p] = <<>> /\ toPeer[p] = <<>> /\ e.una # e.nxt
        /\ peer' = peer /\ toPeer' = toPeer /\ losses' = losses
    BY DEF PeerRetransmit, LinkIdle
  <1>3. e.una \in Seqs /\ e.rcv \in Seqs /\ 0 \in Seqs
    BY <1>1, SeqSpaceAssumption DEF PeerState, Seqs
  <1>4. \E s \in Segment :
           /\ toStack'[p] = Append(<<>>, s) /\ s.seq = e.una
           /\ \/ e.st = "syn_sent" /\ s.bits = SYN
              \/ Closing(e) /\ s.bits = FIN_ACK /\ s.len = 0
              \/ /\ e.st # "syn_sent" /\ s.bits \in {ACK, PSH_ACK} /\ s.len = 1
                 /\ Closing(e) => Gap(e.una, e.nxt) > 1
    <2>1. CASE e.st = "syn_sent" /\ Send(p, Seg(p, SYN, e.una, 0, 0))
      BY <1>2, <1>3, <2>1, Sends
    <2>2. CASE Closing(e) /\ Send(p, Seg(p, FIN_ACK, e.una, e.rcv, 0))
      BY <1>2, <1>3, <2>2, Sends
    <2>3. CASE /\ e.st # "syn_sent" /\ (Closing(e) => Gap(e.una, e.nxt) > 1)
               /\ \E bits \in DataBits : Send(p, Seg(p, bits, e.una, e.rcv, 1))
      <3>1. PICK bits \in DataBits : Send(p, Seg(p, bits, e.una, e.rcv, 1))
        BY <2>3
      <3>2. bits \in {ACK, PSH_ACK}
        BY DataBitsAssumption
      <3>3. \E s \in Segment : /\ toStack'[p] = Append(toStack[p], s)
                               /\ s.bits = bits /\ s.seq = e.una /\ s.len = 1
        BY <1>3, <3>1, <3>2, Sends
      <3>4. QED
        BY <1>2, <2>3, <3>2, <3>3
    <2>4. QED
      BY <2>1, <2>2, <2>3 DEF PeerRetransmit
  <1>. HIDE DEF e
  <1>5. Fine(e, toStack'[p], <<>>, Rows(p), losses = 0)
    BY <1>1, <1>2, <1>4, RetransmitFine
  <1>6. QED
    BY <1>1, <1>2, <1>5 DEF e

LEMMA TakeStep ==
  ASSUME NEW p \in Peers, Known, PeerReceive(p)
  PROVE  Fine(peer'[p], toStack'[p], toPeer'[p], Rows(p)', losses' = 0)
  <1> DEFINE e == peer[p]
             f == peer'[p]
             in == toStack[p]
             out == toPeer[p]
             r == Head(toPeer[p])
             kept == losses = 0
             ack(g) == Send(p, Seg(p, ACK, g.nxt, g.rcv, 0))
  <1>1. /\ e \in PeerState /\ f \in PeerState /\ peer \in [Peers -> PeerState]
        /\ in \in Seq(Segment) /\ out \in Seq(SentSegment)
        /\ Rows(p) \in SUBSET Entry
        /\ Fine(e, in, out, Rows(p), kept) /\ Rows(p)' = Rows(p)
    BY KnownFine
  <1>2. /\ out # <<>> /\ toPeer'[p] = Tail(out) /\ losses' = losses
    BY KnownFine DEF PeerReceive
  <1>3. FromStack(r) /\ r = out[1] /\ 1 \in 1 .. Len(out) /\ r \in SentSegment
    BY <1>1, <1>2, TailAt DEF Known, SessionTypes, FramesTyped, FromStack
  <1>4. ASSUME NEW g \in PeerState, ack(g)
        PROVE  \E s \in Segment : /\ toStack'[p] = Append(in, s)
                                  /\ s.bits = ACK /\ s.seq = g.nxt /\ s.len = 0
    <2>1. g.nxt \in Seqs /\ g.rcv \in Seqs
      BY DEF PeerState
    <2>2. QED
      BY <1>4, <2>1, Sends
  <1>5. ASSUME NEW g \in PeerState, Fine(g, in, out, Rows(p), kept), g.st # "syn_sent", f = g,
               ack(g) \/ toStack' = toStack
        PROVE  Fine(f, toStack'[p], toPeer'[p], Rows(p)', losses' = 0)
    <2>. HIDE DEF f, in, out, kept
    <2>1. Fine(g, in, Tail(out), Rows(p), kept)
      BY <1>1, <1>2, <1>5, DropFine
    <2>2. CASE ack(g)
      <3>1. PICK s \in Segment : /\ toStack'[p] = Append(in, s)
                                 /\ s.bits = ACK /\ s.seq = g.nxt /\ s.len = 0
        BY <1>4, <2>2
      <3>2. Fine(g, Append(in, s), Tail(out), Rows(p), kept)
        BY <1>1, <1>5, <2>1, <3>1, AckFine
      <3>3. QED
        BY <1>1, <1>2, <1>5, <3>1, <3>2 DEF kept
    <2>3. CASE toStack' = toStack
      BY <1>1, <1>2, <1>5, <2>1, <2>3 DEF kept, in
    <2>4. QED
      BY <1>5, <2>2, <2>3
  <1>6. ASSUME r.toPeerPort, e.st # "syn_sent"
        PROVE  /\ Fine(Acknowledged(e, r), in, out, Rows(p), kept)
               /\ Acknowledged(e, r) \in PeerState /\ Acknowledged(e, r).st # "syn_sent"
    <2>. HIDE DEF e, in, out, kept
    <2>1. r = Head(out)
      BY DEF out
    <2>2. QED
      BY <1>1, <1>2, <1>6, <2>1, TakeFine
  <1>7. CASE /\ \/ ~r.toPeerPort
                \/ e.st = "closed"
                \/ e.st = "syn_sent" /\ ~(r.bits = SYN_ACK /\ r.ack = e.nxt)
             /\ UNCHANGED <<peer, toStack>>
    <2>1. e.st = "syn_sent" /\ Rows(p) # {} /\ kept => r.bits # SYN_ACK
      <3>1. ASSUME e.st = "syn_sent", Rows(p) # {}, r.bits = SYN_ACK PROVE FALSE
        <4>1. r.toPeerPort
          BY <1>3, <3>1 DEF FromStack
        <4>2. r.ack = e.data /\ e.nxt = e.data
          BY <1>1, <1>3, <3>1 DEF Fine, Handshake
        <4>3. QED
          BY <1>7, <3>1, <4>1, <4>2
      <3>2. QED
        BY <3>1
    <2>2. Fine(e, in, Tail(out), Rows(p), kept)
      <3>. HIDE DEF e, in, kept
      <3>1. QED
        BY <1>1, <1>2, <2>1, DropFine
    <2>3. QED
      BY <1>1, <1>2, <1>7, <2>2
  <1>8. CASE /\ e.st = "syn_sent" /\ r.bits = SYN_ACK /\ r.ack = e.nxt
             /\ peer' = [peer EXCEPT ![p].st = "established", ![p].una = e.nxt,
                                     ![p].rcv = Wrap(r.seq + 1)]
             /\ ack(f)
    <2>1. /\ f.st = "established" /\ f.una = e.nxt /\ f.nxt = e.nxt /\ f.data = e.data
      BY <1>1, <1>8 DEF PeerState
    <2>2. PICK s \in Segment : /\ toStack'[p] = Append(in, s)
                               /\ s.bits = ACK /\ s.seq = f.nxt /\ s.len = 0
      BY <1>1, <1>4, <1>8
    <2>3. Head(out).bits = SYN_ACK /\ e.st = "syn_sent"
      BY <1>8
    <2>. HIDE DEF e, f, in, out, kept
    <2>4. Fine(f, Append(in, s), Tail(out), Rows(p), kept)
      BY <1>1, <1>2, <2>1, <2>2, <2>3, EstablishFine
    <2>5. QED
      BY <1>1, <1>2, <2>2, <2>4 DEF f, kept
  <1>9. CASE /\ r.toPeerPort /\ InConnection(e)
             /\ ack(e)
             /\ \/ UNCHANGED peer
                \/ peer' = [peer EXCEPT ![p] = Acknowledged(@, r)]
    <2>1. e.st # "syn_sent"
      BY <1>9 DEF InConnection
    <2>2. CASE UNCHANGED peer
      BY <1>1, <1>5, <1>9, <2>1, <2>2
    <2>3. CASE peer' = [peer EXCEPT ![p] = Acknowledged(@, r)]
      <3>1. f = Acknowledged(e, r)
        BY <1>1, <2>3
      <3>2. Acknowledged(e, r).nxt = e.nxt /\ Acknowledged(e, r).rcv = e.rcv
        BY <1>1 DEF Acknowledged, PeerState
      <3>3. ack(Acknowledged(e, r))
        BY <1>9, <3>2
      <3>4. QED
        BY <1>5, <1>6, <1>9, <2>1, <3>1, <3>3
    <2>4. QED
      BY <1>9, <2>2, <2>3
  <1>10. CASE /\ r.toPeerPort /\ InConnection(e)
              /\ peer' = [peer EXCEPT ![p] = Accepted(Acknowledged(@, r), r)]
              /\ ack(f) \/ UNCHANGED toStack
    <2> DEFINE g == Acknowledged(e, r)
    <2>1. e.st # "syn_sent" /\ f = Accepted(g, r)
      BY <1>1, <1>10 DEF InConnection
    <2>2. Fine(g, in, out, Rows(p), kept) /\ g \in PeerState /\ g.st # "syn_sent"
      BY <1>6, <1>10, <2>1
    <2>3. r = Head(out)
      OBVIOUS
    <2>4. Fine(Accepted(g, r), in, out, Rows(p), kept) /\ Accepted(g, r).st # "syn_sent"
      <3>. HIDE DEF g, in, out, kept, r
      <3>1. QED
        BY <1>1, <1>2, <2>2, <2>3, AcceptFine
    <2>5. QED
      BY <1>1, <1>5, <1>10, <2>1, <2>4
  <1>11. QED
    BY <1>7, <1>8, <1>9, <1>10 DEF PeerReceive

LEMMA LoseStep ==
  ASSUME NEW p \in Peers, Known, Lose(p), NEW q \in Peers
  PROVE  Fine(peer'[q], toStack'[q], toPeer'[q], Rows(q)', losses' = 0)
  <1>1. /\ peer' = peer /\ Rows(q)' = Rows(q)
        /\ toStack[q] \in Seq(Segment) /\ toPeer[q] \in Seq(SentSegment)
        /\ Fine(peer[q], toStack[q], toPeer[q], Rows(q), losses = 0)
    BY KnownFine DEF Lose
  <1>2. (losses' = 0) = FALSE
    BY DEF Lose, Known, SessionTypes
  <1>3. Fine(peer[q], toStack[q], toPeer[q], Rows(q), FALSE)
    BY <1>1, LossFine
  <1>4. \/ toStack'[q] = toStack[q] /\ toPeer'[q] = toPeer[q]
        \/ toStack[q] # <<>> /\ toStack'[q] = Tail(toStack[q]) /\ toPeer'[q] = toPeer[q]
        \/ toPeer[q] # <<>> /\ toPeer'[q] = Tail(toPeer[q]) /\ toStack'[q] = toStack[q]
    BY KnownFine DEF Lose
  <1>5. Fine(peer[q], toStack'[q], toPeer'[q], Rows(q), FALSE)
    BY <1>1, <1>3, <1>4, LoseFine, DropFine
  <1>6. QED
    BY <1>1, <1>2, <1>5

\* The invariant holds at the start and is kept by every step.
LEMMA SessionInvInit == SessionInit => SessionInv
  <1>. SUFFICES ASSUME SessionInit, NEW p \in Peers
                PROVE  Fine(peer[p], toStack[p], toPeer[p], Rows(p), losses = 0)
    BY DEF SessionInv
  <1>1. /\ peer[p].st = "closed" /\ toStack[p] = <<>> /\ toPeer[p] = <<>>
        /\ Len(<<>>) = 0
    BY DEF SessionInit
  <1>2. \A i \in Slots : ~IsOpen(i)
    BY DEF SessionInit, Init, IsOpen, FreshEntry
  <1>3. Rows(p) = {}
    BY <1>2 DEF Rows
  <1>4. QED
    BY <1>1, <1>3 DEF Fine, SynOpens, FinCloses, Handshake, Connected, Live

LEMMA PeerStep ==
  ASSUME NEW p \in Peers, Known,
         \/ PeerConnect(p) \/ PeerSend(p) \/ PeerClose(p) \/ PeerRetransmit(p)
         \/ PeerReceive(p) \/ Lose(p),
         NEW q \in Peers
  PROVE  Fine(peer'[q], toStack'[q], toPeer'[q], Rows(q)', losses' = 0)
  <1>1. CASE q = p
    BY <1>1, ConnectStep, SendStep, CloseStep, RetransmitStep, TakeStep, LoseStep
  <1>2. CASE Lose(p)
    BY <1>2, LoseStep
  <1>3. CASE q # p /\ ~Lose(p)
    <2>1. /\ peer \in [Peers -> PeerState] /\ toStack \in [Peers -> Seq(Segment)]
          /\ toPeer \in [Peers -> Seq(SentSegment)]
          /\ Rows(q)' = Rows(q)
          /\ Fine(peer[q], toStack[q], toPeer[q], Rows(q), losses = 0)
      BY KnownFine
    <2>2. \A s : Send(p, s) => toStack'[q] = toStack[q]
      BY <1>3, <2>1 DEF Send
    <2>3. peer'[q] = peer[q] /\ toPeer'[q] = toPeer[q] /\ losses' = losses
      BY <1>3, <2>1 DEF PeerConnect, PeerSend, PeerClose, PeerRetransmit, PeerReceive
    <2>4. toStack'[q] = toStack[q]
      BY <1>3, <2>2 DEF PeerConnect, PeerSend, PeerClose, PeerRetransmit, PeerReceive
    <2>5. QED
      BY <2>1, <2>3, <2>4
  <1>4. QED
    BY <1>1, <1>2, <1>3

LEMMA SessionInvStep ==
  ASSUME SessionTypes, SessionTypes', SessionInv, [SessionNext]_sessionVars
  PROVE  SessionInv'
  <1>. SUFFICES ASSUME Calm', NEW q \in Peers
                PROVE  Fine(peer'[q], toStack'[q], toPeer'[q], Rows(q)', losses' = 0)
    BY DEF SessionInv
  <1>1. ASSUME NEW p \in Peers, StackReceive(p)
        PROVE  Fine(peer'[q], toStack'[q], toPeer'[q], Rows(q)', losses' = 0)
    <2>1. peer' = peer /\ losses' = losses /\ Calm
      BY <1>1 DEF StackReceive, Calm
    <2>2. QED
      BY <1>1, <2>1, ReceiveFine
  <1>2. ASSUME NEW l \in Lines, StackUserLine(l)
        PROVE  Fine(peer'[q], toStack'[q], toPeer'[q], Rows(q)', losses' = 0)
    <2>1. losses = 0 /\ peer' = peer /\ losses' = losses
      BY <1>2 DEF StackUserLine, Calm, SessionTypes
    <2>2. (losses' = 0) = TRUE
      BY <2>1
    <2>3. QED
      BY <1>2, <2>1, <2>2, LineFine
  <1>3. ASSUME NEW p \in Peers,
               \/ PeerConnect(p) \/ PeerSend(p) \/ PeerClose(p) \/ PeerRetransmit(p)
               \/ PeerReceive(p) \/ Lose(p)
        PROVE  Fine(peer'[q], toStack'[q], toPeer'[q], Rows(q)', losses' = 0)
    <2>1. UNCHANGED table
      BY <1>3 DEF PeerConnect, PeerSend, PeerClose, PeerRetransmit, PeerReceive, Lose, vars
    <2>2. Calm
      BY <1>3 DEF PeerConnect, PeerSend, PeerClose, PeerRetransmit, PeerReceive, Lose,
                  Calm, SessionTypes
    <2>3. QED
      BY <1>3, <2>1, <2>2, PeerStep DEF Known
  <1>4. CASE UNCHANGED sessionVars
    <2>1. Rows(q)' = Rows(q) /\ Calm
      BY <1>4 DEF sessionVars, vars, Rows, IsOpen, Calm
    <2>2. QED
      BY <1>4, <2>1 DEF sessionVars, SessionInv
  <1>5. QED
    BY <1>1, <1>2, <1>3, <1>4 DEF SessionNext

\* An open slot has a living peer, for every number of peers and slots, every window and
\* every bound on what is sent, lost or typed, as long as no line follows a loss: the peer
\* asked for the connection or is in it, and the slot is closed before the peer reads the
\* acknowledgement of its FIN.
THEOREM OpenHasLivePeerHolds == SessionSpec => []OpenHasLivePeer
  <1>1. SessionTypes /\ SessionInv => OpenHasLivePeer
    <2>. SUFFICES ASSUME SessionTypes, SessionInv, Calm, NEW i \in Slots, IsOpen(i)
                  PROVE  peer[table[i].peer].st \in
                             {"established", "fin_wait_1"}
                             \cup (IF table[i].status = SYN_RCVD THEN {"syn_sent"} ELSE {})
      BY DEF OpenHasLivePeer
    <2>1. table[i].peer \in Peers
      BY DEF SessionTypes, TableInv, PeerInv
    <2>2. PICK p \in Peers : p = table[i].peer
      BY <2>1
    <2>3. table[i] \in Rows(p)
      BY <2>2 DEF Rows
    <2>4. Fine(peer[p], toStack[p], toPeer[p], Rows(p), losses = 0)
      BY DEF SessionInv
    <2>5. peer[p].st \in {"syn_sent", "established", "fin_wait_1"}
      BY <2>3, <2>4 DEF Fine, Live
    <2>6. peer[p].st = "syn_sent" => table[i].status = SYN_RCVD
      BY <2>3, <2>4 DEF Fine, Handshake
    <2>7. QED
      BY <2>2, <2>5, <2>6
  <1>2. SessionInit => SessionTypes /\ SessionInv
    BY InitTypes, SessionInvInit
  <1>3. SessionTypes /\ SessionInv /\ [SessionNext]_sessionVars
            => (SessionTypes /\ SessionInv)'
    BY StepTypes, SessionInvStep
  <1>4. QED
    BY <1>1, <1>2, <1>3, PTL DEF SessionSpec

-----------------------------------------------------------------------------
(* The other way round: the slot of a peer, while no line is typed.        *)

\* A peer that is connected has an open slot, and one that waits has it once the answer
\* is under way; neither has sent a FIN.
Slotted(e, in, out, rows) ==
    /\ e.st \in {"syn_sent", "established"} => \A n \in 1 .. Len(in) : in[n].bits # FIN_ACK
    /\ e.st = "syn_sent" /\ (\E n \in 1 .. Len(out) : out[n].bits = SYN_ACK) => rows # {}
    /\ e.st = "established" => rows # {}

SlottedInv ==
    lines = 0 => \A p \in Peers : Slotted(peer[p], toStack[p], toPeer[p], Rows(p))

LEMMA SlottedShorter ==
  ASSUME NEW e, NEW in \in Seq(Segment), NEW out \in Seq(SentSegment), NEW rows,
         Slotted(e, in, out, rows)
  PROVE  /\ in # <<>> => Slotted(e, Tail(in), out, rows)
         /\ out # <<>> => Slotted(e, in, Tail(out), rows)
  <1>1. in # <<>> => Slotted(e, Tail(in), out, rows)
    BY TailAt DEF Slotted
  <1>2. out # <<>> => Slotted(e, in, Tail(out), rows)
    BY TailAt DEF Slotted
  <1>3. QED
    BY <1>1, <1>2

LEMMA SlottedLonger ==
  ASSUME NEW e, NEW in \in Seq(Segment), NEW out \in Seq(SentSegment), NEW rows,
         Slotted(e, in, out, rows)
  PROVE  /\ \A s \in Segment : s.bits # FIN_ACK => Slotted(e, Append(in, s), out, rows)
         /\ \A r \in SentSegment : r.bits # SYN_ACK => Slotted(e, in, Append(out, r), rows)
  <1>1. ASSUME NEW s \in Segment, s.bits # FIN_ACK
        PROVE  Slotted(e, Append(in, s), out, rows)
    BY <1>1, AppendAt DEF Slotted
  <1>2. ASSUME NEW r \in SentSegment, r.bits # SYN_ACK
        PROVE  Slotted(e, in, Append(out, r), rows)
    BY <1>2, AppendAt DEF Slotted
  <1>3. QED
    BY <1>1, <1>2

\* Only a FIN closes the slot of its sender, and a SYN that is answered has one.
LEMMA KeepsRows ==
  ASSUME TableInv, NEW p \in Peers, NEW s, Sendable(p, s), Receive(s), s.bits # FIN_ACK
  PROVE  /\ Rows(p) # {} => Rows(p)' # {}
         /\ s.bits = SYN /\ sent' # <<>> => Rows(p)' # {}
  <1>0. table \in [Slots -> Entry] /\ s.bits \in {SYN, ACK, FIN_ACK, PSH_ACK}
    BY DEF TableInv, TableType, Sendable
  <1>1. CASE Refuses(p)
    BY <1>1 DEF Refuses, LimitReached, Unknown, Rows
  <1>2. ASSUME NEW i \in Slots, Selected(table, p, i), Records(s, i)
        PROVE  /\ Rows(p) # {} => Rows(p)' # {}
               /\ s.bits = SYN => Rows(p)' # {}
    <2> DEFINE x == PayloadEntry(table[i], s)
    <2>1. table[i] \in Entry /\ x \in Entry
      BY <1>0, Recorded
    <2>2. IsOpen(i) => table[i].peer = p
      BY <1>2 DEF Selected, Found, FirstFree, IsOpen
    <2>3. /\ x.peer = p \/ x.status = NOT_CONNECTED
          /\ s.bits = SYN => x.status = SYN_RCVD
      BY <1>0, <2>2, Recorded DEF IsOpen
    <2>4. s.bits # SYN /\ IsOpen(i) => x.status # NOT_CONNECTED
      BY <1>0, <1>2 DEF PayloadEntry, AckEntry, RecordSeq, IsOpen, Entry
    <2>5. table' = [table EXCEPT ![i] = x]
      BY <1>2 DEF Records
    <2>. HIDE DEF x
    <2>6. /\ Rows(p)' = IF x.status # NOT_CONNECTED THEN {x} ELSE {}
          /\ Rows(p) = IF IsOpen(i) THEN {table[i]} ELSE {}
      BY <1>2, <2>1, <2>3, <2>5, OneSlot
    <2>7. QED
      BY <2>3, <2>4, <2>6
  <1>3. \A i \in Slots : ~Ends(s, i)
    BY DEF Ends
  <1>4. QED
    BY <1>1, <1>2, <1>3, ReceiveCases

LEMMA ReceiveSlotted ==
  ASSUME SessionTypes, SlottedInv, lines = 0, NEW p \in Peers, StackReceive(p),
         NEW q \in Peers
  PROVE  Slotted(peer[q], toStack'[q], toPeer'[q], Rows(q)')
  <1> DEFINE s == Head(toStack[p])
  <1>1. /\ TableInv /\ Slotted(peer[q], toStack[q], toPeer[q], Rows(q))
        /\ toStack[p] \in Seq(Segment) /\ toPeer[p] \in Seq(SentSegment)
    BY DEF SessionTypes, LinksTyped, FramesTyped, SlottedInv
  <1>2. /\ toStack[p] # <<>> /\ Receive(s) /\ Sendable(p, s)
        /\ toStack'[p] = Tail(toStack[p])
        /\ \A k \in Peers : k # p => toStack'[k] = toStack[k] /\ toPeer'[k] = toPeer[k]
        /\ \/ toPeer'[p] = toPeer[p] /\ sent' = <<>>
           \/ s.bits = FIN_ACK
           \/ \E r \in SentSegment :
                 /\ toPeer'[p] = Append(toPeer[p], r) /\ sent' # <<>>
                 /\ s.bits \in {ACK, PSH_ACK} => r.bits = ACK
    BY ReceiveLinks
  <1>3. \A k \in Peers : k # p => Rows(k)' = Rows(k)
    BY <1>1, <1>2, ReceiveRows
  <1>4. CASE q # p
    BY <1>1, <1>2, <1>3, <1>4
  <1>5. CASE q = p
    <2>1. s = toStack[p][1] /\ 1 \in 1 .. Len(toStack[p])
      BY <1>1, <1>2, TailAt
    <2>2. CASE s.bits = FIN_ACK
      <3>1. peer[p].st \notin {"syn_sent", "established"}
        BY <1>1, <1>5, <2>1, <2>2 DEF Slotted
      <3>2. QED
        BY <1>5, <3>1 DEF Slotted
    <2>3. CASE s.bits # FIN_ACK
      <3>1. /\ Rows(p) # {} => Rows(p)' # {}
            /\ s.bits = SYN /\ sent' # <<>> => Rows(p)' # {}
        BY <1>1, <1>2, <2>3, KeepsRows
      <3>2. s.bits \in {SYN, ACK, PSH_ACK}
        BY <1>2, <2>3 DEF Sendable
      <3>. HIDE DEF s
      <3>3. Slotted(peer[p], Tail(toStack[p]), toPeer[p], Rows(p))
        BY <1>1, <1>2, <1>5, SlottedShorter
      <3>4. Slotted(peer[p], Tail(toStack[p]), toPeer[p], Rows(p)')
        BY <3>1, <3>3 DEF Slotted
      <3>5. CASE toPeer'[p] = toPeer[p]
        BY <1>2, <1>5, <3>4, <3>5
      <3>6. ASSUME NEW r \in SentSegment, toPeer'[p] = Append(toPeer[p], r), sent' # <<>>,
                   s.bits \in {ACK, PSH_ACK} => r.bits = ACK
            PROVE  Slotted(peer[p], Tail(toStack[p]), toPeer'[p], Rows(p)')
        <4>1. CASE s.bits = SYN
          BY <3>1, <3>4, <3>6, <4>1 DEF Slotted
        <4>2. CASE s.bits # SYN
          <5>1. Tail(toStack[p]) \in Seq(Segment) /\ r.bits # SYN_ACK
            BY <1>1, <1>2, <3>2, <3>6, <4>2, TailAt
          <5>2. QED
            BY <1>1, <3>4, <3>6, <5>1, SlottedLonger
        <4>3. QED
          BY <4>1, <4>2
      <3>7. QED
        BY <1>2, <1>5, <2>3, <3>5, <3>6
    <2>4. QED
      BY <2>2, <2>3
  <1>6. QED
    BY <1>4, <1>5

\* What a peer's taking a frame does to its link and its state.
LEMMA TakeEffect ==
  ASSUME NEW p \in Peers, Known, PeerReceive(p)
  PROVE  /\ toPeer[p] # <<>> /\ toPeer'[p] = Tail(toPeer[p])
         /\ \/ toStack'[p] = toStack[p]
            \/ \E s \in Segment : toStack'[p] = Append(toStack[p], s) /\ s.bits = ACK
         /\ \/ peer'[p].st = peer[p].st
            \/ peer'[p].st \notin {"syn_sent", "established"}
            \/ /\ peer[p].st = "syn_sent" /\ peer'[p].st = "established"
               /\ Head(toPeer[p]).bits = SYN_ACK
  <1> DEFINE e == peer[p]
             r == Head(toPeer[p])
             ack(g) == Send(p, Seg(p, ACK, g.nxt, g.rcv, 0))
             Same == peer'[p].st = e.st \/ peer'[p].st \notin {"syn_sent", "established"}
  <1>1. /\ e \in PeerState /\ peer'[p] \in PeerState /\ peer \in [Peers -> PeerState]
        /\ toPeer \in [Peers -> Seq(SentSegment)] /\ toPeer[p] \in Seq(SentSegment)
    BY KnownFine
  <1>2. toPeer[p] # <<>> /\ toPeer' = [toPeer EXCEPT ![p] = Tail(@)]
    BY DEF PeerReceive
  <1>3. r \in SentSegment
    BY <1>1, <1>2
  <1>4. ASSUME NEW g \in PeerState, ack(g)
        PROVE  \E s \in Segment : toStack'[p] = Append(toStack[p], s) /\ s.bits = ACK
    <2>1. g.nxt \in Seqs /\ g.rcv \in Seqs
      BY DEF PeerState
    <2>2. QED
      BY <1>4, <2>1, Sends
  <1>5. /\ Acknowledged(e, r) \in PeerState
        /\ \A g \in PeerState : Accepted(g, r).st = g.st
                               \/ Accepted(g, r).st \notin {"syn_sent", "established"}
        /\ Acknowledged(e, r).st = e.st
           \/ Acknowledged(e, r).st \notin {"syn_sent", "established"}
    <2>1. Acknowledged(e, r) \in PeerState
      BY <1>1, <1>3, PeerTyped
    <2>2. \A g \in PeerState : Accepted(g, r).st = g.st
                              \/ Accepted(g, r).st \notin {"syn_sent", "established"}
      BY DEF Accepted, PeerState
    <2>3. Acknowledged(e, r).st = e.st
          \/ Acknowledged(e, r).st \notin {"syn_sent", "established"}
      BY <1>1 DEF Acknowledged, PeerState
    <2>4. QED
      BY <2>1, <2>2, <2>3
  <1>6. CASE UNCHANGED <<peer, toStack>>
    BY <1>1, <1>2, <1>6
  <1>7. CASE /\ e.st = "syn_sent" /\ r.bits = SYN_ACK
             /\ peer' = [peer EXCEPT ![p].st = "established", ![p].una = e.nxt,
                                     ![p].rcv = Wrap(r.seq + 1)]
             /\ ack(peer'[p])
    <2>1. peer'[p].st = "established"
      BY <1>1, <1>7 DEF PeerState
    <2>2. QED
      BY <1>1, <1>2, <1>4, <1>7, <2>1
  <1>8. CASE /\ ack(e)
             /\ \/ UNCHANGED peer
                \/ peer' = [peer EXCEPT ![p] = Acknowledged(@, r)]
    <2>1. Same
      BY <1>1, <1>5, <1>8
    <2>2. QED
      BY <1>1, <1>2, <1>4, <1>8, <2>1
  <1>9. CASE /\ peer' = [peer EXCEPT ![p] = Accepted(Acknowledged(@, r), r)]
             /\ ack(peer'[p]) \/ UNCHANGED toStack
    <2>1. peer'[p] = Accepted(Acknowledged(e, r), r)
      BY <1>1, <1>9
    <2>2. Same
      BY <1>5, <2>1
    <2>3. QED
      BY <1>1, <1>2, <1>4, <1>9, <2>2
  <1>10. QED
    BY <1>6, <1>7, <1>8, <1>9 DEF PeerReceive

LEMMA PeerSlotted ==
  ASSUME NEW p \in Peers, Known, SlottedInv, lines = 0,
         \/ PeerConnect(p) \/ PeerSend(p) \/ PeerClose(p) \/ PeerRetransmit(p)
         \/ PeerReceive(p) \/ Lose(p),
         NEW q \in Peers
  PROVE  Slotted(peer'[q], toStack'[q], toPeer'[q], Rows(q)')
  <1> DEFINE e == peer[q]
             in == toStack[q]
             out == toPeer[q]
  <1>1. /\ e \in PeerState /\ peer \in [Peers -> PeerState]
        /\ toStack \in [Peers -> Seq(Segment)] /\ toPeer \in [Peers -> Seq(SentSegment)]
        /\ in \in Seq(Segment) /\ out \in Seq(SentSegment)
        /\ Rows(q)' = Rows(q)
    BY KnownFine
  <1>2. Slotted(e, in, out, Rows(q))
    BY DEF SlottedInv
  <1>3. CASE Lose(p)
    <2>1. /\ peer' = peer
          /\ \/ toStack'[q] = in /\ toPeer'[q] = out
             \/ in # <<>> /\ toStack'[q] = Tail(in) /\ toPeer'[q] = out
             \/ out # <<>> /\ toPeer'[q] = Tail(out) /\ toStack'[q] = in
      BY <1>1, <1>3 DEF Lose
    <2>2. QED
      BY <1>1, <1>2, <2>1, SlottedShorter
  <1>4. CASE q # p /\ ~Lose(p)
    <2>1. \A s : Send(p, s) => toStack'[q] = toStack[q]
      BY <1>1, <1>4 DEF Send
    <2>2. peer'[q] = peer[q] /\ toPeer'[q] = toPeer[q]
      BY <1>1, <1>4 DEF PeerConnect, PeerSend, PeerClose, PeerRetransmit, PeerReceive
    <2>3. toStack'[q] = toStack[q]
      BY <1>4, <2>1 DEF PeerConnect, PeerSend, PeerClose, PeerRetransmit, PeerReceive
    <2>4. QED
      BY <1>1, <1>2, <2>2, <2>3
  <1>5. CASE q = p /\ PeerConnect(p)
    <2>1. in = <<>> /\ out = <<>> /\ toPeer'[p] = out /\ peer'[p].st = "syn_sent"
      BY <1>1, <1>5 DEF PeerConnect, LinkIdle
    <2>2. Send(p, Seg(p, SYN, e.nxt, 0, 0)) /\ e.nxt \in Seqs /\ 0 \in Seqs
      BY <1>1, <1>5, SeqSpaceAssumption DEF PeerConnect, PeerState, Seqs
    <2>3. PICK s \in Segment : toStack'[p] = Append(in, s) /\ s.bits = SYN
      BY <1>5, <2>2, Sends
    <2>4. QED
      BY <1>5, <2>1, <2>3 DEF Slotted
  <1>6. CASE q = p /\ PeerSend(p)
    <2>1. /\ toPeer'[p] = out /\ peer'[p].st = e.st
      BY <1>1, <1>6 DEF PeerSend
    <2>2. PICK bits \in DataBits : Send(p, Seg(p, bits, e.nxt, e.rcv, 1))
      BY <1>6 DEF PeerSend
    <2>3. bits \in {ACK, PSH_ACK} /\ e.nxt \in Seqs /\ e.rcv \in Seqs
      BY <1>1, DataBitsAssumption DEF PeerState
    <2>4. PICK s \in Segment : toStack'[p] = Append(in, s) /\ s.bits = bits
      BY <1>6, <2>2, <2>3, Sends
    <2>5. Slotted(e, Append(in, s), out, Rows(q))
      <3>1. s.bits # FIN_ACK
        BY <2>3, <2>4
      <3>. HIDE DEF e, in, out
      <3>2. QED
        BY <1>1, <1>2, <3>1, SlottedLonger
    <2>6. QED
      BY <1>1, <1>6, <2>1, <2>4, <2>5 DEF Slotted
  <1>7. CASE q = p /\ PeerClose(p)
    <2>1. peer'[p].st \in {"fin_wait_1", "last_ack"}
      BY <1>1, <1>7 DEF PeerClose, PeerState
    <2>2. QED
      BY <1>7, <2>1 DEF Slotted
  <1>8. CASE q = p /\ PeerRetransmit(p)
    <2>1. peer' = peer /\ toPeer'[p] = out
      BY <1>1, <1>8 DEF PeerRetransmit
    <2>2. e.una \in Seqs /\ e.rcv \in Seqs /\ 0 \in Seqs
      BY <1>1, SeqSpaceAssumption DEF PeerState, Seqs
    <2>3. CASE Closing(e)
      BY <1>8, <2>1, <2>3 DEF Slotted, Closing
    <2>4. CASE ~Closing(e)
      <3>1. \E s \in Segment : toStack'[p] = Append(in, s) /\ s.bits # FIN_ACK
        <4>1. CASE Send(p, Seg(p, SYN, e.una, 0, 0))
          BY <1>8, <2>2, <4>1, Sends
        <4>2. CASE \E bits \in DataBits : Send(p, Seg(p, bits, e.una, e.rcv, 1))
          <5>1. PICK bits \in DataBits : Send(p, Seg(p, bits, e.una, e.rcv, 1))
            BY <4>2
          <5>2. bits \in {ACK, PSH_ACK}
            BY DataBitsAssumption
          <5>3. QED
            BY <1>8, <2>2, <5>1, <5>2, Sends
        <4>3. QED
          BY <1>8, <2>4, <4>1, <4>2 DEF PeerRetransmit
      <3>2. QED
        BY <1>1, <1>2, <1>8, <2>1, <3>1, SlottedLonger
    <2>5. QED
      BY <2>3, <2>4
  <1>9. CASE q = p /\ PeerReceive(p)
    <2> DEFINE f == peer'[p]
    <2>1. /\ out # <<>> /\ toPeer'[p] = Tail(out)
          /\ \/ toStack'[p] = in
             \/ \E s \in Segment : toStack'[p] = Append(in, s) /\ s.bits = ACK
          /\ \/ f.st = e.st
             \/ f.st \notin {"syn_sent", "established"}
             \/ /\ e.st = "syn_sent" /\ f.st = "established"
                /\ Head(out).bits = SYN_ACK
      BY <1>9, TakeEffect
    <2>2. Slotted(e, in, Tail(out), Rows(q)) /\ Tail(out) \in Seq(SentSegment)
      BY <1>1, <1>2, <2>1, SlottedShorter, TailAt
    <2>3. Slotted(e, toStack'[p], Tail(out), Rows(q))
      <3>. HIDE DEF e, in, out
      <3>1. CASE toStack'[p] = in
        BY <2>2, <3>1
      <3>2. CASE \E s \in Segment : toStack'[p] = Append(in, s) /\ s.bits = ACK
        <4>1. PICK s \in Segment : toStack'[p] = Append(in, s) /\ s.bits = ACK
          BY <3>2
        <4>2. s.bits # FIN_ACK
          BY <4>1
        <4>3. QED
          BY <1>1, <2>2, <4>1, <4>2, SlottedLonger
      <3>3. QED
        BY <2>1, <3>1, <3>2
    <2>4. e.st = "syn_sent" /\ Head(out).bits = SYN_ACK => Rows(q) # {}
      BY <1>1, <1>2, <2>1, TailAt DEF Slotted
    <2>. HIDE DEF f, e, in, out
    <2>5. Slotted(f, toStack'[p], Tail(out), Rows(q))
      BY <2>1, <2>3, <2>4 DEF Slotted
    <2>6. QED
      BY <1>1, <1>9, <2>1, <2>5 DEF f
  <1>10. QED
    BY <1>3, <1>4, <1>5, <1>6, <1>7, <1>8, <1>9

LEMMA SlottedInvStep ==
  ASSUME SessionTypes, SessionTypes', SessionInv, SlottedInv, [SessionNext]_sessionVars
  PROVE  SlottedInv'
  <1>. SUFFICES ASSUME lines' = 0, NEW q \in Peers
                PROVE  Slotted(peer'[q], toStack'[q], toPeer'[q], Rows(q)')
    BY DEF SlottedInv
  <1>1. ASSUME NEW p \in Peers, StackReceive(p)
        PROVE  Slotted(peer'[q], toStack'[q], toPeer'[q], Rows(q)')
    <2>1. peer' = peer /\ lines = 0
      BY <1>1 DEF StackReceive
    <2>2. QED
      BY <1>1, <2>1, ReceiveSlotted
  <1>2. ASSUME NEW l \in Lines PROVE ~StackUserLine(l)
    BY DEF StackUserLine, SessionTypes
  <1>3. ASSUME NEW p \in Peers,
               \/ PeerConnect(p) \/ PeerSend(p) \/ PeerClose(p) \/ PeerRetransmit(p)
               \/ PeerReceive(p) \/ Lose(p)
        PROVE  Slotted(peer'[q], toStack'[q], toPeer'[q], Rows(q)')
    <2>1. UNCHANGED table /\ lines = 0
      BY <1>3 DEF PeerConnect, PeerSend, PeerClose, PeerRetransmit, PeerReceive, Lose, vars
    <2>2. Known
      BY <2>1 DEF Known, Calm
    <2>3. QED
      BY <1>3, <2>1, <2>2, PeerSlotted
  <1>4. CASE UNCHANGED sessionVars
    <2>1. Rows(q)' = Rows(q)
      BY <1>4 DEF sessionVars, vars, Rows, IsOpen
    <2>2. QED
      BY <1>4, <2>1 DEF sessionVars, SlottedInv
  <1>5. QED
    BY <1>1, <1>2, <1>3, <1>4 DEF SessionNext

\* As long as no line is typed, a peer that is connected has its open slot, for every number
\* of peers and slots, every window, every bound and any losses: no lost or repeated
\* segment, full table or other peer's segment takes it away.
THEOREM PeerHasSlotHolds == SessionSpec => []PeerHasSlot
  <1> DEFINE Inv == SessionTypes /\ SessionInv /\ SlottedInv
  <1>1. Inv => PeerHasSlot
    <2>. SUFFICES ASSUME Inv, lines = 0, NEW p \in Peers, peer[p].st = "established"
                  PROVE  \E i \in Slots : IsOpen(i) /\ table[i].peer = p
      BY DEF PeerHasSlot
    <2>1. Rows(p) # {}
      BY DEF SlottedInv, Slotted
    <2>2. QED
      BY <2>1 DEF Rows
  <1>2. SessionInit => Inv
    <2>1. SessionInit => SlottedInv
      BY DEF SessionInit, SlottedInv, Slotted
    <2>2. QED
      BY <2>1, InitTypes, SessionInvInit
  <1>3. Inv /\ [SessionNext]_sessionVars => Inv'
    BY StepTypes, SessionInvStep, SlottedInvStep
  <1>4. QED
    BY <1>1, <1>2, <1>3, PTL DEF SessionSpec
=============================================================================
