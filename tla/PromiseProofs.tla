---------------------------- MODULE PromiseProofs ----------------------------
(***************************************************************************)
(* Proof about TcpSession that an acknowledgement is a promise: an octet a *)
(* peer takes for delivered was printed, for every number of peers and     *)
(* slots and every bound on what is sent, lost or typed, when a peer has   *)
(* one segment in flight at a time. That the numbers under way stay in     *)
(* range is proved for every window, for AgreeProofs too.                  *)
(***************************************************************************)
EXTENDS TcpSessionProofs

USE DEF NOT_CONNECTED, ACTIVE, SYN_RCVD, SYN, ACK, FIN_ACK, SYN_ACK, PSH_ACK,
        TCP_NONE, TCP_REG, TCP_CLOSED, TCP_FIN_ACK

\* handle_tcp_payload tests no sequence number: what follows a lost segment is
\* acknowledged like any other.
StopAndWait == Window <= 1

-----------------------------------------------------------------------------
(* What holds of a peer e, the links in from it and out to it, the open    *)
(* slots it has and the octets g printed of its connection, while the      *)
(* session is calm. left are the closed slots of the peer still in write   *)
(* mode: a line for one goes out with the number of an old segment.        *)

Left(p) == {i \in Slots : ~IsOpen(i) /\ table[i].peer = p /\ table[i].io = 1}

Sending(e) == e.st \in {"established", "close_wait"}

\* The peer has sent what comes before n.
Upto(e, n) == Gap(e.data, n) <= Gap(e.data, e.nxt)

\* Whatever follows the SYN/ACK acknowledges the SYN and nothing else.
Opening(e, out, left) ==
    e.st = "syn_sent" =>
        \A n, m \in 1 .. Len(out) :
            out[n].bits = SYN_ACK /\ n <= m => out[m].ack = e.data /\ left = {}

InWindow(e) == Sending(e) =>
    /\ Gap(e.data, e.una) <= Gap(e.data, e.nxt) /\ Gap(e.data, e.nxt) <= MaxOctets

\* Nothing under way or recorded is ahead of the peer.
InRange(e, in, out, rows, left) == Sending(e) =>
    /\ \A n \in 1 .. Len(in) : /\ Upto(e, in[n].seq) /\ in[n].bits \in {ACK, PSH_ACK}
                               /\ in[n].len = 1 => in[n].seq # e.nxt
    /\ \A n \in 1 .. Len(out) : out[n].toPeerPort => Upto(e, out[n].ack)
    /\ left = {}
    /\ \A row \in rows : Upto(e, row.next_seq)

OneInFlight(e) == Sending(e) => Gap(e.una, e.nxt) <= 1

\* An octet that was not printed is acknowledged by no frame, and by no slot from which a
\* line could be sent before the octet is read.
Pending(e, in, out, rows, g, kept) ==
    Sending(e) /\ e.una # e.nxt /\ e.una \notin g =>
        /\ \A n \in 1 .. Len(out) : out[n].toPeerPort => out[n].ack # e.nxt
        /\ kept /\ rows # {} =>
              /\ \A row \in rows : row.next_seq # e.nxt
              /\ \E m \in 1 .. Len(in) : /\ in[m].len = 1 /\ in[m].seq = e.una
                                         /\ \A n \in 1 .. m : in[n].seq # e.nxt

Delivered(e, g) ==
    /\ Sending(e) => \A n \in Seqs : Gap(e.data, n) < Gap(e.data, e.una) => n \in g
    /\ InConnection(e) /\ ~Sending(e) =>
          \A n \in Seqs : Gap(e.data, n) < OctetsSent(e) => n \in g

\* The data of an ACK is lost on a half-open slot: the ACK of the handshake comes first.
Confirms(e, in, rows, kept) ==
    Sending(e) /\ kept /\ (\E row \in rows : row.status = SYN_RCVD) =>
        in # <<>> /\ in[1].bits = ACK /\ in[1].len = 0

Promised(e, in, out, rows, g, kept) ==
    /\ OneInFlight(e) /\ Pending(e, in, out, rows, g, kept) /\ Delivered(e, g)

\* The numbers are right for every window, the promise only for one segment in flight.
Keeps(e, in, out, rows, left, g, kept) ==
    /\ Opening(e, out, left) /\ InWindow(e) /\ Confirms(e, in, rows, kept)
    /\ InRange(e, in, out, rows, left)
    /\ StopAndWait => Promised(e, in, out, rows, g, kept)

Octets(p) == ToSet(got[p])

PromiseInv ==
    Calm => \A p \in Peers : Keeps(peer[p], toStack[p], toPeer[p], Rows(p), Left(p),
                                   Octets(p), losses = 0)

-----------------------------------------------------------------------------
(* The steps of a peer.                                                    *)

\* A connection starts with nothing sent.
LEMMA ConnectKeeps ==
  ASSUME NEW e \in PeerState, e.st = "syn_sent", NEW in, NEW rows, NEW left, NEW g, NEW kept
  PROVE  Keeps(e, in, <<>>, rows, left, g, kept)
  <1>1. Len(<<>>) = 0
    OBVIOUS
  <1>2. QED
    BY <1>1 DEF Keeps, Opening, InWindow, InRange, Promised, OneInFlight, Pending,
                 Delivered, Confirms, Sending, InConnection

\* An octet that was acknowledged leaves room for the next.
LEMMA NothingPending ==
  ASSUME NEW e \in PeerState, Gap(e.una, e.nxt) < Window, StopAndWait
  PROVE  e.una = e.nxt
  <1>1. e.una \in Seqs /\ e.nxt \in Seqs /\ Window \in Nat
    BY Sent, Numbers
  <1>2. Gap(e.una, e.nxt) = 0
    BY <1>1, GapValue DEF StopAndWait
  <1>3. Gap(e.una, e.una) = 0
    BY <1>1, GapSame
  <1>4. QED
    BY <1>1, <1>2, <1>3, GapSame

\* It is ahead of all that is under way.
LEMMA SendKeeps ==
  ASSUME NEW e \in PeerState, NEW in \in Seq(Segment), NEW out \in Seq(SentSegment),
         NEW rows \in SUBSET Entry, NEW left, NEW g, NEW kept,
         Keeps(e, in, out, rows, left, g, kept), Sending(e),
         StopAndWait => e.una = e.nxt, Gap(e.data, e.nxt) < MaxOctets,
         NEW s \in Segment, s.bits \in {ACK, PSH_ACK}, s.seq = e.nxt, s.len = 1,
         NEW f \in PeerState, f = [e EXCEPT !.nxt = Wrap(e.nxt + 1)]
  PROVE  Keeps(f, Append(in, s), out, rows, left, g, kept)
  <1>1. f.st = e.st /\ f.una = e.una /\ f.data = e.data /\ f.nxt = Wrap(e.nxt + 1)
    BY DEF PeerState
  <1>2. /\ e.data \in Seqs /\ e.una \in Seqs /\ e.nxt \in Seqs
        /\ Gap(e.data, e.nxt) \in Nat
        /\ \A n \in Seqs : Gap(e.data, n) \in Nat
    BY Sent
  <1>3. Gap(e.data, f.nxt) = Gap(e.data, e.nxt) + 1 /\ f.nxt \in Seqs
    <2>1. Gap(e.data, e.nxt) + 1 < SeqSpace
      BY <1>2, Numbers
    <2>2. QED
      BY <1>1, <1>2, <2>1, GapNext
  <1>4. StopAndWait => OneInFlight(f)
    <2>. SUFFICES ASSUME e.una = e.nxt PROVE Gap(f.una, f.nxt) = 1
      BY DEF OneInFlight
    <2>1. Gap(e.una, e.una) = 0
      BY <1>2, GapSame
    <2>2. Gap(e.una, e.una) + 1 < SeqSpace
      BY <2>1, Numbers
    <2>3. Gap(e.una, Wrap(e.una + 1)) = Gap(e.una, e.una) + 1
      BY <1>2, <2>2, GapNext
    <2>4. QED
      BY <1>1, <2>1, <2>3
  <1>5. ASSUME NEW n \in Seqs, Upto(e, n) PROVE Upto(f, n) /\ n # f.nxt
    BY <1>1, <1>2, <1>3, <1>5 DEF Upto
  <1>6. Opening(f, out, left) /\ (StopAndWait => Delivered(f, g))
    BY <1>1 DEF Keeps, Promised, Opening, Delivered, Sending
  <1>7. InWindow(f)
    BY <1>1, <1>2, <1>3, Numbers DEF Keeps, InWindow
  <1>8. /\ \A n \in 1 .. Len(in) : in[n].seq \in Seqs
        /\ \A n \in 1 .. Len(out) : out[n].ack \in Seqs
        /\ \A row \in rows : row.next_seq \in Seqs
    <2>1. /\ \A n \in 1 .. Len(in) : in[n] \in Segment
          /\ \A n \in 1 .. Len(out) : out[n] \in SentSegment
      OBVIOUS
    <2>2. QED
      BY <2>1 DEF Segment, SentSegment, Entry
  <1>9. /\ \A n \in 1 .. Len(in) : Append(in, s)[n] = in[n]
        /\ Append(in, s)[Len(in) + 1] = s /\ Len(in) + 1 \in 1 .. Len(Append(in, s))
        /\ \A n \in 1 .. Len(Append(in, s)) : n \in 1 .. Len(in) \/ n = Len(in) + 1
        /\ \A n \in 1 .. Len(in) + 1 : n \in 1 .. Len(in) \/ n = Len(in) + 1
    BY AppendAt
  <1>10. Upto(e, s.seq) /\ s.seq \in Seqs
    BY <1>2 DEF Upto
  <1>11. InRange(e, in, out, rows, left)
    BY DEF Keeps
  <1>12. InRange(f, Append(in, s), out, rows, left)
    BY <1>5, <1>8, <1>9, <1>10, <1>11 DEF InRange
  <1>13. StopAndWait => Pending(f, Append(in, s), out, rows, g, kept)
    <2>. SUFFICES ASSUME e.una = e.nxt PROVE Pending(f, Append(in, s), out, rows, g, kept)
      OBVIOUS
    <2>1. \A n \in 1 .. Len(in) + 1 : Append(in, s)[n].seq # f.nxt
      BY <1>5, <1>8, <1>9, <1>10, <1>11 DEF InRange
    <2>2. \A n \in 1 .. Len(out) : out[n].toPeerPort => out[n].ack # f.nxt
      BY <1>5, <1>8, <1>11 DEF InRange
    <2>3. \A row \in rows : row.next_seq # f.nxt
      BY <1>5, <1>8, <1>11 DEF InRange
    <2>4. QED
      BY <1>1, <1>9, <2>1, <2>2, <2>3 DEF Pending
  <1>14. Confirms(f, Append(in, s), rows, kept)
    <2>1. in # <<>> => 1 \in 1 .. Len(in) /\ Append(in, s) # <<>>
      BY AppendAt
    <2>2. QED
      BY <1>1, <1>9, <2>1 DEF Keeps, Confirms, Sending
  <1>15. QED
    BY <1>4, <1>6, <1>7, <1>12, <1>13, <1>14 DEF Keeps, Promised

\* A peer closes once all its octets were acknowledged.
LEMMA CloseKeeps ==
  ASSUME NEW e \in PeerState, NEW in, NEW out, NEW rows, NEW left, NEW g, NEW kept,
         Keeps(e, in, out, rows, left, g, kept), Sending(e), StopAndWait => e.una = e.nxt,
         NEW f \in PeerState, f.nxt = Wrap(e.nxt + 1), f.data = e.data,
         f.st \in {"fin_wait_1", "last_ack"}, NEW in2
  PROVE  Keeps(f, in2, out, rows, left, g, kept)
  <1>1. StopAndWait => OctetsSent(f) = Gap(e.data, e.una)
    <2>. SUFFICES ASSUME e.una = e.nxt PROVE OctetsSent(f) = Gap(e.data, e.una)
      OBVIOUS
    <2>1. e.data \in Seqs /\ e.nxt \in Seqs /\ Gap(e.data, e.nxt) \in Nat
      BY Sent
    <2>2. Gap(e.data, e.nxt) + 1 < SeqSpace
      BY <2>1, Numbers DEF Keeps, InWindow
    <2>3. Gap(f.data, f.nxt) = Gap(e.data, e.nxt) + 1
      BY <2>1, <2>2, GapNext
    <2>4. QED
      BY <2>1, <2>3 DEF OctetsSent, Closing
  <1>2. StopAndWait => Delivered(f, g)
    BY <1>1 DEF Keeps, Promised, Delivered, Sending
  <1>3. QED
    BY <1>2 DEF Keeps, Promised, OneInFlight, Opening, InWindow, InRange, Pending, Confirms,
                Sending

\* A repeated octet is the one that is pending.
LEMMA RetransmitKeeps ==
  ASSUME NEW e \in PeerState, NEW rows, NEW left, NEW g, NEW kept,
         Keeps(e, <<>>, <<>>, rows, left, g, kept), e.una # e.nxt, NEW s \in Segment,
         Sending(e) => s.bits \in {ACK, PSH_ACK} /\ s.len = 1 /\ s.seq = e.una
  PROVE  Keeps(e, Append(<<>>, s), <<>>, rows, left, g, kept)
  <1>1. Append(<<>>, s) = <<s>> /\ Len(<<s>>) = 1 /\ <<s>>[1] = s /\ Len(<<>>) = 0
    OBVIOUS
  <1>2. InRange(e, <<s>>, <<>>, rows, left)
    BY <1>1 DEF Keeps, InRange, InWindow, Upto
  <1>3. StopAndWait => Pending(e, <<s>>, <<>>, rows, g, kept)
    BY <1>1 DEF Keeps, Promised, Pending
  <1>4. QED
    BY <1>1, <1>2, <1>3 DEF Keeps, Promised, Confirms

\* A frame that is dropped or lost changes nothing.
LEMMA DropKeeps ==
  ASSUME NEW e, NEW in, NEW out \in Seq(SentSegment), out # <<>>,
         NEW rows, NEW left, NEW g, NEW kept, Keeps(e, in, out, rows, left, g, kept)
  PROVE  Keeps(e, in, Tail(out), rows, left, g, kept)
  <1>1. \A n \in 1 .. Len(Tail(out)) : n + 1 \in 1 .. Len(out) /\ Tail(out)[n] = out[n + 1]
    BY TailAt
  <1>2. Opening(e, Tail(out), left)
    <2>. SUFFICES ASSUME e.st = "syn_sent", NEW n \in 1 .. Len(Tail(out)),
                         NEW m \in 1 .. Len(Tail(out)),
                         Tail(out)[n].bits = SYN_ACK, n <= m
                  PROVE  Tail(out)[m].ack = e.data /\ left = {}
      BY DEF Opening
    <2>1. n + 1 <= m + 1
      OBVIOUS
    <2>2. QED
      BY <1>1, <2>1 DEF Keeps, Opening
  <1>3. /\ InRange(e, in, Tail(out), rows, left)
        /\ Pending(e, in, out, rows, g, kept) => Pending(e, in, Tail(out), rows, g, kept)
    BY <1>1 DEF Keeps, InRange, Pending
  <1>4. QED
    BY <1>2, <1>3 DEF Keeps, Promised

\* Less is known once a frame has been lost.
LEMMA LossKeeps ==
  ASSUME NEW e, NEW in, NEW out, NEW rows, NEW left, NEW g, NEW kept,
         Keeps(e, in, out, rows, left, g, kept)
  PROVE  Keeps(e, in, out, rows, left, g, FALSE)
  BY DEF Keeps, Promised, Pending, Confirms

LEMMA LoseKeeps ==
  ASSUME NEW e, NEW in \in Seq(Segment), in # <<>>, NEW out, NEW rows, NEW left, NEW g,
         Keeps(e, in, out, rows, left, g, FALSE)
  PROVE  Keeps(e, Tail(in), out, rows, left, g, FALSE)
  <1>1. \A n \in 1 .. Len(Tail(in)) : n + 1 \in 1 .. Len(in) /\ Tail(in)[n] = in[n + 1]
    BY TailAt
  <1>2. /\ InRange(e, Tail(in), out, rows, left)
        /\ Pending(e, in, out, rows, g, FALSE) => Pending(e, Tail(in), out, rows, g, FALSE)
    BY <1>1 DEF Keeps, InRange, Pending
  <1>3. QED
    BY <1>2 DEF Keeps, Promised, Confirms

\* A SYN/ACK is answered, and the connection has its first number.
LEMMA EstablishKeeps ==
  ASSUME NEW e \in PeerState, NEW in \in Seq(Segment), NEW out \in Seq(SentSegment),
         NEW rows \in SUBSET Entry, NEW left, NEW g, NEW kept,
         Fine(e, in, out, rows, kept), Keeps(e, in, out, rows, left, g, kept),
         e.st = "syn_sent", out # <<>>, Head(out).bits = SYN_ACK,
         NEW f \in PeerState, f.st = "established", f.una = e.nxt, f.nxt = e.nxt,
         f.data = e.data,
         NEW s \in Segment, s.bits = ACK, s.seq = f.nxt, s.len = 0
  PROVE  Keeps(f, Append(in, s), Tail(out), rows, left, g, kept)
  <1>1. /\ \A n \in 1 .. Len(Tail(out)) : n + 1 \in 1 .. Len(out) /\ 1 <= n + 1
                                           /\ Tail(out)[n] = out[n + 1]
        /\ Head(out) = out[1] /\ 1 \in 1 .. Len(out)
    BY TailAt
  <1>2. Handshake(e, in, out, rows, kept) /\ Opening(e, out, left)
    BY DEF Fine, Keeps
  <1>3. in = <<>>
    BY <1>1, <1>2 DEF Handshake
  <1>4. Append(in, s) = <<s>> /\ Len(<<s>>) = 1 /\ <<s>>[1] = s
    BY <1>3
  <1>5. f.nxt = f.data /\ f.una = f.data /\ f.data \in Seqs
    BY <1>2, Sent DEF Handshake
  <1>6. Gap(f.data, f.data) = 0 /\ MaxOctets \in Nat
    BY <1>5, GapSame, Numbers
  <1>7. /\ \A n \in 1 .. Len(Tail(out)) : Tail(out)[n].ack = f.data
        /\ left = {}
    BY <1>1, <1>2 DEF Opening
  <1>8. \A row \in rows : row.next_seq = f.data
    BY <1>2 DEF Handshake
  <1>9. \A n \in Seqs : Gap(f.data, n) \in Nat
    BY Sent
  <1>10. InWindow(f) /\ OneInFlight(f) /\ Delivered(f, g) /\ Opening(f, Tail(out), left)
    BY <1>5, <1>6, <1>9 DEF InWindow, OneInFlight, Delivered, Opening, Sending
  <1>11. InRange(f, <<s>>, Tail(out), rows, left) /\ Pending(f, <<s>>, Tail(out), rows, g, kept)
    <2>1. \A n \in Seqs : n = f.data => Upto(f, n)
      BY <1>5, <1>6 DEF Upto
    <2>2. InRange(f, <<s>>, Tail(out), rows, left)
      BY <1>4, <1>5, <1>7, <1>8, <2>1 DEF InRange
    <2>3. Pending(f, <<s>>, Tail(out), rows, g, kept)
      BY <1>5 DEF Pending
    <2>4. QED
      BY <2>2, <2>3
  <1>12. Confirms(f, <<s>>, rows, kept)
    BY <1>4 DEF Confirms
  <1>13. QED
    BY <1>4, <1>10, <1>11, <1>12 DEF Keeps, Promised

\* An ACK carries the next number.
LEMMA AckKeeps ==
  ASSUME NEW e \in PeerState, NEW in \in Seq(Segment), NEW out, NEW rows, NEW left, NEW g,
         NEW kept, Keeps(e, in, out, rows, left, g, kept),
         NEW s \in Segment, s.bits = ACK, s.seq = e.nxt, s.len = 0
  PROVE  Keeps(e, Append(in, s), out, rows, left, g, kept)
  <1>1. /\ \A n \in 1 .. Len(in) : /\ Append(in, s)[n] = in[n]
                                   /\ n \in 1 .. Len(Append(in, s))
        /\ Append(in, s)[Len(in) + 1] = s
        /\ \A n \in 1 .. Len(Append(in, s)) : n \in 1 .. Len(in) \/ n = Len(in) + 1
    BY AppendAt
  <1>2. Upto(e, s.seq)
    <2>1. Gap(e.data, e.nxt) \in Nat
      BY Sent
    <2>2. QED
      BY <2>1 DEF Upto
  <1>3. InRange(e, Append(in, s), out, rows, left)
    BY <1>1, <1>2 DEF Keeps, InRange
  <1>4. Pending(e, in, out, rows, g, kept) => Pending(e, Append(in, s), out, rows, g, kept)
    <2>1. ASSUME NEW m \in 1 .. Len(in), NEW n \in 1 .. m
          PROVE  n \in 1 .. Len(in)
      OBVIOUS
    <2>2. QED
      BY <1>1, <2>1 DEF Pending
  <1>5. Confirms(e, Append(in, s), rows, kept)
    <2>1. in # <<>> => 1 \in 1 .. Len(in) /\ Append(in, s) # <<>>
      BY AppendAt
    <2>2. QED
      BY <1>1, <2>1 DEF Keeps, Confirms
  <1>6. QED
    BY <1>3, <1>4, <1>5 DEF Keeps, Promised

\* The number after the pending octet is acknowledged only if that was printed.
LEMMA TakeKeeps ==
  ASSUME NEW e \in PeerState, NEW in, NEW out \in Seq(SentSegment), NEW rows, NEW left, NEW g,
         NEW kept, Keeps(e, in, out, rows, left, g, kept), InConnection(e),
         out # <<>>, Head(out).toPeerPort
  PROVE  Keeps(Acknowledged(e, Head(out)), in, out, rows, left, g, kept)
  <1>. DEFINE r == Head(out)
              una == IF Gap(e.una, r.ack) <= Gap(e.una, e.nxt) THEN r.ack ELSE e.una
              f == Acknowledged(e, r)
  <1>1. r = out[1] /\ 1 \in 1 .. Len(out) /\ r \in SentSegment
    BY TailAt
  <1>2. /\ f.una = una /\ f.nxt = e.nxt /\ f.data = e.data
        /\ f.st \in {e.st, "fin_wait_2", "closed"} /\ e.st # "syn_sent"
        /\ f.st = "fin_wait_2" => e.st \in {"fin_wait_1", "fin_wait_2"}
        /\ Sending(e) => f.st = e.st
    BY DEF Acknowledged, PeerState, Closing, Sending, InConnection
  <1>3. e.una \in Seqs /\ e.nxt \in Seqs /\ e.data \in Seqs /\ r.ack \in Seqs
    BY <1>1, Sent DEF SentSegment
  <1>4. Opening(f, out, left) /\ Confirms(f, in, rows, kept)
    <2>1. Sending(f) => Sending(e)
      BY <1>2 DEF Sending
    <2>. HIDE DEF f
    <2>2. QED
      BY <1>2, <2>1 DEF Keeps, Opening, Confirms
  <1>5. CASE ~Sending(e)
    <2>1. ~Sending(f) /\ (InConnection(f) => OctetsSent(f) = OctetsSent(e))
      BY <1>2, <1>5 DEF Sending, InConnection, OctetsSent, Closing
    <2>2. QED
      BY <1>2, <1>4, <1>5, <2>1
         DEF Keeps, Promised, OneInFlight, InWindow, InRange, Pending, Delivered
  <1>6. CASE Sending(e)
    <2>1. /\ Gap(e.data, e.una) <= Gap(e.data, e.nxt)
          /\ Gap(e.data, e.nxt) <= MaxOctets
      BY <1>6 DEF Keeps, InWindow
    <2>2. Gap(e.data, r.ack) <= Gap(e.data, e.nxt)
      BY <1>1, <1>6 DEF Keeps, InRange, Upto
    <2>3. /\ f.una = una /\ una \in {e.una, r.ack}
          /\ f.st = e.st /\ f.nxt = e.nxt /\ f.data = e.data
      BY <1>2, <1>6
    <2>. HIDE DEF f, una
    <2>4. InWindow(f) /\ InRange(f, in, out, rows, left)
      BY <1>6, <2>1, <2>2, <2>3 DEF Keeps, InWindow, InRange, Sending, Upto
    <2>5. ASSUME StopAndWait PROVE Promised(f, in, out, rows, g, kept)
      <3>1. OneInFlight(e) /\ Pending(e, in, out, rows, g, kept) /\ Delivered(e, g)
        BY <2>5 DEF Keeps, Promised
      <3>2. /\ Gap(e.una, e.nxt) <= 1
            /\ Gap(e.una, e.una) = 0 /\ Gap(e.nxt, e.nxt) = 0
            /\ Gap(e.una, e.nxt) = Gap(e.data, e.nxt) - Gap(e.data, e.una)
            /\ Gap(e.una, e.nxt) \in Nat /\ Gap(e.una, r.ack) \in Nat
            /\ Gap(e.data, e.nxt) \in Nat /\ Gap(e.data, e.una) \in Nat
            /\ \A n \in Seqs : Gap(e.data, n) \in Nat
        <4>1. /\ Gap(e.una, e.nxt) \in Nat /\ Gap(e.una, r.ack) \in Nat
              /\ Gap(e.data, e.nxt) \in Nat /\ Gap(e.data, e.una) \in Nat
              /\ \A n \in Seqs : Gap(e.data, n) \in Nat
          BY <1>3, GapValue
        <4>2. Gap(e.una, e.nxt) = Gap(e.data, e.nxt) - Gap(e.data, e.una)
          BY <1>3, <2>1, GapRest
        <4>3. Gap(e.una, e.una) = 0 /\ Gap(e.nxt, e.nxt) = 0
          BY <1>3, GapSame
        <4>4. QED
          BY <1>6, <3>1, <4>1, <4>2, <4>3 DEF OneInFlight
      <3>3. una \in {e.una, e.nxt}
        <4>1. ASSUME Gap(e.una, r.ack) <= Gap(e.una, e.nxt) PROVE r.ack \in {e.una, e.nxt}
          <5>1. Gap(e.una, r.ack) = Gap(e.una, e.una) \/ Gap(e.una, r.ack) = Gap(e.una, e.nxt)
            BY <3>2, <4>1
          <5>2. QED
            BY <1>3, <5>1, GapSame
        <4>2. QED
          BY <4>1 DEF una
      <3>4. CASE una = e.una
        <4>1. f.una = e.una /\ f.st = e.st /\ f.nxt = e.nxt /\ f.data = e.data
          BY <2>3, <3>4
        <4>2. OneInFlight(f) /\ Delivered(f, g)
          BY <1>6, <3>1, <4>1 DEF OneInFlight, Delivered, Sending
        <4>3. Pending(f, in, out, rows, g, kept)
          BY <3>1, <4>1 DEF Pending, Sending
        <4>4. QED
          BY <4>2, <4>3 DEF Promised
      <3>5. CASE una # e.una
        <4>1. una = e.nxt /\ r.ack = e.nxt /\ e.una # e.nxt
          BY <2>3, <3>3, <3>5
        <4>2. e.una \in g
          BY <1>1, <1>6, <3>1, <4>1 DEF Pending
        <4>3. Gap(e.data, e.nxt) = Gap(e.data, e.una) + 1
          <5>1. Gap(e.una, e.nxt) # 0
            BY <1>3, <3>2, <4>1, GapSame
          <5>2. QED
            BY <3>2, <5>1
        <4>4. ASSUME NEW n \in Seqs, Gap(e.data, n) < Gap(e.data, e.nxt) PROVE n \in g
          <5>1. CASE Gap(e.data, n) < Gap(e.data, e.una)
            BY <1>6, <3>1, <5>1 DEF Delivered
          <5>2. CASE Gap(e.data, n) = Gap(e.data, e.una)
            BY <1>3, <4>2, <5>2, GapSame
          <5>3. QED
            BY <3>2, <4>3, <4>4, <5>1, <5>2
        <4>5. f.una = e.nxt /\ f.st = e.st /\ f.nxt = e.nxt /\ f.data = e.data
          BY <2>3, <4>1
        <4>6. OneInFlight(f) /\ Delivered(f, g)
          BY <1>6, <3>2, <4>4, <4>5 DEF OneInFlight, Delivered, Sending
        <4>7. Pending(f, in, out, rows, g, kept)
          BY <4>5 DEF Pending
        <4>8. QED
          BY <4>6, <4>7 DEF Promised
      <3>6. QED
        BY <3>4, <3>5
    <2>6. QED
      BY <1>4, <2>4, <2>5 DEF Keeps, f
  <1>7. QED
    BY <1>5, <1>6

\* Nothing of it depends on what the stack sends.
LEMMA AcceptKeeps ==
  ASSUME NEW e \in PeerState, NEW in, NEW out, NEW rows, NEW left, NEW g, NEW kept,
         Keeps(e, in, out, rows, left, g, kept), e.st # "syn_sent", NEW r
  PROVE  Keeps(Accepted(e, r), in, out, rows, left, g, kept)
  <1>. DEFINE f == Accepted(e, r)
  <1>1. f.una = e.una /\ f.nxt = e.nxt /\ f.data = e.data
    BY DEF Accepted, PeerState
  <1>2. /\ f.st # "syn_sent" /\ (Sending(f) <=> Sending(e))
        /\ InConnection(f) => InConnection(e)
        /\ InConnection(f) /\ ~Sending(f) => (Closing(f) \/ f.st = "fin_wait_2")
        /\ InConnection(f) /\ ~Sending(f) => (Closing(e) \/ e.st = "fin_wait_2")
    BY DEF Accepted, PeerState, Sending, InConnection, Closing
  <1>. HIDE DEF f
  <1>3. InConnection(f) /\ ~Sending(f) => OctetsSent(f) = OctetsSent(e)
    BY <1>1, <1>2 DEF OctetsSent
  <1>4. Delivered(e, g) => Delivered(f, g)
    BY <1>1, <1>2, <1>3 DEF Delivered
  <1>5. /\ Opening(f, out, left) /\ InWindow(f) /\ InRange(f, in, out, rows, left)
        /\ Confirms(f, in, rows, kept)
        /\ OneInFlight(e) => OneInFlight(f)
        /\ Pending(e, in, out, rows, g, kept) => Pending(f, in, out, rows, g, kept)
    BY <1>1, <1>2
       DEF Keeps, OneInFlight, Opening, InWindow, InRange, Pending, Confirms, Upto
  <1>6. QED
    BY <1>4, <1>5 DEF Keeps, Promised, f

-----------------------------------------------------------------------------
(* The steps of the stack.                                                 *)

\* A SYN/ACK is the first frame of a connection that counts.
LEMMA SynKeeps ==
  ASSUME NEW e \in PeerState, NEW in \in Seq(Segment), in # <<>>, NEW out \in Seq(SentSegment),
         NEW rows, NEW left, NEW g, NEW kept,
         Fine(e, in, out, rows, kept), Keeps(e, in, out, rows, left, g, kept),
         Head(in).bits = SYN, NEW rows2, NEW left2, NEW g2, NEW out2,
         \/ out2 = out
         \/ left2 = {} /\ \E r \in SentSegment : /\ out2 = Append(out, r)
                                             /\ r.ack = Wrap(Head(in).seq + 1)
  PROVE  Keeps(e, Tail(in), out2, rows2, left2, g2, kept)
  <1>1. e.st = "syn_sent" /\ Head(in) = in[1]
    BY TailAt DEF Fine, SynOpens
  <1>2. /\ Wrap(Head(in).seq + 1) = e.data
        /\ \A n \in 1 .. Len(out) : out[n].bits # SYN_ACK
    BY <1>1 DEF Fine, Handshake
  <1>3. Opening(e, out2, left2)
    <2>1. CASE out2 = out
      BY <1>2, <2>1 DEF Opening
    <2>2. CASE left2 = {} /\ \E r \in SentSegment : /\ out2 = Append(out, r)
                                                /\ r.ack = Wrap(Head(in).seq + 1)
      <3>1. PICK r \in SentSegment : out2 = Append(out, r) /\ r.ack = e.data
        BY <1>2, <2>2
      <3>2. /\ \A n \in 1 .. Len(out) : out2[n] = out[n]
            /\ out2[Len(out) + 1] = r
            /\ \A n \in 1 .. Len(out2) : n \in 1 .. Len(out) \/ n = Len(out) + 1
        BY <3>1, AppendAt
      <3>3. ASSUME NEW n \in 1 .. Len(out2), NEW m \in 1 .. Len(out2),
                   out2[n].bits = SYN_ACK, n <= m
            PROVE  m = Len(out) + 1
        BY <1>2, <3>2, <3>3
      <3>4. QED
        BY <2>2, <3>1, <3>2, <3>3 DEF Opening
    <2>3. QED
      BY <2>1, <2>2
  <1>4. QED
    BY <1>1, <1>3 DEF Keeps, Promised, OneInFlight, InWindow, InRange, Pending, Delivered,
                      Confirms, Sending, InConnection

\* What was printed stays printed.
LEMMA IdleKeeps ==
  ASSUME NEW e, NEW in, NEW out, NEW rows, NEW left, NEW g, NEW kept,
         Keeps(e, in, out, rows, left, g, kept), e.st # "syn_sent", ~Sending(e),
         NEW in2, NEW out2, NEW rows2, NEW left2, NEW g2, g \subseteq g2
  PROVE  Keeps(e, in2, out2, rows2, left2, g2, kept)
  BY DEF Keeps, Promised, OneInFlight, Opening, InWindow, InRange, Pending, Delivered, Confirms

\* The number a slot records for a segment is not ahead of the peer.
LEMMA RecordedNumber ==
  ASSUME NEW e \in PeerState, NEW in \in Seq(Segment), in # <<>>, NEW out, NEW rows, NEW left,
         InRange(e, in, out, rows, left), InWindow(e), Sending(e), Head(in).len \in {0, 1}
  PROVE  /\ Upto(e, Wrap(Head(in).seq + Head(in).len))
         /\ Head(in).len = 0 => Wrap(Head(in).seq + Head(in).len) = Head(in).seq
         /\ Head(in).len = 1 =>
               Gap(e.data, Wrap(Head(in).seq + 1)) = Gap(e.data, Head(in).seq) + 1
  <1>1. PICK s \in Segment : s = Head(in) /\ s = in[1] /\ 1 \in 1 .. Len(in)
    BY TailAt
  <1>2. s.seq \in Seqs /\ e.data \in Seqs /\ e.nxt \in Seqs
        /\ \A n \in Seqs : Gap(e.data, n) \in Nat
    BY Sent DEF Segment
  <1>3. Upto(e, s.seq) /\ (s.len = 1 => s.seq # e.nxt)
    BY <1>1 DEF InRange
  <1>4. CASE s.len = 0
    <2>1. s.seq \in Seqs
      BY <1>2
    <2>2. Wrap(s.seq + 0) = s.seq
      BY <2>1, SeqSpaceAssumption DEF Wrap, Seqs
    <2>3. QED
      BY <1>1, <1>3, <1>4, <2>2
  <1>5. CASE s.len = 1
    <2>1. Gap(e.data, s.seq) # Gap(e.data, e.nxt)
      BY <1>2, <1>3, <1>5, GapSame
    <2>2. Gap(e.data, s.seq) + 1 <= Gap(e.data, e.nxt)
      BY <1>2, <1>3, <2>1 DEF Upto
    <2>3. Gap(e.data, s.seq) + 1 <= MaxOctets
      BY <1>2, <2>2, Numbers DEF InWindow
    <2>4. Gap(e.data, Wrap(s.seq + 1)) = Gap(e.data, s.seq) + 1
      BY <1>2, <2>3, GapStep
    <2>5. QED
      BY <1>1, <1>5, <2>2, <2>4 DEF Upto
  <1>6. QED
    BY <1>1, <1>4, <1>5

\* A segment whose data is not printed is no data, is refused, or came after a loss.
LEMMA SilentKeeps ==
  ASSUME NEW e \in PeerState, NEW in \in Seq(Segment), in # <<>>, NEW out, NEW rows, NEW left,
         NEW g, NEW kept, Keeps(e, in, out, rows, left, g, kept), Sending(e),
         Head(in).len \in {0, 1}, NEW rows2, rows = {} => rows2 = {},
         kept => Head(in).len = 0 \/ rows2 = {},
         kept => \A row \in rows2 : row.status # SYN_RCVD,
         \A row \in rows2 : row.next_seq = Wrap(Head(in).seq + Head(in).len),
         NEW left2, left = {} => left2 = {}, NEW g2, g \subseteq g2
  PROVE  Keeps(e, Tail(in), out, rows2, left2, g2, kept)
  <1>1. /\ \A n \in 1 .. Len(Tail(in)) : n + 1 \in 1 .. Len(in) /\ Tail(in)[n] = in[n + 1]
        /\ \A n \in 1 .. Len(in) : n # 1 => /\ n - 1 \in 1 .. Len(Tail(in))
                                            /\ Tail(in)[n - 1] = in[n]
        /\ Head(in) = in[1] /\ 1 \in 1 .. Len(in) /\ in[1] \in Segment
    BY TailAt
  <1>2. InRange(e, in, out, rows, left) /\ InWindow(e)
    BY DEF Keeps
  <1>3. /\ \A row \in rows2 : Upto(e, row.next_seq)
        /\ kept => \A row \in rows2 : row.next_seq = in[1].seq
    BY <1>1, <1>2, RecordedNumber
  <1>4. InRange(e, Tail(in), out, rows2, left2)
    BY <1>1, <1>2, <1>3 DEF InRange
  <1>5. StopAndWait => Pending(e, Tail(in), out, rows2, g2, kept)
    <2>. SUFFICES ASSUME StopAndWait, e.una # e.nxt, e.una \notin g2
                  PROVE  Pending(e, Tail(in), out, rows2, g2, kept)
      BY DEF Pending
    <2>1. Pending(e, in, out, rows, g, kept) /\ e.una \notin g
      BY DEF Keeps, Promised
    <2>2. ASSUME kept, rows2 # {}
          PROVE  /\ \A row \in rows2 : row.next_seq # e.nxt
                 /\ \E m \in 1 .. Len(Tail(in)) :
                       /\ Tail(in)[m].len = 1 /\ Tail(in)[m].seq = e.una
                       /\ \A n \in 1 .. m : Tail(in)[n].seq # e.nxt
      <3>1. PICK m \in 1 .. Len(in) : /\ in[m].len = 1 /\ in[m].seq = e.una
                                      /\ \A n \in 1 .. m : in[n].seq # e.nxt
        BY <2>1, <2>2 DEF Pending
      <3>2. m # 1 /\ 1 \in 1 .. m
        BY <1>1, <2>2, <3>1
      <3>3. ASSUME NEW n \in 1 .. m - 1
            PROVE  n \in 1 .. Len(Tail(in)) /\ n + 1 \in 1 .. m
        BY <1>1, <3>2
      <3>4. m - 1 \in 1 .. Len(Tail(in)) /\ Tail(in)[m - 1] = in[m]
        BY <1>1, <3>2
      <3>5. \A n \in 1 .. m - 1 : Tail(in)[n].seq # e.nxt
        BY <1>1, <3>1, <3>3
      <3>6. QED
        BY <1>3, <2>2, <3>1, <3>2, <3>4, <3>5
    <2>3. QED
      BY <2>1, <2>2 DEF Pending
  <1>6. Confirms(e, Tail(in), rows2, kept)
    BY DEF Confirms
  <1>7. QED
    BY <1>4, <1>5, <1>6 DEF Keeps, Promised, Opening, Delivered, Sending

\* The octet a slot records and acknowledges was printed.
LEMMA PrintKeeps ==
  ASSUME NEW e \in PeerState, NEW in \in Seq(Segment), in # <<>>, NEW out \in Seq(SentSegment),
         NEW rows, NEW left, NEW g, NEW kept,
         Keeps(e, in, out, rows, left, g, kept), Sending(e),
         Head(in).len = 1, NEW rows2, rows = {} => rows2 = {},
         kept => \A row \in rows2 : row.status # SYN_RCVD,
         \A row \in rows2 : row.next_seq = Wrap(Head(in).seq + 1),
         NEW left2, left = {} => left2 = {},
         NEW g2, g \subseteq g2, Head(in).seq \in g2, NEW out2,
         \/ out2 = out
         \/ \E r \in SentSegment : out2 = Append(out, r) /\ r.ack = Wrap(Head(in).seq + 1)
  PROVE  Keeps(e, Tail(in), out2, rows2, left2, g2, kept)
  <1>0. PICK s \in Segment : s = Head(in)
    BY TailAt
  <1>1. /\ \A n \in 1 .. Len(Tail(in)) : n + 1 \in 1 .. Len(in) /\ Tail(in)[n] = in[n + 1]
        /\ \A n \in 1 .. Len(in) : n # 1 => /\ n - 1 \in 1 .. Len(Tail(in))
                                            /\ Tail(in)[n - 1] = in[n]
        /\ s = in[1] /\ 1 \in 1 .. Len(in)
    BY <1>0, TailAt
  <1>2. /\ InRange(e, in, out, rows, left) /\ InWindow(e)
        /\ StopAndWait => OneInFlight(e) /\ Pending(e, in, out, rows, g, kept)
    BY DEF Keeps, Promised
  <1>3. /\ s.seq \in Seqs /\ e.data \in Seqs /\ e.nxt \in Seqs /\ e.una \in Seqs
        /\ \A n \in Seqs : Gap(e.data, n) \in Nat
    BY Sent DEF Segment
  <1> DEFINE next == Wrap(s.seq + 1)
  <1>4. Upto(e, next) /\ Gap(e.data, next) = Gap(e.data, s.seq) + 1
    BY <1>0, <1>2, RecordedNumber
  <1>5. StopAndWait /\ e.una # e.nxt /\ e.una \notin g2 => next # e.nxt
    <2>. SUFFICES ASSUME StopAndWait, e.una # e.nxt, e.una \notin g2, next = e.nxt PROVE FALSE
      OBVIOUS
    <2>1. Gap(e.una, e.nxt) = Gap(e.data, e.nxt) - Gap(e.data, e.una)
      BY <1>2, <1>3, GapRest DEF InWindow
    <2>2. Gap(e.una, e.nxt) # 0 /\ Gap(e.una, e.nxt) \in Nat
      BY <1>3, GapSame, GapValue
    <2>3. Gap(e.data, s.seq) = Gap(e.data, e.una)
      BY <1>2, <1>3, <1>4, <2>1, <2>2 DEF InWindow, OneInFlight
    <2>4. s.seq = e.una
      BY <1>3, <2>3, GapSame
    <2>5. QED
      BY <1>0, <2>4
  <1>6. \A n \in 1 .. Len(out2) :
        (n \in 1 .. Len(out) /\ out2[n] = out[n]) \/ out2[n].ack = next
    BY <1>0, AppendAt
  <1>. HIDE DEF next
  <1>7. \A row \in rows2 : row.next_seq = next
    BY <1>0 DEF next
  <1>8. InRange(e, Tail(in), out2, rows2, left2)
    BY <1>1, <1>2, <1>4, <1>6, <1>7 DEF InRange
  <1>9. StopAndWait => Pending(e, Tail(in), out2, rows2, g2, kept)
    <2>. SUFFICES ASSUME StopAndWait, e.una # e.nxt, e.una \notin g2
                  PROVE  Pending(e, Tail(in), out2, rows2, g2, kept)
      BY DEF Pending
    <2>1. e.una \notin g /\ next # e.nxt
      BY <1>5
    <2>2. \A n \in 1 .. Len(out2) : out2[n].toPeerPort => out2[n].ack # e.nxt
      BY <1>2, <1>6, <2>1 DEF Pending
    <2>3. ASSUME kept, rows2 # {}
          PROVE  \E m \in 1 .. Len(Tail(in)) :
                       /\ Tail(in)[m].len = 1 /\ Tail(in)[m].seq = e.una
                       /\ \A n \in 1 .. m : Tail(in)[n].seq # e.nxt
      <3>1. PICK m \in 1 .. Len(in) : /\ in[m].len = 1 /\ in[m].seq = e.una
                                      /\ \A n \in 1 .. m : in[n].seq # e.nxt
        BY <1>2, <2>1, <2>3 DEF Pending
      <3>2. m # 1
        BY <1>1, <3>1
      <3>3. ASSUME NEW n \in 1 .. m - 1
            PROVE  n \in 1 .. Len(Tail(in)) /\ n + 1 \in 1 .. m
        BY <1>1, <3>2
      <3>4. m - 1 \in 1 .. Len(Tail(in)) /\ Tail(in)[m - 1] = in[m]
        BY <1>1, <3>2
      <3>5. \A n \in 1 .. m - 1 : Tail(in)[n].seq # e.nxt
        BY <1>1, <3>1, <3>3
      <3>6. QED
        BY <3>1, <3>4, <3>5
    <2>4. QED
      BY <1>7, <2>1, <2>2, <2>3 DEF Pending
  <1>10. Confirms(e, Tail(in), rows2, kept)
    BY DEF Confirms
  <1>11. QED
    BY <1>8, <1>9, <1>10 DEF Keeps, Promised, Opening, Delivered, Sending

\* A line's frame carries the number of a slot that is open.
LEMMA LineKeeps ==
  ASSUME NEW e, NEW in, NEW out \in Seq(SentSegment), NEW rows, NEW left, NEW g,
         Fine(e, in, out, rows, TRUE), Keeps(e, in, out, rows, left, g, TRUE),
         NEW rows2, \A row2 \in rows2 : \E row \in rows : /\ row2.status = row.status
                                                        /\ row2.next_seq = row.next_seq,
         NEW left2, left = {} => left2 = {}, NEW out2,
         \/ out2 = out
         \/ \E r \in SentSegment :
               /\ out2 = Append(out, r) /\ r.bits # SYN_ACK
               /\ left # {} \/ \E row \in rows : r.ack = row.next_seq
  PROVE  Keeps(e, in, out2, rows2, left2, g, TRUE)
  <1>1. /\ Opening(e, out, left) /\ InRange(e, in, out, rows, left)
        /\ StopAndWait => Pending(e, in, out, rows, g, TRUE)
    BY DEF Keeps, Promised
  <1>2. ASSUME NEW n \in 1 .. Len(out2)
        PROVE  \/ n \in 1 .. Len(out) /\ out2[n] = out[n]
               \/ /\ n \notin 1 .. Len(out) /\ out2[n].bits # SYN_ACK
                  /\ left # {} \/ \E row \in rows : out2[n].ack = row.next_seq
    <2>1. CASE out2 = out
      BY <2>1
    <2>2. ASSUME NEW r \in SentSegment, out2 = Append(out, r), r.bits # SYN_ACK,
                 left # {} \/ \E row \in rows : r.ack = row.next_seq
          PROVE  \/ n \in 1 .. Len(out) /\ out2[n] = out[n]
                 \/ /\ n \notin 1 .. Len(out) /\ out2[n].bits # SYN_ACK
                    /\ left # {} \/ \E row \in rows : out2[n].ack = row.next_seq
      <3>1. CASE n \in 1 .. Len(out)
        BY <2>2, <3>1, AppendAt
      <3>2. CASE n \notin 1 .. Len(out)
        BY <2>2, <3>2, AppendAt
      <3>3. QED
        BY <3>1, <3>2
    <2>3. QED
      BY <2>1, <2>2
  <1>3. Opening(e, out2, left2)
    <2>. SUFFICES ASSUME e.st = "syn_sent", NEW n \in 1 .. Len(out2), NEW m \in 1 .. Len(out2),
                         out2[n].bits = SYN_ACK, n <= m
                  PROVE  out2[m].ack = e.data /\ left2 = {}
      BY DEF Opening
    <2>1. n \in 1 .. Len(out) /\ out[n].bits = SYN_ACK
      BY <1>2
    <2>2. left = {}
      BY <1>1, <2>1 DEF Opening
    <2>3. \A row \in rows : row.next_seq = e.data
      BY DEF Fine, Handshake
    <2>4. QED
      BY <1>1, <1>2, <2>1, <2>2, <2>3 DEF Opening
  <1>4. InRange(e, in, out2, rows2, left2)
    BY <1>1, <1>2 DEF InRange
  <1>5. StopAndWait => Pending(e, in, out2, rows2, g, TRUE)
    <2>. SUFFICES ASSUME StopAndWait, Sending(e), e.una # e.nxt, e.una \notin g
                  PROVE  Pending(e, in, out2, rows2, g, TRUE)
      BY DEF Pending
    <2>1. /\ left = {}
          /\ \A n \in 1 .. Len(out) : out[n].toPeerPort => out[n].ack # e.nxt
          /\ rows # {} =>
                /\ \A row \in rows : row.next_seq # e.nxt
                /\ \E m \in 1 .. Len(in) : /\ in[m].len = 1 /\ in[m].seq = e.una
                                           /\ \A n \in 1 .. m : in[n].seq # e.nxt
      BY <1>1 DEF InRange, Pending
    <2>2. \A n \in 1 .. Len(out2) : out2[n].toPeerPort => out2[n].ack # e.nxt
      BY <1>2, <2>1
    <2>3. QED
      BY <2>1, <2>2 DEF Pending
  <1>6. Confirms(e, in, rows2, TRUE)
    BY DEF Keeps, Confirms
  <1>7. QED
    BY <1>3, <1>4, <1>5, <1>6 DEF Keeps, Promised

\* A segment leaves no closed slot in write mode that was not there; a SYN that is
\* answered opens the one its peer may have had.
LEMMA ReceiveLeft ==
  ASSUME TableInv, NEW p \in Peers, NEW s, Sendable(p, s), Receive(s)
  PROVE  /\ \A q \in Peers : q # p => (Left(q) = {} => Left(q)' = {})
         /\ s.bits \in {ACK, PSH_ACK} => (Left(p) = {} => Left(p)' = {})
         /\ s.bits = SYN /\ sent' # <<>> => Left(p)' = {}
  <1>0. table \in [Slots -> Entry] /\ s \in Segment /\ s.peer = p
        /\ s.bits \in {SYN, ACK, FIN_ACK, PSH_ACK}
    BY DEF TableInv, TableType, Sendable
  <1>1. CASE Refuses(p)
    BY <1>1 DEF Refuses, Left, IsOpen
  <1>2. ASSUME NEW i \in Slots, NEW x, table' = [table EXCEPT ![i] = x],
               x.io = table[i].io,
               NEW q \in Peers,
               x.peer = q => /\ x.status = NOT_CONNECTED => ~IsOpen(i)
                             /\ table[i].peer = q,
               Left(q)' # {}
        PROVE  Left(q) # {}
    <2>1. PICK k \in Slots : ~IsOpen(k)' /\ table'[k].peer = q /\ table'[k].io = 1
      BY <1>2 DEF Left
    <2>2. CASE k = i
      <3>1. table'[k] = x
        BY <1>0, <1>2, <2>2
      <3>2. QED
        BY <1>2, <2>1, <2>2, <3>1 DEF Left, IsOpen
    <2>3. CASE k # i
      <3>1. table'[k] = table[k]
        BY <1>0, <1>2, <2>3
      <3>2. QED
        BY <2>1, <3>1 DEF Left, IsOpen
    <2>4. QED
      BY <2>2, <2>3
  <1>3. ASSUME NEW i \in Slots, Selected(table, p, i), Ends(s, i)
        PROVE  s.bits = FIN_ACK /\ \A q \in Peers : q # p => (Left(q) = {} => Left(q)' = {})
    <2> DEFINE x == CloseEntry(PayloadEntry(table[i], s))
    <2>1. table[i].peer = p /\ s.bits = FIN_ACK
      BY <1>3 DEF Ends, Selected, Found, FirstFree, IsOpen
    <2>2. PayloadEntry(table[i], s) \in Entry /\ PayloadEntry(table[i], s).io = table[i].io
          /\ PayloadEntry(table[i], s).peer = p
      BY <1>0, <2>1, PayloadEntryEffect
    <2>3. x.io = table[i].io /\ x.peer = p
      BY <2>2 DEF CloseEntry, Entry
    <2>4. table' = [table EXCEPT ![i] = x]
      BY <1>3 DEF Ends
    <2>. HIDE DEF x
    <2>5. QED
      BY <1>2, <2>1, <2>3, <2>4
  <1>4. ASSUME NEW i \in Slots, Selected(table, p, i), Records(s, i)
        PROVE  /\ \A q \in Peers : q # p => (Left(q) = {} => Left(q)' = {})
               /\ s.bits \in {ACK, PSH_ACK} => (Left(p) = {} => Left(p)' = {})
               /\ s.bits = SYN => Left(p)' = {}
    <2> DEFINE x == PayloadEntry(table[i], s)
    <2>1. table[i] \in Entry
      BY <1>0
    <2>2. /\ x.io = table[i].io
          /\ s.bits = SYN => x.peer = p /\ x.status = SYN_RCVD
          /\ s.bits # SYN => /\ x.peer = table[i].peer
                             /\ x.status = NOT_CONNECTED => ~IsOpen(i)
      BY <1>0, <2>1, PayloadEntryEffect DEF IsOpen
    <2>3. table' = [table EXCEPT ![i] = x]
      BY <1>4 DEF Records
    <2>. HIDE DEF x
    <2>4. ASSUME NEW q \in Peers, q # p, Left(q)' # {} PROVE Left(q) # {}
      <3>1. x.peer = q => /\ x.status = NOT_CONNECTED => ~IsOpen(i)
                          /\ table[i].peer = q
        BY <2>2, <2>4
      <3>2. QED
        BY <1>2, <2>2, <2>3, <2>4, <3>1
    <2>5. ASSUME s.bits \in {ACK, PSH_ACK}, Left(p)' # {} PROVE Left(p) # {}
      <3>1. x.peer = p => /\ x.status = NOT_CONNECTED => ~IsOpen(i)
                          /\ table[i].peer = p
        BY <2>2, <2>5
      <3>2. QED
        BY <1>2, <2>2, <2>3, <2>5, <3>1
    <2>6. ASSUME s.bits = SYN, Left(p)' # {} PROVE FALSE
      <3>1. PICK k \in Slots : ~IsOpen(k)' /\ table'[k].peer = p /\ table'[k].io = 1
        BY <2>6 DEF Left
      <3>2. k # i
        BY <1>0, <2>2, <2>3, <2>6, <3>1 DEF IsOpen
      <3>3. table[k].peer = p /\ table[k].io = 1
        BY <1>0, <2>3, <3>1, <3>2
      <3>4. Found(table, p, k)
        BY <3>3 DEF TableInv, KeyInv
      <3>5. Found(table, p, i)
        BY <1>4, <3>3 DEF Selected, Unknown
      <3>6. QED
        BY <3>2, <3>4, <3>5, FoundOnce
    <2>7. QED
      BY <2>4, <2>5, <2>6
  <1>5. Refuses(p) => sent' = <<>>
    BY DEF Refuses
  <1>6. QED
    BY <1>0, <1>1, <1>3, <1>4, <1>5, ReceiveCases

\* The octet of a segment is printed, unless the segment is refused or its slot is half open.
LEMMA ReceivePrints ==
  ASSUME TableInv, NEW p \in Peers, NEW s, Sendable(p, s), Receive(s), s.len = 1
  PROVE  \/ printed' # <<>>
         \/ sent' = <<>> /\ Rows(p) = {}
         \/ s.bits = ACK /\ sent' = <<>> /\ \E row \in Rows(p) : row.status = SYN_RCVD
  <1>1. s.peer = p /\ s.bits \in {ACK, PSH_ACK} /\ Int8(s.len) = 1
    BY DEF Sendable, Int8
  <1>2. \A e : s.bits = PSH_ACK \/ e.status = ACTIVE => PayloadOctets(e, s) > 0
    BY <1>1 DEF PayloadOctets
  <1>3. CASE ReceiveLimitReached(s)
    <2>1. Rows(p) = {}
      BY <1>1, <1>3 DEF ReceiveLimitReached, LimitReached, Unknown, Rows
    <2>2. QED
      BY <1>3, <2>1 DEF ReceiveLimitReached
  <1>4. ASSUME NEW i \in Slots, Selected(table, p, i), Output(table[i], s),
               sent' = <<>> \/ PayloadStatus(table[i], s) # TCP_NONE
        PROVE  \/ printed' # <<>>
               \/ sent' = <<>> /\ Rows(p) = {}
               \/ s.bits = ACK /\ sent' = <<>> /\ \E row \in Rows(p) : row.status = SYN_RCVD
    <2>1. CASE s.bits = PSH_ACK \/ table[i].status = ACTIVE
      BY <1>2, <1>4, <2>1 DEF Output
    <2>2. CASE s.bits = ACK /\ table[i].status # ACTIVE
      <3>1. PayloadStatus(table[i], s) = TCP_NONE
        BY <2>2 DEF PayloadStatus
      <3>2. sent' = <<>>
        BY <1>4, <3>1
      <3>3. CASE ~IsOpen(i)
        <4>1. ASSUME NEW k \in Slots, IsOpen(k), table[k].peer = p PROVE FALSE
          <5>1. Found(table, p, k)
            BY <4>1 DEF TableInv, KeyInv, IsOpen
          <5>2. Found(table, p, i)
            BY <1>4, <4>1 DEF Selected, Unknown
          <5>3. QED
            BY <3>3, <4>1, <5>1, <5>2, FoundOnce
        <4>2. QED
          BY <3>2, <4>1 DEF Rows
      <3>4. CASE IsOpen(i)
        <4>1. table[i].peer = p
          BY <1>4, <3>4 DEF Selected, Found, FirstFree, IsOpen
        <4>2. table[i] \in Rows(p) /\ table[i].status = SYN_RCVD
          <5>1. table[i] \in Entry
            BY DEF TableInv, TableType
          <5>2. table[i].status \in {NOT_CONNECTED, ACTIVE, SYN_RCVD}
            BY <5>1 DEF Entry, Statuses
          <5>3. QED
            BY <2>2, <3>4, <4>1, <5>2 DEF Rows, IsOpen
        <4>3. QED
          BY <2>2, <3>2, <4>2
      <3>5. QED
        BY <3>3, <3>4
    <2>3. QED
      BY <1>1, <2>1, <2>2
  <1>5. CASE ReceiveNoReply(s)
    BY <1>1, <1>4, <1>5 DEF ReceiveNoReply
  <1>6. CASE ReceiveReply(s) \/ ReceiveFinAck(s)
    <2>1. PICK i \in Slots : /\ Selected(table, p, i) /\ Output(table[i], s)
                             /\ PayloadStatus(table[i], s) # TCP_NONE
      BY <1>1, <1>6 DEF ReceiveReply, ReceiveFinAck
    <2>2. QED
      BY <1>4, <2>1
  <1>7. QED
    BY <1>3, <1>5, <1>6 DEF Receive

\* An ACK ends the handshake of its slot, and data leaves the status of its slot alone.
LEMMA ReceiveStatus ==
  ASSUME TableInv, NEW p \in Peers, NEW s, Sendable(p, s), Receive(s)
  PROVE  /\ s.bits = ACK => \A row \in Rows(p)' : row.status # SYN_RCVD
         /\ s.bits = PSH_ACK =>
               \A row2 \in Rows(p)' : \E row \in Rows(p) : row2.status = row.status
  <1>. SUFFICES ASSUME s.bits \in {ACK, PSH_ACK}, NEW k \in Slots,
                       IsOpen(k)', table'[k].peer = p
                PROVE  /\ s.bits = ACK => table'[k].status # SYN_RCVD
                       /\ s.bits = PSH_ACK =>
                             \E row \in Rows(p) : table'[k].status = row.status
    BY DEF Rows
  <1>0. table \in [Slots -> Entry] /\ s \in Segment
    BY DEF TableInv, TableType, Sendable
  <1>1. CASE Refuses(p)
    BY <1>1 DEF Refuses, LimitReached, Unknown
  <1>2. ASSUME NEW i \in Slots, Selected(table, p, i), Records(s, i)
        PROVE  /\ s.bits = ACK => table'[k].status # SYN_RCVD
               /\ s.bits = PSH_ACK => \E row \in Rows(p) : table'[k].status = row.status
    <2>1. table' = [table EXCEPT ![i] = PayloadEntry(table[i], s)]
      BY <1>2 DEF Records
    <2>2. CASE k = i
      <3>1. table'[k] = PayloadEntry(table[i], s) /\ table[i] \in Entry
        BY <1>0, <2>1, <2>2
      <3>2. ASSUME s.bits = ACK PROVE table'[k].status # SYN_RCVD
        <4>1. table'[k] = AckEntry(table[i], s)
          BY <3>1, <3>2 DEF PayloadEntry
        <4>2. AckEntry(table[i], s).status \in {NOT_CONNECTED, ACTIVE}
          BY <3>1 DEF AckEntry, RecordSeq, Entry
        <4>3. QED
          BY <4>1, <4>2
      <3>3. ASSUME s.bits = PSH_ACK
            PROVE  table'[k].status = table[i].status /\ table'[k].peer = table[i].peer
        <4>1. table'[k] = RecordSeq(table[i], s, Int8(s.len))
          BY <3>1, <3>3 DEF PayloadEntry
        <4>2. QED
          BY <3>1, <4>1 DEF RecordSeq, Entry
      <3>4. s.bits = PSH_ACK => table[i] \in Rows(p)
        BY <2>2, <3>3 DEF Rows, IsOpen
      <3>5. QED
        BY <3>2, <3>3, <3>4
    <2>3. CASE k # i
      <3>1. table'[k] = table[k]
        BY <1>0, <2>1, <2>3
      <3>2. IsOpen(k) /\ table[k].peer = p
        BY <3>1 DEF IsOpen
      <3>3. Found(table, p, k)
        BY <3>2 DEF TableInv, KeyInv, IsOpen
      <3>4. Found(table, p, i)
        BY <1>2, <3>2 DEF Selected, Unknown
      <3>5. QED
        BY <2>3, <3>3, <3>4, FoundOnce
    <2>4. QED
      BY <2>2, <2>3
  <1>3. QED
    BY <1>1, <1>2, ReceiveCases DEF Ends

\* The record of what was printed.
GotTyped == got \in [Peers -> Seq(Seqs)]

LEMMA ToSetAppend ==
  ASSUME NEW q \in Seq(Seqs), NEW n \in Seqs
  PROVE  ToSet(q) \subseteq ToSet(Append(q, n)) /\ n \in ToSet(Append(q, n))
  <1>1. DOMAIN q = 1 .. Len(q) /\ DOMAIN Append(q, n) = 1 .. Len(Append(q, n))
    BY AppendAt
  <1>2. QED
    BY <1>1, AppendAt DEF ToSet

LEMMA ReceiveGot ==
  ASSUME SessionTypes, GotTyped, NEW p \in Peers, StackReceive(p)
  PROVE  /\ GotTyped'
         /\ \A q \in Peers : /\ Octets(q) \subseteq Octets(q)'
                             /\ q # p => Octets(q)' = Octets(q)
         /\ printed' # <<>> => Head(toStack[p]).seq \in Octets(p)'
  <1> DEFINE n == Head(toStack[p]).seq
  <1>1. n \in Seqs
    <2>1. toStack[p] \in Seq(Segment) /\ toStack[p] # <<>>
      BY DEF SessionTypes, LinksTyped, StackReceive
    <2>2. Head(toStack[p]) \in Segment
      BY <2>1, TailAt
    <2>3. QED
      BY <2>2 DEF Segment
  <1>2. got[p] \in Seq(Seqs) /\ got \in [Peers -> Seq(Seqs)]
    BY DEF GotTyped
  <1>3. Append(got[p], n) \in Seq(Seqs)
    BY <1>1, <1>2
  <1>4. \/ got' = got /\ (printed' # <<>> => Twice(got[p], n))
        \/ got' = [got EXCEPT ![p] = Append(got[p], n)]
    BY DEF StackReceive
  <1>. HIDE DEF n
  <1>5. CASE got' = [got EXCEPT ![p] = Append(got[p], n)]
    <2>1. GotTyped'
      BY <1>2, <1>3, <1>5 DEF GotTyped
    <2>2. \A q \in Peers : got'[q] = IF q = p THEN Append(got[p], n) ELSE got[q]
      BY <1>2, <1>5
    <2>3. Octets(p) \subseteq Octets(p)' /\ n \in Octets(p)'
      BY <1>1, <1>2, <2>2, ToSetAppend DEF Octets
    <2>4. \A q \in Peers : q # p => Octets(q)' = Octets(q)
      BY <2>2 DEF Octets
    <2>5. QED
      BY <2>1, <2>3, <2>4 DEF n
  <1>6. CASE got' = got /\ (printed' # <<>> => Twice(got[p], n))
    <2>1. Twice(got[p], n) => n \in ToSet(got[p])
      <3>1. Len(got[p]) \in Nat /\ DOMAIN got[p] = 1 .. Len(got[p])
        BY <1>2
      <3>2. Twice(got[p], n) => /\ Len(got[p]) \in DOMAIN got[p]
                                /\ got[p][Len(got[p])] = n
        BY <3>1 DEF Twice
      <3>3. QED
        BY <3>2 DEF ToSet
    <2>2. QED
      BY <1>6, <2>1 DEF GotTyped, Octets, n
  <1>7. QED
    BY <1>4, <1>5, <1>6

\* A segment of a peer is read: its own links, slots and octets change, nobody else's.
LEMMA ReceiveKeeps ==
  ASSUME SessionTypes, GotTyped, SessionInv, PromiseInv, Calm, NEW p \in Peers,
         StackReceive(p), NEW q \in Peers
  PROVE  Keeps(peer[q], toStack'[q], toPeer'[q], Rows(q)', Left(q)', Octets(q)', losses = 0)
  <1> DEFINE s == Head(toStack[p])
  <1>1. /\ TableInv /\ peer[p] \in PeerState
        /\ toStack[p] \in Seq(Segment) /\ toPeer[p] \in Seq(SentSegment)
    BY DEF SessionTypes, LinksTyped, FramesTyped
  <1>2. /\ Fine(peer[p], toStack[p], toPeer[p], Rows(p), losses = 0)
        /\ Keeps(peer[p], toStack[p], toPeer[p], Rows(p), Left(p), Octets(p), losses = 0)
        /\ Keeps(peer[q], toStack[q], toPeer[q], Rows(q), Left(q), Octets(q), losses = 0)
    BY DEF SessionInv, PromiseInv
  <1>3. /\ toStack[p] # <<>> /\ Receive(s) /\ Sendable(p, s)
        /\ toStack'[p] = Tail(toStack[p])
        /\ \A k \in Peers : k # p => toStack'[k] = toStack[k] /\ toPeer'[k] = toPeer[k]
        /\ \/ toPeer'[p] = toPeer[p] /\ sent' = <<>>
           \/ s.bits = FIN_ACK
           \/ \E r \in SentSegment :
                 /\ toPeer'[p] = Append(toPeer[p], r) /\ sent' # <<>>
                 /\ s.bits = SYN => r.bits = SYN_ACK /\ r.ack = Wrap(s.seq + 1)
                 /\ s.bits \in {ACK, PSH_ACK} => /\ r.bits = ACK /\ s.len = 1
                                                 /\ r.ack = Wrap(s.seq + s.len)
    BY ReceiveLinks
  <1>4. /\ \A k \in Peers : k # p => Rows(k)' = Rows(k)
        /\ s.bits # SYN /\ Rows(p) = {} => Rows(p)' = {}
        /\ s.bits \in {ACK, PSH_ACK} =>
              \A row \in Rows(p)' : row.next_seq = Wrap(s.seq + s.len)
    BY <1>1, <1>3, ReceiveRows
  <1>5. s \in Segment /\ s.bits \in {SYN, ACK, FIN_ACK, PSH_ACK} /\ s.len \in {0, 1}
        /\ (s.bits = PSH_ACK => s.len = 1)
    BY <1>3 DEF Sendable
  <1>6. /\ \A k \in Peers : k # p => (Left(k) = {} => Left(k)' = {})
        /\ s.bits \in {ACK, PSH_ACK} => (Left(p) = {} => Left(p)' = {})
        /\ s.bits = SYN /\ sent' # <<>> => Left(p)' = {}
    BY <1>1, <1>3, ReceiveLeft
  <1>7. /\ \A k \in Peers : /\ Octets(k) \subseteq Octets(k)'
                            /\ k # p => Octets(k)' = Octets(k)
        /\ printed' # <<>> => s.seq \in Octets(p)'
    BY ReceiveGot
  <1>8. /\ s.len = 1 =>
              \/ printed' # <<>>
              \/ sent' = <<>> /\ Rows(p) = {}
              \/ s.bits = ACK /\ sent' = <<>> /\ \E row \in Rows(p) : row.status = SYN_RCVD
        /\ s.bits = ACK => \A row \in Rows(p)' : row.status # SYN_RCVD
        /\ s.bits = PSH_ACK =>
              \A row2 \in Rows(p)' : \E row \in Rows(p) : row2.status = row.status
    BY <1>1, <1>3, ReceivePrints, ReceiveStatus
  <1>. HIDE DEF s
  <1>9. CASE q # p
    BY <1>2, <1>3, <1>4, <1>6, <1>7, <1>9 DEF Keeps, Opening, InRange
  <1>10. CASE q = p
    <2>1. ASSUME NEW e, e = peer[p], NEW in, in = toStack[p], NEW out, out = toPeer[p],
                 NEW rows, rows = Rows(p), NEW left, left = Left(p), NEW g, g = Octets(p),
                 NEW kept, kept = (losses = 0),
                 NEW out2, out2 = toPeer'[p], NEW rows2, rows2 = Rows(p)',
                 NEW left2, left2 = Left(p)', NEW g2, g2 = Octets(p)'
          PROVE  Keeps(e, Tail(in), out2, rows2, left2, g2, kept)
      <3>1. /\ e \in PeerState /\ in \in Seq(Segment) /\ in # <<>> /\ s = Head(in)
            /\ out \in Seq(SentSegment)
            /\ Fine(e, in, out, rows, kept) /\ Keeps(e, in, out, rows, left, g, kept)
            /\ g \subseteq g2
        BY <1>1, <1>2, <1>3, <1>7, <2>1 DEF s
      <3>2. CASE s.bits = SYN
        <4>1. \/ out2 = out
              \/ left2 = {} /\ \E r \in SentSegment : /\ out2 = Append(out, r)
                                                  /\ r.ack = Wrap(s.seq + 1)
          BY <1>3, <1>6, <2>1, <3>2
        <4>2. QED
          BY <3>1, <3>2, <4>1, SynKeeps
      <3>3. ASSUME s.bits # SYN PROVE e.st # "syn_sent"
        BY <3>1, <3>3, TailAt DEF Fine, Handshake
      <3>4. CASE s.bits # SYN /\ ~Sending(e)
        BY <3>1, <3>3, <3>4, IdleKeeps
      <3>5. CASE s.bits # SYN /\ Sending(e)
        <4>1. /\ s.bits \in {ACK, PSH_ACK} /\ s = in[1]
              /\ Confirms(e, in, rows, kept)
          BY <3>1, <3>5, TailAt DEF Keeps, InRange
        <4>2. /\ rows = {} => rows2 = {}
              /\ \A row \in rows2 : row.next_seq = Wrap(Head(in).seq + Head(in).len)
              /\ left = {} => left2 = {}
              /\ Head(in).len \in {0, 1}
          BY <1>4, <1>5, <1>6, <2>1, <3>1, <3>5, <4>1
        <4>3. kept => \A row \in rows2 : row.status # SYN_RCVD
          BY <1>8, <2>1, <3>5, <4>1 DEF Confirms
        <4>4. CASE s.len = 0 \/ printed' = <<>>
          <5>1. out2 = out
            BY <1>3, <1>5, <1>8, <2>1, <4>1, <4>4
          <5>2. kept => Head(in).len = 0 \/ rows2 = {}
            BY <1>5, <1>8, <2>1, <3>1, <3>5, <4>1, <4>2, <4>4 DEF Confirms
          <5>3. QED
            BY <3>1, <3>5, <4>2, <4>3, <5>1, <5>2, SilentKeeps
        <4>5. CASE s.len = 1 /\ printed' # <<>>
          <5>1. /\ Head(in).len = 1 /\ Head(in).seq \in g2
                /\ \A row \in rows2 : row.next_seq = Wrap(Head(in).seq + 1)
            BY <1>7, <2>1, <3>1, <4>2, <4>5
          <5>2. \/ out2 = out
                \/ \E r \in SentSegment :
                      out2 = Append(out, r) /\ r.ack = Wrap(Head(in).seq + 1)
            BY <1>3, <2>1, <3>1, <4>1, <4>5
          <5>3. QED
            BY <3>1, <3>5, <4>2, <4>3, <5>1, <5>2, PrintKeeps
        <4>6. QED
          BY <1>5, <4>4, <4>5
      <3>6. QED
        BY <3>2, <3>4, <3>5
    <2>2. QED
      BY <1>3, <1>10, <2>1
  <1>11. QED
    BY <1>9, <1>10

\* A line leaves no closed slot in write mode that was not there. What it sends comes from
\* such a slot, or has the number an open one recorded.
LEMMA LineSends ==
  ASSUME TableInv, NEW l \in Lines, UserLine(l), NEW q \in Peers
  PROVE  /\ Left(q) = {} => Left(q)' = {}
         /\ \/ sent' = <<>>
            \/ \E r \in SentSegment :
                  /\ sent' = <<r>> /\ r.bits # SYN_ACK
                  /\ r.peer = q => Left(q) # {} \/ \E row \in Rows(q) : r.ack = row.next_seq
  <1>1. table \in [Slots -> Entry]
    BY DEF TableInv, TableType
  <1>2. /\ \A i \in Slots : Spares(i)
        /\ sent' = <<>> \/ \E i \in Slots : SendsFrom(i)
    BY LineCases
  <1>3. ASSUME Left(q)' # {} PROVE Left(q) # {}
    <2>1. PICK k \in Slots : ~IsOpen(k)' /\ table'[k].peer = q /\ table'[k].io = 1
      BY <1>3 DEF Left
    <2>2. ~IsOpen(k) /\ table[k].peer = q /\ table[k].io = 1
      BY <1>2, <2>1 DEF Spares, IsOpen
    <2>3. QED
      BY <2>2 DEF Left
  <1>4. ASSUME NEW i \in Slots, SendsFrom(i)
        PROVE  \E r \in SentSegment :
                  /\ sent' = <<r>> /\ r.bits # SYN_ACK
                  /\ r.peer = q => Left(q) # {} \/ \E row \in Rows(q) : r.ack = row.next_seq
    <2>1. PICK n \in Nat : n <= 1024 /\ sent' = <<CreatedSegment(table[i], n)>>
      BY <1>4 DEF SendsFrom
    <2> DEFINE r == CreatedSegment(table[i], n)
    <2>2. /\ r \in SentSegment /\ r.peer = table[i].peer /\ r.ack = table[i].next_seq
          /\ r.bits # SYN_ACK
      BY <1>1, <2>1, CreatedEffect DEF CreatedSegment
    <2>3. table[i].peer = q => table[i] \in Rows(q) \/ Left(q) # {}
      BY <1>4 DEF SendsFrom, Rows, Left
    <2>4. QED
      BY <2>1, <2>2, <2>3
  <1>5. QED
    BY <1>2, <1>3, <1>4

LEMMA LineKeepsAll ==
  ASSUME SessionTypes, SessionInv, PromiseInv, losses = 0, NEW l \in Lines, StackUserLine(l),
         NEW q \in Peers
  PROVE  Keeps(peer[q], toStack'[q], toPeer'[q], Rows(q)', Left(q)', Octets(q)', TRUE)
  <1>1. TableInv /\ toPeer \in [Peers -> Seq(SentSegment)] /\ toPeer[q] \in Seq(SentSegment)
    BY DEF SessionTypes, FramesTyped
  <1>2. /\ Fine(peer[q], toStack[q], toPeer[q], Rows(q), TRUE)
        /\ Keeps(peer[q], toStack[q], toPeer[q], Rows(q), Left(q), Octets(q), TRUE)
    <2>1. (losses = 0) = TRUE
      OBVIOUS
    <2>2. QED
      BY <2>1 DEF SessionInv, PromiseInv, Calm
  <1>3. UserLine(l) /\ Transmit /\ toStack' = toStack /\ got' = got
    BY DEF StackUserLine
  <1>4. /\ \A row2 \in Rows(q)' : \E row \in Rows(q) : /\ row2.status = row.status
                                                        /\ row2.next_seq = row.next_seq
        /\ Left(q) = {} => Left(q)' = {}
    BY <1>1, <1>3, UserRows, LineSends
  <1>5. \/ toPeer'[q] = toPeer[q]
        \/ \E r \in SentSegment :
              /\ toPeer'[q] = Append(toPeer[q], r) /\ r.bits # SYN_ACK
              /\ Left(q) # {} \/ \E row \in Rows(q) : r.ack = row.next_seq
    <2>1. /\ sent' = <<>> => toPeer'[q] = toPeer[q]
          /\ \A r \in SentSegment : sent' = <<r>> =>
                toPeer'[q] = IF r.peer = q THEN Append(toPeer[q], r) ELSE toPeer[q]
      BY <1>1, <1>3, TransmitOne
    <2>2. \/ sent' = <<>>
          \/ \E r \in SentSegment :
                /\ sent' = <<r>> /\ r.bits # SYN_ACK
                /\ r.peer = q => Left(q) # {} \/ \E row \in Rows(q) : r.ack = row.next_seq
      BY <1>1, <1>3, LineSends
    <2>3. QED
      BY <2>1, <2>2
  <1>6. Octets(q)' = Octets(q)
    BY <1>3 DEF Octets
  <1>7. ASSUME NEW e, e = peer[q], NEW in, in = toStack[q], NEW out, out = toPeer[q],
               NEW rows, rows = Rows(q), NEW left, left = Left(q), NEW g, g = Octets(q),
               NEW out2, out2 = toPeer'[q], NEW rows2, rows2 = Rows(q)',
               NEW left2, left2 = Left(q)'
        PROVE  Keeps(e, in, out2, rows2, left2, g, TRUE)
    <2>1. /\ Fine(e, in, out, rows, TRUE) /\ Keeps(e, in, out, rows, left, g, TRUE)
          /\ out \in Seq(SentSegment)
          /\ \A row2 \in rows2 : \E row \in rows : /\ row2.status = row.status
                                                    /\ row2.next_seq = row.next_seq
          /\ (left = {} => left2 = {})
          /\ \/ out2 = out
             \/ \E r \in SentSegment :
                   /\ out2 = Append(out, r) /\ r.bits # SYN_ACK
                   /\ left # {} \/ \E row \in rows : r.ack = row.next_seq
      BY <1>1, <1>2, <1>4, <1>5, <1>7
    <2>2. QED
      BY <2>1, LineKeeps
  <1>8. QED
    BY <1>3, <1>6, <1>7
-----------------------------------------------------------------------------
(* The steps of a peer and of its links, in the state.                     *)

LEMMA KnownKeeps ==
  ASSUME NEW p \in Peers, Known, PromiseInv
  PROVE  /\ Left(p)' = Left(p) /\ (got' = got => Octets(p)' = Octets(p))
         /\ Keeps(peer[p], toStack[p], toPeer[p], Rows(p), Left(p), Octets(p), losses = 0)
  <1>1. table' = table /\ Calm
    BY DEF Known
  <1>2. QED
    BY <1>1 DEF Left, IsOpen, Octets, PromiseInv

LEMMA ConnectPromises ==
  ASSUME NEW p \in Peers, Known, PromiseInv, PeerConnect(p)
  PROVE  Keeps(peer'[p], toStack'[p], toPeer'[p], Rows(p)', Left(p)', Octets(p)', losses' = 0)
  <1>1. peer'[p] \in PeerState /\ peer \in [Peers -> PeerState]
    BY KnownFine
  <1>2. peer'[p].st = "syn_sent" /\ toPeer'[p] = <<>>
    BY <1>1 DEF PeerConnect, LinkIdle
  <1>3. QED
    BY <1>1, <1>2, ConnectKeeps

LEMMA SendPromises ==
  ASSUME NEW p \in Peers, Known, PromiseInv, PeerSend(p)
  PROVE  Keeps(peer'[p], toStack'[p], toPeer'[p], Rows(p)', Left(p)', Octets(p)', losses' = 0)
  <1> DEFINE e == peer[p]
             f == peer'[p]
  <1>1. /\ e \in PeerState /\ f \in PeerState /\ peer \in [Peers -> PeerState]
        /\ toStack[p] \in Seq(Segment) /\ toPeer[p] \in Seq(SentSegment)
        /\ Rows(p) \in SUBSET Entry /\ Rows(p)' = Rows(p)
    BY KnownFine
  <1>2. /\ e.st \in {"established", "close_wait"} /\ Gap(e.data, e.nxt) < MaxOctets
        /\ Gap(e.una, e.nxt) < Window
        /\ toPeer' = toPeer /\ losses' = losses /\ got' = got
        /\ f = [e EXCEPT !.nxt = Wrap(e.nxt + 1)]
    BY <1>1 DEF PeerSend
  <1>3. /\ Left(p)' = Left(p) /\ Octets(p)' = Octets(p)
        /\ Keeps(e, toStack[p], toPeer[p], Rows(p), Left(p), Octets(p), losses = 0)
    BY <1>2, KnownKeeps
  <1>4. PICK bits \in DataBits : Send(p, Seg(p, bits, e.nxt, e.rcv, 1))
    BY DEF PeerSend
  <1>5. bits \in {ACK, PSH_ACK} /\ e.nxt \in Seqs /\ e.rcv \in Seqs
    BY <1>1, DataBitsAssumption DEF PeerState
  <1>6. PICK s \in Segment : /\ toStack'[p] = Append(toStack[p], s)
                             /\ s.bits \in {ACK, PSH_ACK} /\ s.seq = e.nxt /\ s.len = 1
    BY <1>4, <1>5, Sends
  <1>. HIDE DEF e, f
  <1>7. (StopAndWait => e.una = e.nxt) /\ Sending(e)
    BY <1>1, <1>2, NothingPending DEF Sending
  <1>8. Keeps(f, Append(toStack[p], s), toPeer[p], Rows(p), Left(p), Octets(p), losses = 0)
    BY <1>1, <1>2, <1>3, <1>6, <1>7, SendKeeps
  <1>9. QED
    BY <1>1, <1>2, <1>3, <1>6, <1>8 DEF f

LEMMA ClosePromises ==
  ASSUME NEW p \in Peers, Known, PromiseInv, PeerClose(p)
  PROVE  Keeps(peer'[p], toStack'[p], toPeer'[p], Rows(p)', Left(p)', Octets(p)', losses' = 0)
  <1> DEFINE e == peer[p]
             f == peer'[p]
  <1>1. /\ e \in PeerState /\ f \in PeerState /\ peer \in [Peers -> PeerState]
        /\ Rows(p)' = Rows(p)
    BY KnownFine
  <1>2. /\ toPeer' = toPeer /\ losses' = losses /\ got' = got /\ Gap(e.una, e.nxt) < Window
        /\ \/ /\ e.st = "established"
              /\ peer' = [peer EXCEPT ![p].st = "fin_wait_1", ![p].nxt = Wrap(@ + 1)]
           \/ /\ e.st = "close_wait"
              /\ peer' = [peer EXCEPT ![p].st = "last_ack", ![p].nxt = Wrap(@ + 1)]
    BY DEF PeerClose
  <1>3. /\ f.nxt = Wrap(e.nxt + 1) /\ f.data = e.data /\ Sending(e)
        /\ f.st \in {"fin_wait_1", "last_ack"}
    BY <1>1, <1>2 DEF PeerState, Sending
  <1>4. /\ Left(p)' = Left(p) /\ Octets(p)' = Octets(p)
        /\ Keeps(e, toStack[p], toPeer[p], Rows(p), Left(p), Octets(p), losses = 0)
    BY <1>2, KnownKeeps
  <1>. HIDE DEF e, f
  <1>5. StopAndWait => e.una = e.nxt
    BY <1>1, <1>2, NothingPending
  <1>6. Keeps(f, toStack'[p], toPeer[p], Rows(p), Left(p), Octets(p), losses = 0)
    BY <1>1, <1>3, <1>4, <1>5, CloseKeeps
  <1>7. QED
    BY <1>1, <1>2, <1>4, <1>6 DEF f

LEMMA RetransmitPromises ==
  ASSUME NEW p \in Peers, Known, PromiseInv, PeerRetransmit(p)
  PROVE  Keeps(peer'[p], toStack'[p], toPeer'[p], Rows(p)', Left(p)', Octets(p)', losses' = 0)
  <1> DEFINE e == peer[p]
  <1>1. e \in PeerState /\ Rows(p)' = Rows(p)
    BY KnownFine
  <1>2. /\ toStack[p] = <<>> /\ toPeer[p] = <<>> /\ e.una # e.nxt
        /\ peer' = peer /\ toPeer' = toPeer /\ losses' = losses /\ got' = got
    BY DEF PeerRetransmit, LinkIdle
  <1>3. /\ Left(p)' = Left(p) /\ Octets(p)' = Octets(p)
        /\ Keeps(e, <<>>, <<>>, Rows(p), Left(p), Octets(p), losses = 0)
    BY <1>2, KnownKeeps
  <1>4. e.una \in Seqs /\ e.rcv \in Seqs /\ 0 \in Seqs
    BY <1>1, SeqSpaceAssumption DEF PeerState, Seqs
  <1>5. \E s \in Segment : /\ toStack'[p] = Append(<<>>, s)
                           /\ Sending(e) => /\ s.bits \in {ACK, PSH_ACK} /\ s.len = 1
                                            /\ s.seq = e.una
    <2>1. CASE e.st = "syn_sent" /\ Send(p, Seg(p, SYN, e.una, 0, 0))
      BY <1>2, <1>4, <2>1, Sends DEF Sending
    <2>2. CASE Closing(e) /\ Send(p, Seg(p, FIN_ACK, e.una, e.rcv, 0))
      BY <1>2, <1>4, <2>2, Sends DEF Sending, Closing
    <2>3. CASE \E bits \in DataBits : Send(p, Seg(p, bits, e.una, e.rcv, 1))
      <3>1. PICK bits \in DataBits : Send(p, Seg(p, bits, e.una, e.rcv, 1))
        BY <2>3
      <3>2. bits \in {ACK, PSH_ACK}
        BY DataBitsAssumption
      <3>3. QED
        BY <1>2, <1>4, <3>1, <3>2, Sends
    <2>4. QED
      BY <2>1, <2>2, <2>3 DEF PeerRetransmit
  <1>. HIDE DEF e
  <1>6. Keeps(e, toStack'[p], <<>>, Rows(p), Left(p), Octets(p), losses = 0)
    BY <1>1, <1>2, <1>3, <1>5, RetransmitKeeps
  <1>7. QED
    BY <1>1, <1>2, <1>3, <1>6 DEF e

LEMMA TakePromises ==
  ASSUME NEW p \in Peers, Known, PromiseInv, PeerReceive(p)
  PROVE  Keeps(peer'[p], toStack'[p], toPeer'[p], Rows(p)', Left(p)', Octets(p)', losses' = 0)
  <1> DEFINE e == peer[p]
             f == peer'[p]
             in == toStack[p]
             out == toPeer[p]
             r == Head(toPeer[p])
             left == Left(p)
             oct == Octets(p)
             kept == losses = 0
             ack(h) == Send(p, Seg(p, ACK, h.nxt, h.rcv, 0))
  <1>1. /\ e \in PeerState /\ f \in PeerState /\ peer \in [Peers -> PeerState]
        /\ in \in Seq(Segment) /\ out \in Seq(SentSegment)
        /\ Rows(p) \in SUBSET Entry
        /\ Fine(e, in, out, Rows(p), kept) /\ Rows(p)' = Rows(p)
    BY KnownFine
  <1>2. /\ out # <<>> /\ toPeer'[p] = Tail(out) /\ losses' = losses /\ got' = got
    BY KnownFine DEF PeerReceive
  <1>3. /\ Left(p)' = left /\ Octets(p)' = oct
        /\ Keeps(e, in, out, Rows(p), left, oct, kept)
    BY <1>2, KnownKeeps
  <1>4. ASSUME NEW h \in PeerState, ack(h)
        PROVE  \E s \in Segment : /\ toStack'[p] = Append(in, s)
                                  /\ s.bits = ACK /\ s.seq = h.nxt /\ s.len = 0
    <2>1. h.nxt \in Seqs /\ h.rcv \in Seqs
      BY DEF PeerState
    <2>2. QED
      BY <1>4, <2>1, Sends
  <1>5. ASSUME NEW h \in PeerState, Keeps(h, in, out, Rows(p), left, oct, kept), f = h,
               ack(h) \/ toStack' = toStack
        PROVE  Keeps(f, toStack'[p], toPeer'[p], Rows(p)', Left(p)', Octets(p)', losses' = 0)
    <2>. HIDE DEF f, in, out, left, oct, kept
    <2>1. Keeps(h, in, Tail(out), Rows(p), left, oct, kept)
      BY <1>1, <1>2, <1>5, DropKeeps
    <2>2. CASE ack(h)
      <3>1. PICK s \in Segment : /\ toStack'[p] = Append(in, s)
                                 /\ s.bits = ACK /\ s.seq = h.nxt /\ s.len = 0
        BY <1>4, <2>2
      <3>2. Keeps(h, Append(in, s), Tail(out), Rows(p), left, oct, kept)
        BY <1>1, <2>1, <3>1, AckKeeps
      <3>3. QED
        BY <1>1, <1>2, <1>3, <1>5, <3>1, <3>2 DEF kept
    <2>3. CASE toStack' = toStack
      BY <1>1, <1>2, <1>3, <1>5, <2>1, <2>3 DEF kept, in
    <2>4. QED
      BY <1>5, <2>2, <2>3
  <1>6. ASSUME r.toPeerPort, InConnection(e)
        PROVE  /\ Keeps(Acknowledged(e, r), in, out, Rows(p), left, oct, kept)
               /\ Acknowledged(e, r) \in PeerState /\ Acknowledged(e, r).st # "syn_sent"
               /\ Acknowledged(e, r).nxt = e.nxt /\ Acknowledged(e, r).rcv = e.rcv
    <2>1. r = Head(out) /\ r \in SentSegment
      BY <1>1, <1>2, TailAt DEF out
    <2>2. Acknowledged(e, r) \in PeerState
      BY <1>1, <2>1, PeerTyped
    <2>3. /\ Acknowledged(e, r).st # "syn_sent"
          /\ Acknowledged(e, r).nxt = e.nxt /\ Acknowledged(e, r).rcv = e.rcv
      BY <1>1, <1>6 DEF Acknowledged, PeerState, InConnection
    <2>. HIDE DEF e, in, out, left, oct, kept, r
    <2>4. Keeps(Acknowledged(e, r), in, out, Rows(p), left, oct, kept)
      BY <1>1, <1>2, <1>3, <1>6, <2>1, TakeKeeps
    <2>5. QED
      BY <2>2, <2>3, <2>4
  <1>7. CASE UNCHANGED <<peer, toStack>>
    BY <1>1, <1>3, <1>5, <1>7
  <1>8. CASE /\ e.st = "syn_sent" /\ r.bits = SYN_ACK /\ r.ack = e.nxt
             /\ peer' = [peer EXCEPT ![p].st = "established", ![p].una = e.nxt,
                                     ![p].rcv = Wrap(r.seq + 1)]
             /\ ack(f)
    <2>1. /\ f.st = "established" /\ f.una = e.nxt /\ f.nxt = e.nxt /\ f.data = e.data
      BY <1>1, <1>8 DEF PeerState
    <2>2. PICK s \in Segment : /\ toStack'[p] = Append(in, s)
                               /\ s.bits = ACK /\ s.seq = f.nxt /\ s.len = 0
      BY <1>1, <1>4, <1>8
    <2>3. Head(out).bits = SYN_ACK /\ e.st = "syn_sent"
      BY <1>8
    <2>. HIDE DEF e, f, in, out, left, oct, kept
    <2>4. Keeps(f, Append(in, s), Tail(out), Rows(p), left, oct, kept)
      BY <1>1, <1>2, <1>3, <2>1, <2>2, <2>3, EstablishKeeps
    <2>5. QED
      BY <1>1, <1>2, <1>3, <2>2, <2>4 DEF f, kept
  <1>9. CASE /\ r.toPeerPort /\ InConnection(e)
             /\ ack(e)
             /\ \/ UNCHANGED peer
                \/ peer' = [peer EXCEPT ![p] = Acknowledged(@, r)]
    <2>1. CASE UNCHANGED peer
      BY <1>1, <1>3, <1>5, <1>9, <2>1
    <2>2. CASE peer' = [peer EXCEPT ![p] = Acknowledged(@, r)]
      <3>1. f = Acknowledged(e, r)
        BY <1>1, <2>2
      <3>2. ack(Acknowledged(e, r))
        BY <1>6, <1>9
      <3>3. QED
        BY <1>5, <1>6, <1>9, <3>1, <3>2
    <2>3. QED
      BY <1>9, <2>1, <2>2
  <1>10. CASE /\ r.toPeerPort /\ InConnection(e)
              /\ peer' = [peer EXCEPT ![p] = Accepted(Acknowledged(@, r), r)]
              /\ ack(f) \/ UNCHANGED toStack
    <2> DEFINE h == Acknowledged(e, r)
    <2>1. f = Accepted(h, r)
      BY <1>1, <1>10
    <2>2. Keeps(h, in, out, Rows(p), left, oct, kept) /\ h \in PeerState /\ h.st # "syn_sent"
      BY <1>6, <1>10
    <2>3. Keeps(Accepted(h, r), in, out, Rows(p), left, oct, kept)
      <3>. HIDE DEF h, in, out, left, oct, kept, r
      <3>1. QED
        BY <2>2, AcceptKeeps
    <2>4. QED
      BY <1>1, <1>5, <1>10, <2>1, <2>3
  <1>11. QED
    BY <1>7, <1>8, <1>9, <1>10 DEF PeerReceive

LEMMA LosePromises ==
  ASSUME NEW p \in Peers, Known, PromiseInv, Lose(p), NEW q \in Peers
  PROVE  Keeps(peer'[q], toStack'[q], toPeer'[q], Rows(q)', Left(q)', Octets(q)', losses' = 0)
  <1>1. /\ peer' = peer /\ Rows(q)' = Rows(q) /\ got' = got
        /\ toStack[q] \in Seq(Segment) /\ toPeer[q] \in Seq(SentSegment)
    BY KnownFine DEF Lose
  <1>2. /\ Left(q)' = Left(q) /\ Octets(q)' = Octets(q)
        /\ Keeps(peer[q], toStack[q], toPeer[q], Rows(q), Left(q), Octets(q), losses = 0)
    BY <1>1, KnownKeeps
  <1>3. (losses' = 0) = FALSE
    BY DEF Lose, Known, SessionTypes
  <1>4. Keeps(peer[q], toStack[q], toPeer[q], Rows(q), Left(q), Octets(q), FALSE)
    BY <1>2, LossKeeps
  <1>5. \/ toStack'[q] = toStack[q] /\ toPeer'[q] = toPeer[q]
        \/ toStack[q] # <<>> /\ toStack'[q] = Tail(toStack[q]) /\ toPeer'[q] = toPeer[q]
        \/ toPeer[q] # <<>> /\ toPeer'[q] = Tail(toPeer[q]) /\ toStack'[q] = toStack[q]
    BY KnownFine DEF Lose
  <1>6. Keeps(peer[q], toStack'[q], toPeer'[q], Rows(q), Left(q), Octets(q), FALSE)
    BY <1>1, <1>4, <1>5, LoseKeeps, DropKeeps
  <1>7. QED
    BY <1>1, <1>2, <1>3, <1>6

LEMMA PeerPromises ==
  ASSUME GotTyped, NEW p \in Peers, Known, PromiseInv,
         \/ PeerConnect(p) \/ PeerSend(p) \/ PeerClose(p) \/ PeerRetransmit(p)
         \/ PeerReceive(p) \/ Lose(p),
         NEW q \in Peers
  PROVE  Keeps(peer'[q], toStack'[q], toPeer'[q], Rows(q)', Left(q)', Octets(q)', losses' = 0)
  <1>1. CASE q = p
    BY <1>1, ConnectPromises, SendPromises, ClosePromises, RetransmitPromises, TakePromises,
       LosePromises
  <1>2. CASE Lose(p)
    BY <1>2, LosePromises
  <1>3. CASE q # p /\ ~Lose(p)
    <2>1. /\ peer \in [Peers -> PeerState] /\ toStack \in [Peers -> Seq(Segment)]
          /\ toPeer \in [Peers -> Seq(SentSegment)]
          /\ Rows(q)' = Rows(q) /\ Left(q)' = Left(q)
          /\ Keeps(peer[q], toStack[q], toPeer[q], Rows(q), Left(q), Octets(q), losses = 0)
      BY KnownFine, KnownKeeps
    <2>2. \A s : Send(p, s) => toStack'[q] = toStack[q]
      BY <1>3, <2>1 DEF Send
    <2>3. peer'[q] = peer[q] /\ toPeer'[q] = toPeer[q] /\ losses' = losses
      BY <1>3, <2>1 DEF PeerConnect, PeerSend, PeerClose, PeerRetransmit, PeerReceive
    <2>4. toStack'[q] = toStack[q]
      BY <1>3, <2>2 DEF PeerConnect, PeerSend, PeerClose, PeerRetransmit, PeerReceive
    <2>5. got'[q] = got[q]
      BY <1>3 DEF GotTyped, PeerConnect, PeerSend, PeerClose, PeerRetransmit, PeerReceive
    <2>6. QED
      BY <2>1, <2>3, <2>4, <2>5 DEF Octets
  <1>4. QED
    BY <1>1, <1>2, <1>3

\* The record of what was printed is one of octets.
LEMMA GotStep ==
  ASSUME SessionTypes, GotTyped, [SessionNext]_sessionVars
  PROVE  GotTyped'
  <1>1. CASE \E p \in Peers : StackReceive(p)
    BY <1>1, ReceiveGot
  <1>2. CASE \E p \in Peers : PeerConnect(p)
    <2>1. <<>> \in Seq(Seqs)
      OBVIOUS
    <2>2. QED
      BY <1>2, <2>1 DEF GotTyped, PeerConnect
  <1>3. CASE got' = got
    BY <1>3 DEF GotTyped
  <1>4. QED
    BY <1>1, <1>2, <1>3 DEF SessionNext, PeerSend, PeerClose, PeerRetransmit, PeerReceive,
                            Lose, StackUserLine, sessionVars

\* The invariant holds at the start and is kept by every step.
LEMMA PromiseInvInit == SessionInit => PromiseInv /\ GotTyped
  <1>. SUFFICES ASSUME SessionInit PROVE PromiseInv /\ GotTyped
    OBVIOUS
  <1>1. GotTyped
    BY DEF SessionInit, GotTyped
  <1>2. ASSUME NEW p \in Peers
        PROVE  Keeps(peer[p], toStack[p], toPeer[p], Rows(p), Left(p), Octets(p), losses = 0)
    <2>1. peer[p].st = "closed"
      BY DEF SessionInit
    <2>2. QED
      BY <2>1 DEF Keeps, Promised, OneInFlight, Opening, InWindow, InRange, Pending,
                  Delivered, Confirms, Sending, InConnection
  <1>3. QED
    BY <1>1, <1>2 DEF PromiseInv

LEMMA PromiseInvStep ==
  ASSUME SessionTypes, SessionTypes', SessionInv, GotTyped, PromiseInv,
         [SessionNext]_sessionVars
  PROVE  PromiseInv'
  <1>. SUFFICES ASSUME Calm', NEW q \in Peers
                PROVE  Keeps(peer'[q], toStack'[q], toPeer'[q], Rows(q)', Left(q)', Octets(q)',
                             losses' = 0)
    BY DEF PromiseInv
  <1>1. ASSUME NEW p \in Peers, StackReceive(p)
        PROVE  Keeps(peer'[q], toStack'[q], toPeer'[q], Rows(q)', Left(q)', Octets(q)',
                     losses' = 0)
    <2>1. peer' = peer /\ losses' = losses /\ Calm
      BY <1>1 DEF StackReceive, Calm
    <2>2. QED
      BY <1>1, <2>1, ReceiveKeeps
  <1>2. ASSUME NEW l \in Lines, StackUserLine(l)
        PROVE  Keeps(peer'[q], toStack'[q], toPeer'[q], Rows(q)', Left(q)', Octets(q)',
                     losses' = 0)
    <2>1. losses = 0 /\ peer' = peer /\ losses' = losses
      BY <1>2 DEF StackUserLine, Calm, SessionTypes
    <2>2. (losses' = 0) = TRUE
      BY <2>1
    <2>3. QED
      BY <1>2, <2>1, <2>2, LineKeepsAll
  <1>3. ASSUME NEW p \in Peers,
               \/ PeerConnect(p) \/ PeerSend(p) \/ PeerClose(p) \/ PeerRetransmit(p)
               \/ PeerReceive(p) \/ Lose(p)
        PROVE  Keeps(peer'[q], toStack'[q], toPeer'[q], Rows(q)', Left(q)', Octets(q)',
                     losses' = 0)
    <2>1. UNCHANGED table
      BY <1>3 DEF PeerConnect, PeerSend, PeerClose, PeerRetransmit, PeerReceive, Lose, vars
    <2>2. Calm
      BY <1>3 DEF PeerConnect, PeerSend, PeerClose, PeerRetransmit, PeerReceive, Lose,
                  Calm, SessionTypes
    <2>3. QED
      BY <1>3, <2>1, <2>2, PeerPromises DEF Known
  <1>4. CASE UNCHANGED sessionVars
    <2>1. Rows(q)' = Rows(q) /\ Left(q)' = Left(q) /\ Octets(q)' = Octets(q) /\ Calm
      BY <1>4 DEF sessionVars, vars, Rows, Left, Octets, IsOpen, Calm
    <2>2. QED
      BY <1>4, <2>1 DEF sessionVars, PromiseInv
  <1>5. QED
    BY <1>1, <1>2, <1>3, <1>4 DEF SessionNext

\* An acknowledgement is a promise, for every number of peers and slots and every bound
\* on what is sent, lost or typed, as long as no line follows a loss and the peers have one
\* segment in flight at a time: an octet a peer takes for delivered was written to the
\* terminal.
THEOREM AckedWasPrintedHolds ==
  ASSUME StopAndWait PROVE SessionSpec => []AckedWasPrinted
  <1> DEFINE Inv == SessionTypes /\ SessionInv /\ GotTyped /\ PromiseInv
  <1>1. Inv => AckedWasPrinted
    <2>. SUFFICES ASSUME Inv, Calm, NEW p \in Peers, InConnection(peer[p]),
                         NEW n \in AckedOctets(peer[p])
                  PROVE  n \in Octets(p)
      BY DEF AckedWasPrinted, Octets
    <2>1. Delivered(peer[p], Octets(p))
      BY DEF PromiseInv, Keeps, Promised
    <2>2. QED
      BY <2>1 DEF Delivered, AckedOctets
  <1>2. SessionInit => Inv
    BY InitTypes, SessionInvInit, PromiseInvInit
  <1>3. Inv /\ [SessionNext]_sessionVars => Inv'
    BY StepTypes, SessionInvStep, GotStep, PromiseInvStep
  <1>4. QED
    BY <1>1, <1>2, <1>3, PTL DEF SessionSpec
=============================================================================
