---------------------------- MODULE AgreeProofs ----------------------------
(***************************************************************************)
(* Proof about TcpSession that both ends of an idle connection agree on    *)
(* the numbers of both directions, for every number of peers and slots,    *)
(* every window and every bound on what is sent, lost or typed.            *)
(***************************************************************************)
EXTENDS PromiseProofs

USE DEF NOT_CONNECTED, ACTIVE, SYN_RCVD, SYN, ACK, FIN_ACK, SYN_ACK, PSH_ACK,
        TCP_NONE, TCP_REG, TCP_CLOSED, TCP_FIN_ACK

-----------------------------------------------------------------------------
(* What the two ends know of each other's numbers. A segment from a peer   *)
(* ends before the number End, and Data moves the number a peer expects.   *)
(* kept says that no frame was lost, still that no line was typed.         *)

End(s) == Wrap(s.seq + s.len)

Data(r) == r.toPeerPort /\ (r.len > 0 \/ r.bits = FIN_ACK)
NoData(out) == \A n \in 1 .. Len(out) : ~Data(out[n])

\* No segment on the link ends before the one ahead of it.
Ordered(e, in) == Sending(e) =>
    \A n \in 1 .. Len(in) :
        /\ Upto(e, End(in[n]))
        /\ \A m \in 1 .. Len(in) :
              n <= m => Gap(e.data, End(in[n])) <= Gap(e.data, End(in[m]))

\* All that the peer sent is acknowledged, or will be.
Acked(e, out) ==
    \/ e.una = e.nxt
    \/ \E n \in 1 .. Len(out) : out[n].toPeerPort /\ out[n].ack = e.nxt

ReadUpto(rows, n) == \A row \in rows : row.next_seq = n

\* The last segment on the link ends where the peer does, and with nothing under way the
\* slot has read as much. A frame the peer must take makes it say so again.
NextAgrees(e, in, out, rows) == Sending(e) /\ NoData(out) /\ Acked(e, out) =>
    IF in = <<>> THEN ReadUpto(rows, e.nxt) ELSE End(in[Len(in)]) = e.nxt

\* An active slot sends from n on.
SendsAt(rows, n) == \A row \in rows : row.status = ACTIVE => row.curr_seq = n

\* The last segment on the link tells what the peer expects; with nothing under way the
\* slot was told.
CurrAgrees(e, in, out, rows) == Sending(e) =>
    /\ in # <<>> => in[Len(in)].ack = e.rcv
    /\ in = <<>> /\ NoData(out) => SendsAt(rows, e.rcv)

\* As long as the user types nothing, the stack sends nothing the peer has to take, and
\* whatever is lost, nothing under way tells anything else.
Quiet(e, in, out, rows) ==
    /\ Sending(e) \/ e.st = "syn_sent" => NoData(out)
    /\ Sending(e) => /\ \A n \in 1 .. Len(in) : in[n].ack = e.rcv
                     /\ SendsAt(rows, e.rcv)
    /\ Sending(e) /\ Acked(e, out) => /\ \A n \in 1 .. Len(in) : End(in[n]) = e.nxt
                                      /\ ReadUpto(rows, e.nxt)

Agrees(e, in, out, rows, kept, still) ==
    /\ Ordered(e, in)
    /\ kept => NextAgrees(e, in, out, rows) /\ CurrAgrees(e, in, out, rows)
    /\ still => Quiet(e, in, out, rows)

AgreeInv ==
    Calm => \A p \in Peers : Agrees(peer[p], toStack[p], toPeer[p], Rows(p),
                                    losses = 0, lines = 0)

-----------------------------------------------------------------------------
(* The steps of a peer.                                                    *)

LEMMA EndType ==
  ASSUME NEW s \in Segment
  PROVE  End(s) \in Seqs /\ (s.len = 0 => End(s) = s.seq)
  <1>1. s.seq \in Int /\ s.len \in Int /\ s.seq \in Seqs /\ SeqSpace \in Nat \ {0}
    BY SeqSpaceAssumption DEF Segment, UInt16, Seqs
  <1>2. s.len = 0 => s.seq + s.len = s.seq
    BY <1>1
  <1>3. Wrap(s.seq) = s.seq
    BY <1>1 DEF Wrap, Seqs
  <1>4. s.seq + s.len \in Int
    BY <1>1
  <1>5. QED
    BY <1>2, <1>3, <1>4, WrapType DEF End

\* A connection that starts knows of nothing under way.
LEMMA ConnectAgrees ==
  ASSUME NEW e, e.st = "syn_sent", NEW in, NEW rows, NEW kept, NEW still
  PROVE  Agrees(e, in, <<>>, rows, kept, still)
  <1>1. Len(<<>>) = 0
    OBVIOUS
  <1>2. QED
    BY <1>1 DEF Agrees, Ordered, NextAgrees, CurrAgrees, Quiet, NoData, Sending

\* A segment that ends at the peer's last number goes behind all others.
LEMMA OrderedAppend ==
  ASSUME NEW e \in PeerState, NEW in \in Seq(Segment), Ordered(e, in),
         NEW s \in Segment, NEW f \in PeerState, f.data = e.data,
         Sending(f) => Sending(e), End(s) = f.nxt, Gap(e.data, e.nxt) <= Gap(e.data, f.nxt)
  PROVE  Ordered(f, Append(in, s))
  <1>1. /\ \A n \in 1 .. Len(in) : Append(in, s)[n] = in[n]
        /\ Append(in, s)[Len(in) + 1] = s /\ Len(in) \in Nat
        /\ \A n \in 1 .. Len(Append(in, s)) : n \in 1 .. Len(in) \/ n = Len(in) + 1
    BY AppendAt
  <1>. SUFFICES ASSUME Sending(f), NEW n \in 1 .. Len(Append(in, s))
                PROVE  /\ Gap(e.data, End(Append(in, s)[n])) <= Gap(e.data, f.nxt)
                       /\ \A m \in 1 .. Len(Append(in, s)) :
                             n <= m => Gap(e.data, End(Append(in, s)[n]))
                                         <= Gap(e.data, End(Append(in, s)[m]))
    BY DEF Ordered, Upto
  <1>2. \A k \in 1 .. Len(in) : in[k] \in Segment
    OBVIOUS
  <1>3. \A k \in 1 .. Len(in) : Gap(e.data, End(in[k])) \in Nat
    BY <1>2, EndType, Sent
  <1>4. Gap(e.data, f.nxt) \in Nat /\ Gap(e.data, e.nxt) \in Nat
    BY Sent
  <1>5. \A k \in 1 .. Len(in) : Gap(e.data, End(in[k])) <= Gap(e.data, f.nxt)
    <2>1. \A k \in 1 .. Len(in) : Gap(e.data, End(in[k])) <= Gap(e.data, e.nxt)
      BY DEF Ordered, Upto
    <2>2. QED
      BY <1>3, <1>4, <2>1
  <1>6. CASE n = Len(in) + 1
    <2>1. \A m \in 1 .. Len(in) : ~(n <= m)
      BY <1>1, <1>6
    <2>2. QED
      BY <1>1, <1>4, <1>6, <2>1
  <1>7. CASE n \in 1 .. Len(in)
    <2>1. ASSUME NEW m \in 1 .. Len(Append(in, s)), n <= m
          PROVE  Gap(e.data, End(Append(in, s)[n])) <= Gap(e.data, End(Append(in, s)[m]))
      <3>1. CASE m \in 1 .. Len(in)
        BY <1>1, <1>7, <2>1, <3>1 DEF Ordered
      <3>2. CASE m = Len(in) + 1
        BY <1>1, <1>5, <1>7, <3>2
      <3>3. QED
        BY <1>1, <3>1, <3>2
    <2>2. QED
      BY <1>1, <1>5, <1>7, <2>1
  <1>8. QED
    BY <1>1, <1>6, <1>7

\* The next octet is one nobody has read.
LEMMA SendAgrees ==
  ASSUME NEW e \in PeerState, NEW in \in Seq(Segment), NEW out \in Seq(SentSegment),
         NEW rows \in SUBSET Entry, NEW left, NEW kept, NEW still,
         Agrees(e, in, out, rows, kept, still), InRange(e, in, out, rows, left), Sending(e),
         InWindow(e), Gap(e.data, e.nxt) < MaxOctets,
         NEW s \in Segment, s.seq = e.nxt, s.len = 1, s.ack = e.rcv,
         NEW f \in PeerState, f = [e EXCEPT !.nxt = Wrap(e.nxt + 1)]
  PROVE  Agrees(f, Append(in, s), out, rows, kept, still)
  <1>1. /\ f.st = e.st /\ f.una = e.una /\ f.data = e.data /\ f.nxt = Wrap(e.nxt + 1)
        /\ f.rcv = e.rcv
    BY DEF PeerState
  <1>2. /\ e.data \in Seqs /\ e.una \in Seqs /\ e.nxt \in Seqs
        /\ Gap(e.data, e.nxt) \in Nat
        /\ \A n \in Seqs : Gap(e.data, n) \in Nat
    BY Sent
  <1>3. Gap(e.data, f.nxt) = Gap(e.data, e.nxt) + 1
    <2>1. Gap(e.data, e.nxt) + 1 < SeqSpace
      BY <1>2, Numbers
    <2>2. QED
      BY <1>1, <1>2, <2>1, GapNext
  <1>4. ASSUME NEW n \in Seqs, Upto(e, n) PROVE n # f.nxt
    BY <1>1, <1>2, <1>3, <1>4 DEF Upto
  <1>5. Ordered(f, Append(in, s))
    <2>1. End(s) = f.nxt
      BY <1>1 DEF End
    <2>2. Gap(e.data, e.nxt) <= Gap(e.data, f.nxt)
      BY <1>2, <1>3
    <2>3. Ordered(e, in)
      BY DEF Agrees
    <2>4. QED
      BY <1>1, <2>1, <2>2, <2>3, OrderedAppend DEF Sending
  <1>6. ~Acked(f, out)
    <2>1. \A n \in 1 .. Len(out) : out[n] \in SentSegment
      OBVIOUS
    <2>2. \A n \in 1 .. Len(out) : out[n].toPeerPort => out[n].ack # f.nxt
      BY <1>4, <2>1 DEF InRange, SentSegment
    <2>3. f.una # f.nxt
      BY <1>1, <1>2, <1>4 DEF InWindow, Upto
    <2>4. QED
      BY <2>2, <2>3 DEF Acked
  <1>7. /\ Append(in, s)[Len(Append(in, s))] = s /\ Append(in, s) # <<>>
        /\ \A n \in 1 .. Len(Append(in, s)) : n \in 1 .. Len(in) \/ Append(in, s)[n] = s
        /\ \A n \in 1 .. Len(in) : Append(in, s)[n] = in[n]
    OBVIOUS
  <1>8. QED
    BY <1>1, <1>5, <1>6, <1>7 DEF Agrees, NextAgrees, CurrAgrees, Quiet, Sending

\* What a closing peer knows is not needed any more.
LEMMA CloseAgrees ==
  ASSUME NEW f, f.st \in {"fin_wait_1", "last_ack"}, NEW in, NEW out, NEW rows,
         NEW kept, NEW still
  PROVE  Agrees(f, in, out, rows, kept, still)
  BY DEF Agrees, Ordered, NextAgrees, CurrAgrees, Quiet, Sending

\* A segment that ends where the peer does changes nothing for the numbers of either end.
LEMMA BehindAgrees ==
  ASSUME NEW e \in PeerState, NEW in \in Seq(Segment), NEW out, NEW rows,
         NEW kept, NEW still, Agrees(e, in, out, rows, kept, still), NEW s \in Segment,
         Sending(e) => End(s) = e.nxt /\ s.ack = e.rcv
  PROVE  Agrees(e, Append(in, s), out, rows, kept, still)
  <1>1. /\ Append(in, s)[Len(Append(in, s))] = s /\ Append(in, s) # <<>>
        /\ \A n \in 1 .. Len(Append(in, s)) : n \in 1 .. Len(in) \/ Append(in, s)[n] = s
        /\ \A n \in 1 .. Len(in) : Append(in, s)[n] = in[n]
    OBVIOUS
  <1>2. Ordered(e, Append(in, s))
    <2>1. Gap(e.data, e.nxt) <= Gap(e.data, e.nxt)
      BY Sent
    <2>2. CASE Sending(e)
      BY <2>1, <2>2, OrderedAppend DEF Agrees
    <2>3. CASE ~Sending(e)
      BY <2>3 DEF Ordered
    <2>4. QED
      BY <2>2, <2>3
  <1>3. QED
    BY <1>1, <1>2 DEF Agrees, NextAgrees, CurrAgrees, Quiet

\* A frame that is lost was not the last word of anything.
LEMMA LoseOutAgrees ==
  ASSUME NEW e, NEW in, NEW out \in Seq(SentSegment), out # <<>>, NEW rows, NEW still,
         Agrees(e, in, out, rows, FALSE, still)
  PROVE  Agrees(e, in, Tail(out), rows, FALSE, still)
  <1>1. \A n \in 1 .. Len(Tail(out)) : n + 1 \in 1 .. Len(out) /\ Tail(out)[n] = out[n + 1]
    BY TailAt
  <1>2. NoData(out) => NoData(Tail(out))
    BY <1>1 DEF NoData
  <1>3. Acked(e, Tail(out)) => Acked(e, out)
    BY <1>1 DEF Acked
  <1>4. QED
    BY <1>2, <1>3 DEF Agrees, Quiet

LEMMA OrderedTail ==
  ASSUME NEW e, NEW in \in Seq(Segment), in # <<>>, Ordered(e, in)
  PROVE  Ordered(e, Tail(in))
  <1>1. \A n \in 1 .. Len(Tail(in)) : n + 1 \in 1 .. Len(in) /\ Tail(in)[n] = in[n + 1]
    BY TailAt
  <1>2. \A n, m \in 1 .. Len(Tail(in)) : n <= m => n + 1 <= m + 1
    OBVIOUS
  <1>3. QED
    BY <1>1, <1>2 DEF Ordered

LEMMA LoseInAgrees ==
  ASSUME NEW e, NEW in \in Seq(Segment), in # <<>>, NEW out, NEW rows, NEW still,
         Agrees(e, in, out, rows, FALSE, still)
  PROVE  Agrees(e, Tail(in), out, rows, FALSE, still)
  <1>1. \A n \in 1 .. Len(Tail(in)) : n + 1 \in 1 .. Len(in) /\ Tail(in)[n] = in[n + 1]
    BY TailAt
  <1>2. Ordered(e, Tail(in))
    BY OrderedTail DEF Agrees
  <1>3. QED
    BY <1>1, <1>2 DEF Agrees, Quiet

\* A repeated octet is one that nobody acknowledged.
LEMMA RetransmitAgrees ==
  ASSUME NEW e \in PeerState, NEW rows, NEW kept, NEW still,
         Agrees(e, <<>>, <<>>, rows, kept, still), InWindow(e), e.una # e.nxt,
         NEW s \in Segment, Sending(e) => s.len = 1 /\ s.seq = e.una /\ s.ack = e.rcv
  PROVE  Agrees(e, Append(<<>>, s), <<>>, rows, kept, still)
  <1>1. Append(<<>>, s) = <<s>> /\ Len(<<s>>) = 1 /\ <<s>>[1] = s /\ <<s>> # <<>>
        /\ Len(<<>>) = 0
    OBVIOUS
  <1>2. ~Acked(e, <<>>)
    BY <1>1 DEF Acked
  <1>3. Sending(e) => Upto(e, End(s))
    <2>. SUFFICES ASSUME Sending(e) PROVE Upto(e, Wrap(e.una + 1))
      BY DEF End
    <2>1. /\ e.una \in Seqs /\ e.nxt \in Seqs /\ e.data \in Seqs
          /\ Gap(e.data, e.una) \in Nat /\ Gap(e.data, e.nxt) \in Nat
      BY Sent
    <2>2. /\ Gap(e.data, e.una) <= Gap(e.data, e.nxt) /\ Gap(e.data, e.nxt) <= MaxOctets
          /\ Gap(e.data, e.una) # Gap(e.data, e.nxt)
      BY <2>1, GapSame DEF InWindow
    <2>3. /\ Gap(e.data, e.una) + 1 <= Gap(e.data, e.nxt)
          /\ Gap(e.data, e.una) + 1 < SeqSpace
      BY <2>1, <2>2, Numbers
    <2>4. Gap(e.data, Wrap(e.una + 1)) = Gap(e.data, e.una) + 1
      BY <2>1, <2>3, GapNext
    <2>5. QED
      BY <2>3, <2>4 DEF Upto
  <1>4. Ordered(e, <<s>>)
    <2>1. End(s) \in Seqs
      BY EndType
    <2>2. Gap(e.data, End(s)) \in Nat
      BY <2>1, Sent
    <2>3. QED
      BY <1>1, <1>3, <2>2 DEF Ordered
  <1>5. QED
    BY <1>1, <1>2, <1>4 DEF Agrees, NextAgrees, CurrAgrees, Quiet

\* Nor does the peer that drops a frame, unless it was one to take.
LEMMA DropAgrees ==
  ASSUME NEW e, NEW in, NEW out \in Seq(SentSegment), out # <<>>, NEW rows, NEW kept,
         NEW still, Agrees(e, in, out, rows, kept, still), Sending(e) => ~Data(Head(out))
  PROVE  Agrees(e, in, Tail(out), rows, kept, still)
  <1>1. /\ \A n \in 1 .. Len(Tail(out)) : n + 1 \in 1 .. Len(out) /\ Tail(out)[n] = out[n + 1]
        /\ \A n \in 1 .. Len(out) : n # 1 => /\ n - 1 \in 1 .. Len(Tail(out))
                                             /\ Tail(out)[n - 1] = out[n]
        /\ Head(out) = out[1]
    BY TailAt
  <1>2. NoData(out) => NoData(Tail(out))
    BY <1>1 DEF NoData
  <1>3. NoData(Tail(out)) /\ ~Data(Head(out)) => NoData(out)
    BY <1>1 DEF NoData
  <1>4. Acked(e, Tail(out)) => Acked(e, out)
    BY <1>1 DEF Acked
  <1>5. QED
    BY <1>2, <1>3, <1>4 DEF Agrees, NextAgrees, CurrAgrees, Quiet

\* The handshake sets the numbers of both ends.
LEMMA EstablishAgrees ==
  ASSUME NEW e \in PeerState, NEW in \in Seq(Segment), NEW out \in Seq(SentSegment),
         NEW rows \in SUBSET Entry, NEW kept, NEW still,
         Fine(e, in, out, rows, kept), Agrees(e, in, out, rows, kept, still),
         e.st = "syn_sent", out # <<>>, Head(out).bits = SYN_ACK,
         NEW f \in PeerState, f.st = "established", f.una = e.nxt, f.nxt = e.nxt,
         f.data = e.data,
         NEW s \in Segment, s.seq = f.nxt, s.len = 0, s.ack = f.rcv
  PROVE  Agrees(f, Append(in, s), Tail(out), rows, kept, still)
  <1>1. /\ \A n \in 1 .. Len(Tail(out)) : n + 1 \in 1 .. Len(out) /\ Tail(out)[n] = out[n + 1]
        /\ Head(out) = out[1] /\ 1 \in 1 .. Len(out)
    BY TailAt
  <1>2. Handshake(e, in, out, rows, kept)
    BY DEF Fine
  <1>3. in = <<>>
    BY <1>1, <1>2 DEF Handshake
  <1>4. Append(in, s) = <<s>> /\ Len(<<s>>) = 1 /\ <<s>>[1] = s /\ <<s>> # <<>>
    BY <1>3
  <1>5. End(s) = f.nxt
    BY EndType
  <1>6. \A row \in rows : row.status = SYN_RCVD /\ row.next_seq = f.nxt
    BY <1>2 DEF Handshake
  <1>7. still => NoData(Tail(out))
    BY <1>1 DEF Agrees, Quiet, NoData
  <1>8. Ordered(f, <<s>>)
    <2>1. Gap(f.data, f.nxt) \in Nat
      BY Sent
    <2>2. QED
      BY <1>4, <1>5, <2>1 DEF Ordered, Upto
  <1>9. SendsAt(rows, f.rcv)
    BY <1>6 DEF SendsAt
  <1>10. QED
    BY <1>4, <1>5, <1>6, <1>7, <1>8, <1>9
       DEF Agrees, NextAgrees, CurrAgrees, Quiet, ReadUpto

\* What is taken is acknowledged.
LEMMA TakeAgrees ==
  ASSUME NEW e \in PeerState, NEW in \in Seq(Segment), NEW out \in Seq(SentSegment),
         NEW rows, NEW kept, NEW still, Agrees(e, in, out, rows, kept, still), out # <<>>,
         NEW r, r = Head(out), r.toPeerPort,
         NEW f \in PeerState, f.st # "syn_sent", Sending(f) => Sending(e), f.data = e.data,
         f.nxt = e.nxt, f.una \in {e.una, r.ack}, ~Data(r) => f.rcv = e.rcv,
         NEW in2,
         \/ in2 = in /\ ~Data(r)
         \/ \E s \in Segment : /\ in2 = Append(in, s)
                               /\ s.seq = f.nxt /\ s.len = 0 /\ s.ack = f.rcv
  PROVE  Agrees(f, in2, Tail(out), rows, kept, still)
  <1>1. /\ \A n \in 1 .. Len(Tail(out)) : n + 1 \in 1 .. Len(out) /\ Tail(out)[n] = out[n + 1]
        /\ \A n \in 1 .. Len(out) : n # 1 => /\ n - 1 \in 1 .. Len(Tail(out))
                                             /\ Tail(out)[n - 1] = out[n]
        /\ Head(out) = out[1] /\ 1 \in 1 .. Len(out)
    BY TailAt
  <1>2. NoData(out) <=> NoData(Tail(out)) /\ ~Data(r)
    BY <1>1 DEF NoData
  <1>3. Acked(f, Tail(out)) => Acked(e, out)
    BY <1>1 DEF Acked
  <1>4. Ordered(f, in)
    BY DEF Agrees, Ordered, Upto
  <1>5. /\ still /\ Sending(f) => NoData(Tail(out)) /\ ~Data(r) /\ f.rcv = e.rcv
        /\ still /\ Sending(f) /\ Acked(f, Tail(out)) =>
              /\ \A n \in 1 .. Len(in) : End(in[n]) = f.nxt
              /\ ReadUpto(rows, f.nxt)
    BY <1>2, <1>3 DEF Agrees, Quiet
  <1>6. CASE in2 = in /\ ~Data(r)
    <2>1. kept => NextAgrees(f, in, Tail(out), rows) /\ CurrAgrees(f, in, Tail(out), rows)
      BY <1>2, <1>3, <1>6 DEF Agrees, NextAgrees, CurrAgrees
    <2>2. still => Quiet(f, in, Tail(out), rows)
      BY <1>5 DEF Agrees, Quiet
    <2>3. QED
      BY <1>4, <1>6, <2>1, <2>2 DEF Agrees
  <1>7. CASE \E s \in Segment : /\ in2 = Append(in, s)
                                /\ s.seq = f.nxt /\ s.len = 0 /\ s.ack = f.rcv
    <2>1. PICK s \in Segment : /\ in2 = Append(in, s)
                               /\ s.seq = f.nxt /\ s.len = 0 /\ s.ack = f.rcv
      BY <1>7
    <2>2. /\ in2[Len(in2)] = s /\ in2 # <<>>
          /\ \A n \in 1 .. Len(in2) : n \in 1 .. Len(in) \/ in2[n] = s
          /\ \A n \in 1 .. Len(in) : in2[n] = in[n]
      BY <2>1
    <2>3. End(s) = f.nxt
      BY <2>1, EndType
    <2>4. Ordered(f, in2)
      <3>1. Gap(f.data, f.nxt) <= Gap(f.data, f.nxt)
        BY Sent
      <3>2. QED
        BY <1>4, <2>1, <2>3, <3>1, OrderedAppend
    <2>5. NextAgrees(f, in2, Tail(out), rows)
      BY <2>2, <2>3 DEF NextAgrees
    <2>6. CurrAgrees(f, in2, Tail(out), rows)
      BY <2>1, <2>2 DEF CurrAgrees
    <2>7. still => Quiet(f, in2, Tail(out), rows)
      BY <1>5, <2>1, <2>2, <2>3 DEF Agrees, Quiet
    <2>8. QED
      BY <2>4, <2>5, <2>6, <2>7 DEF Agrees
  <1>8. QED
    BY <1>6, <1>7

-----------------------------------------------------------------------------
(* The steps of the stack.                                                 *)

\* A slot records where the segment it reads ends, and what that acknowledges.
LEMMA ReadAgrees ==
  ASSUME NEW e \in PeerState, NEW in \in Seq(Segment), NEW out \in Seq(SentSegment),
         NEW rows, NEW kept, NEW still, Agrees(e, in, out, rows, kept, still),
         in # <<>>, Sending(e), NEW s, s = Head(in), NEW rows2,
         \A row \in rows2 : row.next_seq = End(s) /\ row.curr_seq = s.ack,
         NEW out2, NoData(out) => NoData(out2),
         \/ out2 = out
         \/ \E r \in SentSegment : out2 = Append(out, r) /\ r.ack = End(s)
  PROVE  Agrees(e, Tail(in), out2, rows2, kept, still)
  <1>1. /\ \A n \in 1 .. Len(Tail(in)) : n + 1 \in 1 .. Len(in) /\ Tail(in)[n] = in[n + 1]
        /\ s = in[1] /\ 1 \in 1 .. Len(in) /\ Len(in) \in Nat
        /\ \A n \in 1 .. Len(in) : 1 <= n
        /\ Tail(in) \in Seq(Segment) /\ Len(Tail(in)) = Len(in) - 1
    BY TailAt
  <1>2. Ordered(e, in)
    BY DEF Agrees
  <1>3. Ordered(e, Tail(in))
    BY <1>2, OrderedTail
  <1>4. ASSUME End(s) = e.nxt, NEW n \in 1 .. Len(in) PROVE End(in[n]) = e.nxt
    <2>1. in[n] \in Segment
      OBVIOUS
    <2>2. /\ End(in[n]) \in Seqs /\ e.nxt \in Seqs /\ e.data \in Seqs
          /\ Gap(e.data, End(in[n])) \in Nat /\ Gap(e.data, e.nxt) \in Nat
      BY <2>1, EndType, Sent
    <2>3. /\ Gap(e.data, End(in[n])) <= Gap(e.data, e.nxt)
          /\ Gap(e.data, e.nxt) <= Gap(e.data, End(in[n]))
      BY <1>1, <1>2, <1>4 DEF Ordered, Upto
    <2>4. Gap(e.data, End(in[n])) = Gap(e.data, e.nxt)
      BY <2>2, <2>3
    <2>5. QED
      BY <2>2, <2>4, GapSame
  <1>5. /\ Acked(e, out2) => Acked(e, out) \/ End(s) = e.nxt
        /\ NoData(out2) => NoData(out)
    <2>1. CASE out2 = out
      BY <2>1
    <2>2. CASE \E r \in SentSegment : out2 = Append(out, r) /\ r.ack = End(s)
      <3>1. PICK r \in SentSegment : out2 = Append(out, r) /\ r.ack = End(s)
        BY <2>2
      <3>2. /\ \A n \in 1 .. Len(out) : out2[n] = out[n] /\ n \in 1 .. Len(out2)
            /\ out2[Len(out) + 1] = r
            /\ \A n \in 1 .. Len(out2) : n \in 1 .. Len(out) \/ n = Len(out) + 1
        BY <3>1, AppendAt
      <3>3. QED
        BY <3>1, <3>2 DEF Acked, NoData
    <2>3. QED
      BY <2>1, <2>2
  <1>6. \/ Tail(in) = <<>> /\ in[Len(in)] = s
        \/ Tail(in) # <<>> /\ Tail(in)[Len(Tail(in))] = in[Len(in)]
    <2>1. CASE Tail(in) = <<>>
      <3>1. Len(<<>>) = 0 /\ \A i, k \in Int : k = i - 1 /\ k = 0 => i = 1
        OBVIOUS
      <3>2. Len(in) \in Int /\ Len(Tail(in)) = Len(in) - 1 /\ Len(Tail(in)) \in Int
        BY <1>1
      <3>3. Len(in) = 1
        BY <2>1, <3>1, <3>2
      <3>4. QED
        BY <1>1, <2>1, <3>3
    <2>2. CASE Tail(in) # <<>>
      BY <1>1, <2>2
    <2>3. QED
      BY <2>1, <2>2
  <1>7. kept => NextAgrees(e, Tail(in), out2, rows2)
    <2>. SUFFICES ASSUME kept, NoData(out2), Acked(e, out2)
                  PROVE  IF Tail(in) = <<>> THEN ReadUpto(rows2, e.nxt)
                         ELSE End(Tail(in)[Len(Tail(in))]) = e.nxt
      BY DEF NextAgrees
    <2>1. Len(in) \in 1 .. Len(in)
      BY <1>1
    <2>2. End(in[Len(in)]) = e.nxt
      BY <1>4, <1>5, <2>1 DEF Agrees, NextAgrees
    <2>3. QED
      BY <1>6, <2>2 DEF ReadUpto
  <1>8. kept => CurrAgrees(e, Tail(in), out2, rows2)
    <2>. SUFFICES ASSUME kept PROVE CurrAgrees(e, Tail(in), out2, rows2)
      OBVIOUS
    <2>1. in[Len(in)].ack = e.rcv
      BY DEF Agrees, CurrAgrees
    <2>2. QED
      BY <1>6, <2>1 DEF CurrAgrees, SendsAt
  <1>9. still => Quiet(e, Tail(in), out2, rows2)
    <2>. SUFFICES ASSUME still PROVE Quiet(e, Tail(in), out2, rows2)
      OBVIOUS
    <2>1. Quiet(e, in, out, rows)
      BY DEF Agrees
    <2>2. Acked(e, out2) => \A n \in 1 .. Len(in) : End(in[n]) = e.nxt
      BY <1>4, <1>5, <2>1 DEF Quiet
    <2>3. Acked(e, out2) => End(s) = e.nxt
      BY <1>1, <2>2
    <2>4. QED
      BY <1>1, <2>1, <2>2, <2>3 DEF Quiet, SendsAt, ReadUpto
  <1>10. QED
    BY <1>3, <1>7, <1>8, <1>9 DEF Agrees

\* Before and after a peer sends octets there is nothing to agree on.
LEMMA IdleAgrees ==
  ASSUME NEW e, ~Sending(e), NEW in, NEW in2, NEW out, NEW out2, NEW rows, NEW rows2,
         NEW kept, NEW still,
         Agrees(e, in, out, rows, kept, still), NoData(out) => NoData(out2)
  PROVE  Agrees(e, in2, out2, rows2, kept, still)
  BY DEF Agrees, Ordered, NextAgrees, CurrAgrees, Quiet

\* The peer has to take what a line sends.
LEMMA LineAgrees ==
  ASSUME NEW e, NEW in, NEW out \in Seq(SentSegment), NEW rows, NEW still,
         Agrees(e, in, out, rows, TRUE, still), NEW rows2, NEW out2,
         \A row2 \in rows2 : \E row \in rows :
             /\ row2.status = row.status /\ row2.next_seq = row.next_seq
             /\ NoData(out2) => row2.curr_seq = row.curr_seq,
         \/ out2 = out
         \/ \E r \in SentSegment : out2 = Append(out, r) /\ Data(r)
  PROVE  Agrees(e, in, out2, rows2, TRUE, FALSE)
  <1>1. \A r \in SentSegment : /\ \A n \in 1 .. Len(out) : /\ Append(out, r)[n] = out[n]
                                                           /\ n \in 1 .. Len(Append(out, r))
                               /\ Append(out, r)[Len(out) + 1] = r
                               /\ \A n \in 1 .. Len(Append(out, r)) :
                                     n \in 1 .. Len(out) \/ n = Len(out) + 1
    BY AppendAt
  <1>2. NoData(out2) => out2 = out
    <2>1. ASSUME NEW r \in SentSegment, out2 = Append(out, r), Data(r)
          PROVE  ~NoData(out2)
      <3>1. Len(out) + 1 \in 1 .. Len(Append(out, r))
        OBVIOUS
      <3>2. QED
        BY <1>1, <2>1, <3>1 DEF NoData
    <2>2. QED
      BY <2>1
  <1>3. ReadUpto(rows, e.nxt) => ReadUpto(rows2, e.nxt)
    BY DEF ReadUpto
  <1>4. NextAgrees(e, in, out2, rows2)
    BY <1>2, <1>3 DEF Agrees, NextAgrees
  <1>5. CurrAgrees(e, in, out2, rows2)
    <2>1. CurrAgrees(e, in, out, rows)
      BY DEF Agrees
    <2>2. NoData(out2) /\ SendsAt(rows, e.rcv) => SendsAt(rows2, e.rcv)
      BY DEF SendsAt
    <2>3. QED
      BY <1>2, <2>1, <2>2 DEF CurrAgrees
  <1>6. QED
    BY <1>4, <1>5 DEF Agrees

-----------------------------------------------------------------------------
(* The slots and frames of a handler.                                      *)

\* A slot that takes an ACK or data records what it acknowledges.
LEMMA ReceiveCurr ==
  ASSUME TableInv, NEW p \in Peers, NEW s, Sendable(p, s), Receive(s),
         s.bits \in {ACK, PSH_ACK}
  PROVE  \A row \in Rows(p)' : row.curr_seq = s.ack
  <1>. SUFFICES ASSUME NEW k \in Slots, IsOpen(k)', table'[k].peer = p
                PROVE  table'[k].curr_seq = s.ack
    BY DEF Rows
  <1>0. table \in [Slots -> Entry]
    BY DEF TableInv, TableType
  <1>1. CASE Refuses(p)
    BY <1>1 DEF Refuses, LimitReached, Unknown
  <1>2. ASSUME NEW i \in Slots, Selected(table, p, i), Records(s, i)
        PROVE  table'[k].curr_seq = s.ack
    <2>1. table' = [table EXCEPT ![i] = PayloadEntry(table[i], s)]
      BY <1>2 DEF Records
    <2>2. CASE k = i
      <3>1. table'[k] = PayloadEntry(table[i], s) /\ table[i] \in Entry
        BY <1>0, <2>1, <2>2
      <3>2. CASE s.bits = ACK
        <4>1. table'[k] = AckEntry(table[i], s)
          BY <3>1, <3>2 DEF PayloadEntry
        <4>2. table[i].status # NOT_CONNECTED
          BY <4>1 DEF AckEntry, IsOpen
        <4>3. QED
          BY <3>1, <4>1, <4>2 DEF AckEntry, RecordSeq, Entry
      <3>3. CASE s.bits = PSH_ACK
        <4>1. table'[k] = RecordSeq(table[i], s, Int8(s.len))
          BY <3>1, <3>3 DEF PayloadEntry
        <4>2. QED
          BY <3>1, <4>1 DEF RecordSeq, Entry
      <3>4. QED
        BY <3>2, <3>3
    <2>3. CASE k # i
      <3>1. table'[k] = table[k]
        BY <1>0, <2>1, <2>3
      <3>2. IsOpen(k) /\ table[k].peer = p
        BY <3>1 DEF IsOpen
      <3>3. Found(table, p, k)
        BY <3>2 DEF TableInv, KeyInv, IsOpen
      <3>4. Found(table, p, i)
        BY <1>2, <3>2 DEF Selected, Unknown
      <3>5. QED
        BY <2>3, <3>3, <3>4, FoundOnce
    <2>4. QED
      BY <2>2, <2>3
  <1>3. QED
    BY <1>1, <1>2, ReceiveCases DEF Ends

\* What goes back to a peer's port carries no data: an echo goes to the stack's own.
LEMMA ReplyNoData ==
  ASSUME NEW p \in Peers, NEW s, Sendable(p, s), Receive(s), s.bits # FIN_ACK
  PROVE  sent' = <<>> \/ \E r \in SentSegment : sent' = <<r>> /\ ~Data(r)
  <1>1. /\ s.len \in {0, 1} /\ s.bits \in {SYN, ACK, FIN_ACK, PSH_ACK}
        /\ s.len = 1 => s.bits \in {ACK, PSH_ACK}
        /\ s.bits = PSH_ACK => s.len = 1
    BY DEF Sendable
  <1>2. ASSUME NEW iss \in Isns
        PROVE  PayloadReply(s, iss) \in SentSegment /\ ~Data(PayloadReply(s, iss))
    <2>1. PayloadReply(s, iss) \in SentSegment
      BY Answers
    <2>2. Int8(s.len) = s.len
      BY <1>1 DEF Int8
    <2>3. s.bits # ACK => PayloadReply(s, iss).len = 0
      BY <1>1, <2>2 DEF PayloadReply
    <2>4. PayloadReply(s, iss).toPeerPort = (s.bits # ACK)
      BY DEF PayloadReply
    <2>5. PayloadReply(s, iss).bits # FIN_ACK
      BY DEF PayloadReply
    <2>6. CASE s.bits = ACK
      <3>1. PayloadReply(s, iss).toPeerPort = FALSE
        BY <2>4, <2>6
      <3>2. QED
        BY <2>1, <3>1 DEF Data
    <2>7. CASE s.bits # ACK
      BY <2>1, <2>3, <2>5, <2>7 DEF Data
    <2>8. QED
      BY <2>6, <2>7
  <1>3. CASE Refuses(p)
    BY <1>3 DEF Refuses
  <1>4. CASE \E i \in Slots : Records(s, i)
    BY <1>2, <1>4 DEF Records
  <1>5. QED
    BY <1>3, <1>4, ReceiveCases DEF Ends

\* The frames on the link of a peer after the stack read a segment of its.
LEMMA ReceiveNoData ==
  ASSUME SessionTypes, NEW p \in Peers, StackReceive(p), Head(toStack[p]).bits # FIN_ACK,
         NoData(toPeer[p])
  PROVE  NoData(toPeer'[p])
  <1> DEFINE s == Head(toStack[p])
  <1>1. toPeer \in [Peers -> Seq(SentSegment)] /\ toPeer[p] \in Seq(SentSegment)
    BY DEF SessionTypes, FramesTyped
  <1>2. Receive(s) /\ Sendable(p, s) /\ Transmit
    BY ReceiveLinks DEF StackReceive
  <1>3. \/ sent' = <<>>
        \/ \E r \in SentSegment : sent' = <<r>> /\ ~Data(r)
    BY <1>2, ReplyNoData
  <1>4. /\ sent' = <<>> => toPeer'[p] = toPeer[p]
        /\ \A r \in SentSegment : sent' = <<r>> =>
              toPeer'[p] = IF r.peer = p THEN Append(toPeer[p], r) ELSE toPeer[p]
    BY <1>1, <1>2, TransmitOne
  <1>5. \A r \in SentSegment : ~Data(r) => NoData(Append(toPeer[p], r))
    BY <1>1, AppendAt DEF NoData
  <1>6. QED
    BY <1>3, <1>4, <1>5

\* A line that changes the number an open slot sends from has its peer take as much.
LEMMA LineCurr ==
  ASSUME TableInv, NEW l \in Lines, UserLine(l), NEW q \in Peers
  PROVE  \/ \E r \in SentSegment : sent' = <<r>> /\ r.peer = q /\ Data(r)
         \/ \A i \in Slots : IsOpen(i)' /\ table'[i].peer = q =>
               table'[i].curr_seq = table[i].curr_seq
  <1>1. table \in [Slots -> Entry] /\ ReadBytes(l) \in Nat /\ ReadBytes(l) <= 1024
    BY LinesAssumption DEF TableInv, TableType, ReadBytes, Line
  <1>2. CASE CommandRefused(l) \/ ChatNothing(l)
    BY <1>2 DEF CommandRefused, ChatNothing
  <1>3. CASE CommandClose(l)
    <2>1. l.id \in Slots /\ table[l.id] \in Entry
      BY <1>1, <1>3 DEF CommandClose, ValidId
    <2>2. /\ CreatedEntry(table[l.id], 0).status = NOT_CONNECTED
          /\ CloseEntry(table[l.id]).status = NOT_CONNECTED
      BY <2>1, CreatedEffect DEF CloseEntry, Entry
    <2>3. \/ table' = [table EXCEPT ![l.id] = CreatedEntry(table[l.id], 0)]
          \/ table' = [table EXCEPT ![l.id] = CloseEntry(table[l.id])]
      BY <1>3 DEF CommandClose
    <2>4. /\ table'[l.id].status = NOT_CONNECTED
          /\ \A i \in Slots : i # l.id => table'[i] = table[i]
      BY <1>1, <2>1, <2>2, <2>3
    <2>5. QED
      BY <2>4 DEF IsOpen
  <1>4. CASE CommandChat(l)
    BY <1>1, <1>4 DEF CommandChat, Entry
  <1>5. CASE ChatExit(l)
    BY <1>1, <1>5 DEF ChatExit, Entry
  <1>6. CASE ChatSend(l)
    <2>1. PICK i \in Slots :
             /\ Chatting(i) /\ ReadBytes(l) > 0
             /\ \/ /\ table' = [table EXCEPT ![i] =
                          [CreatedEntry(table[i], ReadBytes(l)) EXCEPT !.io = 0]]
                   /\ sent' = <<CreatedSegment(table[i], ReadBytes(l))>>
                \/ /\ table' = [table EXCEPT ![i].io = 0]
                   /\ sent' = <<>>
      BY <1>6 DEF ChatSend
    <2>2. CASE table' = [table EXCEPT ![i].io = 0]
      BY <1>1, <2>2 DEF Entry
    <2>3. CASE /\ table' = [table EXCEPT ![i] =
                          [CreatedEntry(table[i], ReadBytes(l)) EXCEPT !.io = 0]]
               /\ sent' = <<CreatedSegment(table[i], ReadBytes(l))>>
      <3> DEFINE r == CreatedSegment(table[i], ReadBytes(l))
                 x == [CreatedEntry(table[i], ReadBytes(l)) EXCEPT !.io = 0]
      <3>1. r \in SentSegment /\ CreatedEntry(table[i], ReadBytes(l)) \in Entry
            /\ CreatedEntry(table[i], ReadBytes(l)).peer = table[i].peer
        BY <1>1, CreatedEffect
      <3>2. r.toPeerPort = TRUE /\ r.len = ReadBytes(l) /\ r.peer = table[i].peer
        BY DEF CreatedSegment
      <3>3. Data(r)
        BY <2>1, <3>2 DEF Data
      <3>4. x.peer = table[i].peer
        BY <3>1 DEF Entry
      <3>5. table' = [table EXCEPT ![i] = x] /\ sent' = <<r>>
        BY <2>3
      <3>. HIDE DEF r, x
      <3>6. CASE table[i].peer = q
        BY <3>1, <3>2, <3>3, <3>5, <3>6
      <3>7. CASE table[i].peer # q
        <4>1. \A j \in Slots : j # i => table'[j] = table[j]
          BY <1>1, <3>5
        <4>2. table'[i] = x
          BY <1>1, <3>5
        <4>3. QED
          BY <3>4, <3>7, <4>1, <4>2
      <3>8. QED
        BY <3>6, <3>7
    <2>4. QED
      BY <2>1, <2>2, <2>3
  <1>7. QED
    BY <1>2, <1>3, <1>4, <1>5, <1>6 DEF UserLine

\* A chat's text and a FIN are for the peer to take.
LEMMA LineSendsData ==
  ASSUME TableInv, NEW l \in Lines, UserLine(l)
  PROVE  sent' = <<>> \/ \E r \in SentSegment : sent' = <<r>> /\ Data(r)
  <1>1. ASSUME NEW i \in Slots, SendsFrom(i)
        PROVE  \E r \in SentSegment : sent' = <<r>> /\ Data(r)
    <2>1. PICK n \in Nat : n <= 1024 /\ sent' = <<CreatedSegment(table[i], n)>>
      BY <1>1 DEF SendsFrom
    <2>2. table[i] \in Entry
      BY DEF TableInv, TableType
    <2>3. CreatedSegment(table[i], n) \in SentSegment
      BY <2>1, <2>2, CreatedEffect
    <2>4. Data(CreatedSegment(table[i], n))
      BY <2>1 DEF CreatedSegment, Data
    <2>5. QED
      BY <2>1, <2>3, <2>4
  <1>2. QED
    BY <1>1, LineCases

LEMMA LineRows ==
  ASSUME SessionTypes, NEW l \in Lines, StackUserLine(l), NEW q \in Peers
  PROVE  \A row2 \in Rows(q)' : \E row \in Rows(q) :
             /\ row2.status = row.status /\ row2.next_seq = row.next_seq
             /\ NoData(toPeer'[q]) => row2.curr_seq = row.curr_seq
  <1>1. /\ TableInv /\ toPeer \in [Peers -> Seq(SentSegment)] /\ toPeer[q] \in Seq(SentSegment)
        /\ UserLine(l) /\ Transmit
    BY DEF SessionTypes, FramesTyped, StackUserLine
  <1>2. \A i \in Slots : Spares(i)
    BY <1>1, LineCases
  <1>3. ASSUME NEW i \in Slots, IsOpen(i)', table'[i].peer = q
        PROVE  /\ table[i] \in Rows(q) /\ table'[i].status = table[i].status
               /\ table'[i].next_seq = table[i].next_seq
    BY <1>2, <1>3 DEF Spares, IsOpen, Rows
  <1>4. CASE \E r \in SentSegment : sent' = <<r>> /\ r.peer = q /\ Data(r)
    <2>1. PICK r \in SentSegment : sent' = <<r>> /\ r.peer = q /\ Data(r)
      BY <1>4
    <2>2. toPeer'[q] = Append(toPeer[q], r)
      BY <1>1, <2>1, TransmitOne
    <2>3. ~NoData(toPeer'[q])
      BY <1>1, <2>1, <2>2, AppendAt DEF NoData
    <2>4. QED
      BY <1>3, <2>3 DEF Rows
  <1>5. CASE \A i \in Slots : IsOpen(i)' /\ table'[i].peer = q =>
                table'[i].curr_seq = table[i].curr_seq
    BY <1>3, <1>5 DEF Rows
  <1>6. QED
    BY <1>1, <1>4, <1>5, LineCurr

\* A segment of a peer is read: its own links and slots change, nobody else's.
LEMMA ReceiveAgrees ==
  ASSUME SessionTypes, SessionInv, PromiseInv, AgreeInv, Calm, NEW p \in Peers,
         StackReceive(p), NEW q \in Peers
  PROVE  Agrees(peer[q], toStack'[q], toPeer'[q], Rows(q)', losses = 0, lines = 0)
  <1> DEFINE s == Head(toStack[p])
  <1>1. /\ TableInv /\ peer[p] \in PeerState
        /\ toStack[p] \in Seq(Segment) /\ toPeer[p] \in Seq(SentSegment)
    BY DEF SessionTypes, LinksTyped, FramesTyped
  <1>2. /\ Fine(peer[p], toStack[p], toPeer[p], Rows(p), losses = 0)
        /\ InRange(peer[p], toStack[p], toPeer[p], Rows(p), Left(p))
        /\ Agrees(peer[p], toStack[p], toPeer[p], Rows(p), losses = 0, lines = 0)
        /\ Agrees(peer[q], toStack[q], toPeer[q], Rows(q), losses = 0, lines = 0)
    BY DEF SessionInv, PromiseInv, Keeps, AgreeInv
  <1>3. /\ toStack[p] # <<>> /\ Receive(s) /\ Sendable(p, s)
        /\ toStack'[p] = Tail(toStack[p])
        /\ \A k \in Peers : k # p => toStack'[k] = toStack[k] /\ toPeer'[k] = toPeer[k]
        /\ \/ toPeer'[p] = toPeer[p] /\ sent' = <<>>
           \/ s.bits = FIN_ACK
           \/ \E r \in SentSegment :
                 /\ toPeer'[p] = Append(toPeer[p], r) /\ sent' # <<>>
                 /\ s.bits = SYN => r.bits = SYN_ACK /\ r.ack = Wrap(s.seq + 1)
                 /\ s.bits \in {ACK, PSH_ACK} => /\ r.bits = ACK /\ s.len = 1
                                                 /\ r.ack = Wrap(s.seq + s.len)
    BY ReceiveLinks
  <1>4. /\ \A k \in Peers : k # p => Rows(k)' = Rows(k)
        /\ s.bits \in {ACK, PSH_ACK} =>
              \A row \in Rows(p)' : row.next_seq = Wrap(s.seq + s.len)
    BY <1>1, <1>3, ReceiveRows
  <1>5. s.bits \in {ACK, PSH_ACK} => \A row \in Rows(p)' : row.curr_seq = s.ack
    BY <1>1, <1>3, ReceiveCurr
  <1>6. s.bits # FIN_ACK => (NoData(toPeer[p]) => NoData(toPeer'[p]))
    BY ReceiveNoData
  <1>. HIDE DEF s
  <1>7. CASE q # p
    BY <1>2, <1>3, <1>4, <1>7
  <1>8. CASE q = p
    <2>1. ASSUME NEW e, e = peer[p], NEW in, in = toStack[p], NEW out, out = toPeer[p],
                 NEW rows, rows = Rows(p), NEW left, left = Left(p),
                 NEW kept, kept = (losses = 0), NEW still, still = (lines = 0),
                 NEW out2, out2 = toPeer'[p], NEW rows2, rows2 = Rows(p)'
          PROVE  Agrees(e, Tail(in), out2, rows2, kept, still)
      <3>1. /\ e \in PeerState /\ in \in Seq(Segment) /\ in # <<>> /\ s = Head(in)
            /\ out \in Seq(SentSegment)
            /\ Fine(e, in, out, rows, kept) /\ InRange(e, in, out, rows, left)
            /\ Agrees(e, in, out, rows, kept, still)
            /\ s.bits # FIN_ACK => (NoData(out) => NoData(out2))
        BY <1>1, <1>2, <1>3, <1>6, <2>1 DEF s
      <3>2. s = in[1] /\ 1 \in 1 .. Len(in)
        BY <3>1, TailAt
      <3>3. CASE Sending(e)
        <4>1. s.bits \in {ACK, PSH_ACK}
          BY <3>1, <3>2, <3>3 DEF InRange
        <4>2. \A row \in rows2 : row.next_seq = End(s) /\ row.curr_seq = s.ack
          BY <1>4, <1>5, <2>1, <4>1 DEF End
        <4>3. \/ out2 = out
              \/ \E r \in SentSegment : out2 = Append(out, r) /\ r.ack = End(s)
          BY <1>3, <2>1, <4>1 DEF End
        <4>4. NoData(out) => NoData(out2)
          BY <3>1, <4>1
        <4>5. QED
          BY <3>1, <3>3, <4>2, <4>3, <4>4, ReadAgrees
      <3>4. CASE e.st = "syn_sent"
        <4>1. s.bits = SYN
          BY <3>1, <3>2, <3>4 DEF Fine, Handshake
        <4>2. ~Sending(e) /\ (NoData(out) => NoData(out2))
          BY <3>1, <3>4, <4>1 DEF Sending
        <4>3. QED
          BY <3>1, <4>2, IdleAgrees
      <3>5. CASE ~Sending(e) /\ e.st # "syn_sent"
        BY <3>5 DEF Agrees, Ordered, NextAgrees, CurrAgrees, Quiet
      <3>6. QED
        BY <3>3, <3>4, <3>5
    <2>2. QED
      BY <1>3, <1>8, <2>1
  <1>9. QED
    BY <1>7, <1>8

LEMMA LineAgreesAll ==
  ASSUME SessionTypes, AgreeInv, losses = 0, NEW l \in Lines, StackUserLine(l),
         NEW q \in Peers
  PROVE  Agrees(peer[q], toStack'[q], toPeer'[q], Rows(q)', TRUE, FALSE)
  <1>1. /\ TableInv /\ toPeer \in [Peers -> Seq(SentSegment)] /\ toPeer[q] \in Seq(SentSegment)
        /\ UserLine(l) /\ Transmit /\ toStack' = toStack
    BY DEF SessionTypes, FramesTyped, StackUserLine
  <1>2. Agrees(peer[q], toStack[q], toPeer[q], Rows(q), TRUE, lines = 0)
    <2>1. (losses = 0) = TRUE
      OBVIOUS
    <2>2. Agrees(peer[q], toStack[q], toPeer[q], Rows(q), losses = 0, lines = 0)
      BY DEF AgreeInv, Calm
    <2>3. QED
      BY <2>1, <2>2
  <1>3. \A row2 \in Rows(q)' : \E row \in Rows(q) :
             /\ row2.status = row.status /\ row2.next_seq = row.next_seq
             /\ NoData(toPeer'[q]) => row2.curr_seq = row.curr_seq
    BY LineRows
  <1>4. \/ toPeer'[q] = toPeer[q]
        \/ \E r \in SentSegment : toPeer'[q] = Append(toPeer[q], r) /\ Data(r)
    <2>1. /\ sent' = <<>> => toPeer'[q] = toPeer[q]
          /\ \A r \in SentSegment : sent' = <<r>> =>
                toPeer'[q] = IF r.peer = q THEN Append(toPeer[q], r) ELSE toPeer[q]
      BY <1>1, TransmitOne
    <2>2. sent' = <<>> \/ \E r \in SentSegment : sent' = <<r>> /\ Data(r)
      BY <1>1, LineSendsData
    <2>3. QED
      BY <2>1, <2>2
  <1>5. ASSUME NEW e, e = peer[q], NEW in, in = toStack[q], NEW out, out = toPeer[q],
               NEW rows, rows = Rows(q), NEW still, still = (lines = 0),
               NEW out2, out2 = toPeer'[q], NEW rows2, rows2 = Rows(q)'
        PROVE  Agrees(e, in, out2, rows2, TRUE, FALSE)
    <2>1. out \in Seq(SentSegment)
      BY <1>1, <1>5
    <2>2. Agrees(e, in, out, rows, TRUE, still)
      BY <1>2, <1>5
    <2>3. \A row2 \in rows2 : \E row \in rows :
             /\ row2.status = row.status /\ row2.next_seq = row.next_seq
             /\ NoData(out2) => row2.curr_seq = row.curr_seq
      BY <1>3, <1>5
    <2>4. \/ out2 = out
          \/ \E r \in SentSegment : out2 = Append(out, r) /\ Data(r)
      BY <1>4, <1>5
    <2>5. QED
      BY <2>1, <2>2, <2>3, <2>4, LineAgrees
  <1>6. Agrees(peer[q], toStack[q], toPeer'[q], Rows(q)', TRUE, FALSE)
    BY <1>5
  <1>7. QED
    BY <1>1, <1>6

-----------------------------------------------------------------------------
(* The steps of a peer and of its links, in the state.                     *)

LEMMA KnownAgrees ==
  ASSUME NEW p \in Peers, Known, PromiseInv, AgreeInv
  PROVE  /\ Agrees(peer[p], toStack[p], toPeer[p], Rows(p), losses = 0, lines = 0)
         /\ InRange(peer[p], toStack[p], toPeer[p], Rows(p), Left(p))
         /\ InWindow(peer[p])
  BY KnownKeeps DEF Known, AgreeInv, Keeps

LEMMA ConnectStepAgrees ==
  ASSUME NEW p \in Peers, Known, PeerConnect(p)
  PROVE  Agrees(peer'[p], toStack'[p], toPeer'[p], Rows(p)', losses' = 0, lines' = 0)
  <1>1. peer'[p].st = "syn_sent" /\ toPeer'[p] = <<>>
    BY KnownFine DEF PeerConnect, LinkIdle
  <1>2. QED
    BY <1>1, ConnectAgrees

LEMMA SendStepAgrees ==
  ASSUME NEW p \in Peers, Known, PromiseInv, AgreeInv, PeerSend(p)
  PROVE  Agrees(peer'[p], toStack'[p], toPeer'[p], Rows(p)', losses' = 0, lines' = 0)
  <1> DEFINE e == peer[p]
             f == peer'[p]
  <1>1. /\ e \in PeerState /\ f \in PeerState /\ peer \in [Peers -> PeerState]
        /\ toStack[p] \in Seq(Segment) /\ toPeer[p] \in Seq(SentSegment)
        /\ Rows(p) \in SUBSET Entry /\ Rows(p)' = Rows(p)
    BY KnownFine
  <1>2. /\ e.st \in {"established", "close_wait"} /\ Gap(e.data, e.nxt) < MaxOctets
        /\ toPeer' = toPeer /\ losses' = losses /\ lines' = lines
        /\ f = [e EXCEPT !.nxt = Wrap(e.nxt + 1)]
    BY <1>1 DEF PeerSend
  <1>3. /\ Agrees(e, toStack[p], toPeer[p], Rows(p), losses = 0, lines = 0)
        /\ InRange(e, toStack[p], toPeer[p], Rows(p), Left(p)) /\ InWindow(e)
    BY KnownAgrees
  <1>4. PICK bits \in DataBits : Send(p, Seg(p, bits, e.nxt, e.rcv, 1))
    BY DEF PeerSend
  <1>5. bits \in {ACK, PSH_ACK} /\ e.nxt \in Seqs /\ e.rcv \in Seqs
    BY <1>1, DataBitsAssumption DEF PeerState
  <1>6. PICK s \in Segment : /\ toStack'[p] = Append(toStack[p], s)
                             /\ s.seq = e.nxt /\ s.len = 1 /\ s.ack = e.rcv
    BY <1>4, <1>5, Sends
  <1>. HIDE DEF e, f
  <1>7. Sending(e)
    BY <1>2 DEF Sending
  <1>8. Agrees(f, Append(toStack[p], s), toPeer[p], Rows(p), losses = 0, lines = 0)
    BY <1>1, <1>2, <1>3, <1>6, <1>7, SendAgrees
  <1>9. QED
    BY <1>1, <1>2, <1>6, <1>8 DEF f

LEMMA CloseStepAgrees ==
  ASSUME NEW p \in Peers, Known, PeerClose(p)
  PROVE  Agrees(peer'[p], toStack'[p], toPeer'[p], Rows(p)', losses' = 0, lines' = 0)
  <1>1. peer'[p].st \in {"fin_wait_1", "last_ack"}
    BY KnownFine DEF PeerClose, PeerState
  <1>2. QED
    BY <1>1, CloseAgrees

LEMMA RetransmitStepAgrees ==
  ASSUME NEW p \in Peers, Known, PromiseInv, AgreeInv, PeerRetransmit(p)
  PROVE  Agrees(peer'[p], toStack'[p], toPeer'[p], Rows(p)', losses' = 0, lines' = 0)
  <1> DEFINE e == peer[p]
  <1>1. e \in PeerState /\ Rows(p)' = Rows(p)
    BY KnownFine
  <1>2. /\ toStack[p] = <<>> /\ toPeer[p] = <<>> /\ e.una # e.nxt
        /\ peer' = peer /\ toPeer' = toPeer /\ losses' = losses /\ lines' = lines
    BY DEF PeerRetransmit, LinkIdle
  <1>3. Agrees(e, <<>>, <<>>, Rows(p), losses = 0, lines = 0) /\ InWindow(e)
    BY <1>2, KnownAgrees
  <1>4. e.una \in Seqs /\ e.rcv \in Seqs /\ 0 \in Seqs
    BY <1>1, SeqSpaceAssumption DEF PeerState, Seqs
  <1>5. \E s \in Segment : /\ toStack'[p] = Append(<<>>, s)
                           /\ Sending(e) => s.len = 1 /\ s.seq = e.una /\ s.ack = e.rcv
    <2>1. CASE e.st = "syn_sent" /\ Send(p, Seg(p, SYN, e.una, 0, 0))
      BY <1>2, <1>4, <2>1, Sends DEF Sending
    <2>2. CASE Closing(e) /\ Send(p, Seg(p, FIN_ACK, e.una, e.rcv, 0))
      BY <1>2, <1>4, <2>2, Sends DEF Sending, Closing
    <2>3. CASE \E bits \in DataBits : Send(p, Seg(p, bits, e.una, e.rcv, 1))
      <3>1. PICK bits \in DataBits : Send(p, Seg(p, bits, e.una, e.rcv, 1))
        BY <2>3
      <3>2. bits \in {ACK, PSH_ACK}
        BY DataBitsAssumption
      <3>3. QED
        BY <1>2, <1>4, <3>1, <3>2, Sends
    <2>4. QED
      BY <2>1, <2>2, <2>3 DEF PeerRetransmit
  <1>. HIDE DEF e
  <1>6. Agrees(e, toStack'[p], <<>>, Rows(p), losses = 0, lines = 0)
    BY <1>1, <1>2, <1>3, <1>5, RetransmitAgrees
  <1>7. QED
    BY <1>1, <1>2, <1>6 DEF e

LEMMA TakeStepAgrees ==
  ASSUME NEW p \in Peers, Known, PromiseInv, AgreeInv, PeerReceive(p)
  PROVE  Agrees(peer'[p], toStack'[p], toPeer'[p], Rows(p)', losses' = 0, lines' = 0)
  <1> DEFINE e == peer[p]
             f == peer'[p]
             in == toStack[p]
             out == toPeer[p]
             r == Head(toPeer[p])
             kept == losses = 0
             still == lines = 0
             ack(h) == Send(p, Seg(p, ACK, h.nxt, h.rcv, 0))
  <1>1. /\ e \in PeerState /\ f \in PeerState /\ peer \in [Peers -> PeerState]
        /\ in \in Seq(Segment) /\ out \in Seq(SentSegment)
        /\ Rows(p) \in SUBSET Entry
        /\ Fine(e, in, out, Rows(p), kept) /\ Rows(p)' = Rows(p)
    BY KnownFine
  <1>2. /\ out # <<>> /\ toPeer'[p] = Tail(out) /\ losses' = losses /\ lines' = lines
    BY KnownFine DEF PeerReceive
  <1>3. Agrees(e, in, out, Rows(p), kept, still)
    BY KnownAgrees
  <1>4. ASSUME NEW h \in PeerState, ack(h)
        PROVE  \E s \in Segment : /\ toStack'[p] = Append(in, s)
                                  /\ s.seq = h.nxt /\ s.len = 0 /\ s.ack = h.rcv
    <2>1. h.nxt \in Seqs /\ h.rcv \in Seqs
      BY DEF PeerState
    <2>2. QED
      BY <1>4, <2>1, Sends
  <1>5. ASSUME r.toPeerPort, InConnection(e), f.st # "syn_sent", Sending(f) => Sending(e),
               f.data = e.data, f.nxt = e.nxt, f.una \in {e.una, r.ack},
               ~Data(r) => f.rcv = e.rcv,
               ack(f) \/ (toStack' = toStack /\ ~Data(r))
        PROVE  Agrees(peer'[p], toStack'[p], toPeer'[p], Rows(p)', losses' = 0, lines' = 0)
    <2>1. \/ toStack'[p] = in /\ ~Data(r)
          \/ \E s \in Segment : /\ toStack'[p] = Append(in, s)
                                /\ s.seq = f.nxt /\ s.len = 0 /\ s.ack = f.rcv
      BY <1>1, <1>4, <1>5
    <2>. HIDE DEF e, f, in, out, kept, still
    <2>2. Agrees(f, toStack'[p], Tail(out), Rows(p), kept, still)
      BY <1>1, <1>2, <1>3, <1>5, <2>1, TakeAgrees DEF out
    <2>3. QED
      BY <1>1, <1>2, <2>2 DEF f, kept, still
  <1>6. ASSUME InConnection(e)
        PROVE  /\ Acknowledged(e, r) \in PeerState /\ Acknowledged(e, r).st # "syn_sent"
               /\ Sending(Acknowledged(e, r)) => Sending(e)
               /\ Acknowledged(e, r).data = e.data /\ Acknowledged(e, r).nxt = e.nxt
               /\ Acknowledged(e, r).una \in {e.una, r.ack}
               /\ Acknowledged(e, r).rcv = e.rcv
    <2>1. r \in SentSegment
      BY <1>1, <1>2, TailAt DEF out
    <2>2. Acknowledged(e, r) \in PeerState
      BY <1>1, <2>1, PeerTyped
    <2>3. QED
      BY <1>1, <1>6, <2>2 DEF Acknowledged, PeerState, InConnection, Sending, Closing
  <1>7. CASE /\ \/ ~r.toPeerPort
                \/ e.st = "closed"
                \/ e.st = "syn_sent"
             /\ UNCHANGED <<peer, toStack>>
    <2>1. Sending(e) => ~Data(r)
      BY <1>7 DEF Sending, Data
    <2>2. f = e /\ toStack'[p] = in
      BY <1>7
    <2>. HIDE DEF e, f, in, out, kept, still
    <2>3. Agrees(e, in, Tail(out), Rows(p), kept, still)
      BY <1>1, <1>2, <1>3, <2>1, DropAgrees DEF out
    <2>4. QED
      BY <1>1, <1>2, <2>2, <2>3 DEF f, kept, still
  <1>8. CASE /\ e.st = "syn_sent" /\ r.bits = SYN_ACK /\ r.ack = e.nxt
             /\ peer' = [peer EXCEPT ![p].st = "established", ![p].una = e.nxt,
                                     ![p].rcv = Wrap(r.seq + 1)]
             /\ ack(f)
    <2>1. /\ f.st = "established" /\ f.una = e.nxt /\ f.nxt = e.nxt /\ f.data = e.data
      BY <1>1, <1>8 DEF PeerState
    <2>2. PICK s \in Segment : /\ toStack'[p] = Append(in, s)
                               /\ s.seq = f.nxt /\ s.len = 0 /\ s.ack = f.rcv
      BY <1>1, <1>4, <1>8
    <2>3. Head(out).bits = SYN_ACK /\ e.st = "syn_sent"
      BY <1>8
    <2>. HIDE DEF e, f, in, out, kept, still
    <2>4. Agrees(f, Append(in, s), Tail(out), Rows(p), kept, still)
      BY <1>1, <1>2, <1>3, <2>1, <2>2, <2>3, EstablishAgrees
    <2>5. QED
      BY <1>1, <1>2, <2>2, <2>4 DEF f, kept, still
  <1>9. CASE /\ r.toPeerPort /\ InConnection(e)
             /\ ack(e)
             /\ \/ UNCHANGED peer
                \/ peer' = [peer EXCEPT ![p] = Acknowledged(@, r)]
    <2>1. f = e \/ f = Acknowledged(e, r)
      BY <1>1, <1>9
    <2>2. f.nxt = e.nxt /\ f.rcv = e.rcv
      BY <1>6, <1>9, <2>1
    <2>3. ack(f)
      BY <1>9, <2>2
    <2>4. e.st # "syn_sent"
      BY <1>9 DEF InConnection
    <2>5. QED
      BY <1>5, <1>6, <1>9, <2>1, <2>3, <2>4
  <1>10. CASE /\ r.toPeerPort /\ InConnection(e)
              /\ peer' = [peer EXCEPT ![p] = Accepted(Acknowledged(@, r), r)]
              /\ IF r.len > 0 \/ r.bits = FIN_ACK THEN ack(f) ELSE UNCHANGED toStack
    <2> DEFINE h == Acknowledged(e, r)
    <2>1. f = Accepted(h, r)
      BY <1>1, <1>10
    <2>2. /\ h \in PeerState /\ h.st # "syn_sent" /\ (Sending(h) => Sending(e))
          /\ h.data = e.data /\ h.nxt = e.nxt /\ h.una \in {e.una, r.ack} /\ h.rcv = e.rcv
      BY <1>6, <1>10
    <2>3. r.len \in Nat
      <3>1. r \in SentSegment
        BY <1>1, <1>2, TailAt DEF out
      <3>2. QED
        BY <3>1 DEF SentSegment, UInt16
    <2>4. ack(f) \/ (toStack' = toStack /\ ~Data(r))
      BY <1>10 DEF Data
    <2>. HIDE DEF h
    <2>5. /\ f.st # "syn_sent" /\ (Sending(f) => Sending(h))
          /\ f.data = h.data /\ f.nxt = h.nxt /\ f.una = h.una
      BY <2>1, <2>2 DEF Accepted, PeerState, Sending
    <2>6. ~Data(r) => f.rcv = e.rcv
      <3>1. ASSUME ~Data(r) PROVE f.rcv = Wrap(h.rcv)
        <4>1. r.len = 0 /\ r.bits # FIN_ACK
          BY <1>10, <2>3, <3>1 DEF Data
        <4>2. f.rcv = Wrap(h.rcv + r.len + 0)
          BY <2>1, <2>2, <4>1 DEF Accepted, PeerState
        <4>3. h.rcv \in Int
          BY <2>2, SeqSpaceAssumption DEF PeerState, Seqs
        <4>4. h.rcv + r.len + 0 = h.rcv
          BY <4>1, <4>3
        <4>5. QED
          BY <4>2, <4>4
      <3>2. Wrap(h.rcv) = h.rcv
        BY <2>2, SeqSpaceAssumption DEF PeerState, Seqs, Wrap
      <3>3. QED
        BY <2>2, <3>1, <3>2
    <2>7. QED
      BY <1>5, <1>10, <2>2, <2>4, <2>5, <2>6
  <1>11. QED
    BY <1>7, <1>8, <1>9, <1>10 DEF PeerReceive

LEMMA LoseStepAgrees ==
  ASSUME NEW p \in Peers, Known, PromiseInv, AgreeInv, Lose(p), NEW q \in Peers
  PROVE  Agrees(peer'[q], toStack'[q], toPeer'[q], Rows(q)', losses' = 0, lines' = 0)
  <1>1. /\ peer' = peer /\ Rows(q)' = Rows(q) /\ lines' = lines
        /\ toStack[q] \in Seq(Segment) /\ toPeer[q] \in Seq(SentSegment)
    BY KnownFine DEF Lose
  <1>2. Agrees(peer[q], toStack[q], toPeer[q], Rows(q), losses = 0, lines = 0)
    BY KnownAgrees
  <1>3. (losses' = 0) = FALSE
    BY DEF Lose, Known, SessionTypes
  <1>4. Agrees(peer[q], toStack[q], toPeer[q], Rows(q), FALSE, lines = 0)
    BY <1>2 DEF Agrees
  <1>5. \/ toStack'[q] = toStack[q] /\ toPeer'[q] = toPeer[q]
        \/ toStack[q] # <<>> /\ toStack'[q] = Tail(toStack[q]) /\ toPeer'[q] = toPeer[q]
        \/ toPeer[q] # <<>> /\ toPeer'[q] = Tail(toPeer[q]) /\ toStack'[q] = toStack[q]
    BY KnownFine DEF Lose
  <1>6. Agrees(peer[q], toStack'[q], toPeer'[q], Rows(q), FALSE, lines = 0)
    BY <1>1, <1>4, <1>5, LoseInAgrees, LoseOutAgrees
  <1>7. QED
    BY <1>1, <1>3, <1>6

LEMMA PeerAgrees ==
  ASSUME NEW p \in Peers, Known, PromiseInv, AgreeInv,
         \/ PeerConnect(p) \/ PeerSend(p) \/ PeerClose(p) \/ PeerRetransmit(p)
         \/ PeerReceive(p) \/ Lose(p),
         NEW q \in Peers
  PROVE  Agrees(peer'[q], toStack'[q], toPeer'[q], Rows(q)', losses' = 0, lines' = 0)
  <1>1. CASE q = p
    BY <1>1, ConnectStepAgrees, SendStepAgrees, CloseStepAgrees, RetransmitStepAgrees,
       TakeStepAgrees, LoseStepAgrees
  <1>2. CASE Lose(p)
    BY <1>2, LoseStepAgrees
  <1>3. CASE q # p /\ ~Lose(p)
    <2>1. /\ peer \in [Peers -> PeerState] /\ toStack \in [Peers -> Seq(Segment)]
          /\ toPeer \in [Peers -> Seq(SentSegment)]
          /\ Rows(q)' = Rows(q)
          /\ Agrees(peer[q], toStack[q], toPeer[q], Rows(q), losses = 0, lines = 0)
      BY KnownFine, KnownAgrees
    <2>2. \A s : Send(p, s) => toStack'[q] = toStack[q]
      BY <1>3, <2>1 DEF Send
    <2>3. /\ peer'[q] = peer[q] /\ toPeer'[q] = toPeer[q]
          /\ losses' = losses /\ lines' = lines
      BY <1>3, <2>1 DEF PeerConnect, PeerSend, PeerClose, PeerRetransmit, PeerReceive
    <2>4. toStack'[q] = toStack[q]
      BY <1>3, <2>2 DEF PeerConnect, PeerSend, PeerClose, PeerRetransmit, PeerReceive
    <2>5. QED
      BY <2>1, <2>3, <2>4
  <1>4. QED
    BY <1>1, <1>2, <1>3

LEMMA AgreeInvInit == SessionInit => AgreeInv
  <1>. SUFFICES ASSUME SessionInit, NEW p \in Peers
                PROVE  Agrees(peer[p], toStack[p], toPeer[p], Rows(p), losses = 0, lines = 0)
    BY DEF AgreeInv
  <1>1. peer[p].st = "closed"
    BY DEF SessionInit
  <1>2. QED
    BY <1>1 DEF Agrees, Ordered, NextAgrees, CurrAgrees, Quiet, Sending

LEMMA AgreeInvStep ==
  ASSUME SessionTypes, SessionTypes', SessionInv, PromiseInv, AgreeInv,
         [SessionNext]_sessionVars
  PROVE  AgreeInv'
  <1>. SUFFICES ASSUME Calm', NEW q \in Peers
                PROVE  Agrees(peer'[q], toStack'[q], toPeer'[q], Rows(q)', losses' = 0, lines' = 0)
    BY DEF AgreeInv
  <1>1. ASSUME NEW p \in Peers, StackReceive(p)
        PROVE  Agrees(peer'[q], toStack'[q], toPeer'[q], Rows(q)', losses' = 0, lines' = 0)
    <2>1. peer' = peer /\ losses' = losses /\ lines' = lines /\ Calm
      BY <1>1 DEF StackReceive, Calm
    <2>2. QED
      BY <1>1, <2>1, ReceiveAgrees
  <1>2. ASSUME NEW l \in Lines, StackUserLine(l)
        PROVE  Agrees(peer'[q], toStack'[q], toPeer'[q], Rows(q)', losses' = 0, lines' = 0)
    <2>1. losses = 0 /\ peer' = peer /\ losses' = losses
      BY <1>2 DEF StackUserLine, Calm, SessionTypes
    <2>2. (losses' = 0) = TRUE
      BY <2>1
    <2>3. (lines' = 0) = FALSE
      BY <1>2 DEF StackUserLine, SessionTypes
    <2>4. QED
      BY <1>2, <2>1, <2>2, <2>3, LineAgreesAll
  <1>3. ASSUME NEW p \in Peers,
               \/ PeerConnect(p) \/ PeerSend(p) \/ PeerClose(p) \/ PeerRetransmit(p)
               \/ PeerReceive(p) \/ Lose(p)
        PROVE  Agrees(peer'[q], toStack'[q], toPeer'[q], Rows(q)', losses' = 0, lines' = 0)
    <2>1. UNCHANGED table
      BY <1>3 DEF PeerConnect, PeerSend, PeerClose, PeerRetransmit, PeerReceive, Lose, vars
    <2>2. Calm
      BY <1>3 DEF PeerConnect, PeerSend, PeerClose, PeerRetransmit, PeerReceive, Lose,
                  Calm, SessionTypes
    <2>3. QED
      BY <1>3, <2>1, <2>2, PeerAgrees DEF Known
  <1>4. CASE UNCHANGED sessionVars
    <2>1. Rows(q)' = Rows(q) /\ Calm
      BY <1>4 DEF sessionVars, vars, Rows, IsOpen, Calm
    <2>2. QED
      BY <1>4, <2>1 DEF sessionVars, AgreeInv
  <1>5. QED
    BY <1>1, <1>2, <1>3, <1>4 DEF SessionNext

\* The slot of an idle connection knows both ends' numbers.
LEMMA AgreeInvQuiet ==
  ASSUME SessionTypes, SessionInv, AgreeInv PROVE QuietEndsAgree
  <1>. SUFFICES ASSUME Calm, NEW i \in Slots, table[i].status = ACTIVE,
                       NEW p, p = table[i].peer, LinkIdle(p), peer[p].una = peer[p].nxt
                PROVE  table[i].next_seq = peer[p].nxt /\ table[i].curr_seq = peer[p].rcv
    BY DEF QuietEndsAgree
  <1> DEFINE e == peer[p]
  <1>1. p \in Peers
    BY DEF SessionTypes, TableInv, PeerInv, IsOpen
  <1>2. table[i] \in Rows(p)
    BY DEF Rows, IsOpen
  <1>3. /\ e \in PeerState
        /\ Fine(e, <<>>, <<>>, Rows(p), losses = 0)
        /\ Agrees(e, <<>>, <<>>, Rows(p), losses = 0, lines = 0)
    BY <1>1 DEF SessionTypes, SessionInv, AgreeInv, LinkIdle
  <1>4. Len(<<>>) = 0 /\ NoData(<<>>)
    BY DEF NoData
  <1>5. e.una = e.nxt
    OBVIOUS
  <1>. HIDE DEF e
  <1>6. e.st = "established"
    <2>1. e.st \in {"syn_sent", "established", "fin_wait_1"}
      BY <1>2, <1>3 DEF Fine, Live
    <2>2. e.st # "syn_sent"
      BY <1>2, <1>3 DEF Fine, Handshake
    <2>3. CASE e.st = "fin_wait_1"
      <3>1. Gap(e.data, e.una) <= OctetsSent(e)
        BY <1>2, <1>3, <2>3 DEF Fine, Connected
      <3>2. OctetsSent(e) = Gap(e.data, e.nxt) - 1 /\ Gap(e.data, e.nxt) \in Nat
        BY <1>3, <2>3, Sent
      <3>3. QED
        BY <1>5, <3>1, <3>2
    <2>4. QED
      BY <2>1, <2>2, <2>3
  <1>7. table[i].next_seq = e.nxt
    <2>1. ReadUpto(Rows(p), e.nxt)
      BY <1>3, <1>4, <1>5, <1>6 DEF Agrees, NextAgrees, Quiet, Acked, Calm, Sending
    <2>2. QED
      BY <1>2, <2>1 DEF ReadUpto
  <1>8. table[i].curr_seq = e.rcv
    <2>1. SendsAt(Rows(p), e.rcv)
      BY <1>3, <1>4, <1>6 DEF Agrees, CurrAgrees, Quiet, Calm, Sending
    <2>2. QED
      BY <1>2, <2>1 DEF SendsAt
  <1>9. QED
    BY <1>7, <1>8 DEF e

\* With nothing under way, both ends of an active connection agree on both directions'
\* numbers, for every number of peers and slots, every window and every bound on what is
\* sent, lost or typed, as long as no line follows a loss: the slot and its peer compute
\* the numbers from different frames, in an order that their crossing on the link decides.
THEOREM QuietEndsAgreeHolds ==
  SessionSpec => []QuietEndsAgree
  <1> DEFINE Inv == SessionTypes /\ SessionInv /\ GotTyped /\ PromiseInv /\ AgreeInv
  <1>1. Inv => QuietEndsAgree
    BY AgreeInvQuiet
  <1>2. SessionInit => Inv
    BY InitTypes, SessionInvInit, PromiseInvInit, AgreeInvInit
  <1>3. Inv /\ [SessionNext]_sessionVars => Inv'
    BY StepTypes, SessionInvStep, GotStep, PromiseInvStep, AgreeInvStep
  <1>4. QED
    BY <1>1, <1>2, <1>3, PTL DEF SessionSpec
=============================================================================
