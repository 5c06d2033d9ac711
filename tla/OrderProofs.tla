----------------------------- MODULE OrderProofs -----------------------------
(***************************************************************************)
(* Proof about TcpSession that the user reads the octets of a connection   *)
(* once each and in order, until a frame is lost or a line typed, for      *)
(* every number of peers and slots, every window and every bound on what   *)
(* is sent, when the peers' data has the control bits PSH and ACK.         *)
(***************************************************************************)
EXTENDS PromiseProofs

USE DEF NOT_CONNECTED, ACTIVE, SYN_RCVD, SYN, ACK, FIN_ACK, SYN_ACK, PSH_ACK,
        TCP_NONE, TCP_REG, TCP_CLOSED, TCP_FIN_ACK

\* The data of an ACK is answered to the wrong port, so its sender repeats it and it is
\* printed again.
Pushes == DataBits \subseteq {PSH_ACK}

-----------------------------------------------------------------------------
(* What holds of a peer e, the links in from it and out to it, open, that  *)
(* it has an open slot, and the octets g printed of its connection, until  *)
(* a frame is lost or a line typed.                                        *)

Undisturbed == losses = 0 /\ lines = 0

\* The place of a number among those of the connection.
Place(e, n) == Gap(e.data, n)

\* The numbers a segment takes, other than a SYN's.
Size(s) == s.len + (IF s.bits = FIN_ACK THEN 1 ELSE 0)

\* The number the stack reads next, the one that follows segment n, and the last one
\* the stack has acknowledged.
Ahead(e, in) == IF in = <<>> THEN e.nxt ELSE in[1].seq
Following(e, in, n) == IF n = Len(in) THEN e.nxt ELSE in[n + 1].seq
LastAck(e, out) == IF out = <<>> THEN e.una ELSE out[Len(out)].ack

\* A closed connection leaves acknowledgements at most.
Rested(e, in, out) ==
    e.st = "closed" =>
        /\ e.una = e.nxt /\ out = <<>>
        /\ \A n \in 1 .. Len(in) : in[n].bits = ACK /\ in[n].len = 0

\* The SYN is under way, or its answer, or the SYN was refused.
Asking(e, in, out, open, g) ==
    e.st = "syn_sent" =>
        /\ g = <<>> /\ (in = <<>> \/ out = <<>>)
        /\ in # <<>> => Len(in) = 1 /\ in[1].bits = SYN
        /\ out # <<>> => Len(out) = 1 /\ out[1].bits = SYN_ACK /\ open

\* The segments on the link take up the numbers to the next to send; a FIN is the last.
Sequenced(e, in) ==
    InConnection(e) =>
        \A n \in 1 .. Len(in) :
            /\ \/ in[n].bits = ACK /\ in[n].len = 0
               \/ in[n].bits = PSH_ACK /\ in[n].len = 1
               \/ in[n].bits = FIN_ACK /\ in[n].len = 0 /\ ~Sending(e) /\ n = Len(in)
            /\ in[n].ack = e.rcv
            /\ Place(e, in[n].seq) + Size(in[n]) = Place(e, Following(e, in, n))
            /\ Place(e, in[n].seq) <= Place(e, e.nxt)

\* What was read is acknowledged, in the order of the numbers.
Acked(e, in, out) ==
    InConnection(e) =>
        /\ LastAck(e, out) = Ahead(e, in)
        /\ Place(e, e.una) <= Place(e, e.nxt)
        /\ Place(e, e.nxt) <= MaxOctets + (IF Sending(e) THEN 0 ELSE 1)
        /\ \A n \in 1 .. Len(out) :
              /\ out[n].toPeerPort /\ out[n].seq = e.rcv /\ out[n].len = 0
              /\ \/ out[n].bits = ACK
                 \/ out[n].bits = FIN_ACK /\ n = Len(out) /\ ~Sending(e) /\ in = <<>>
              /\ Place(e, e.una) <= Place(e, out[n].ack)
              /\ \A m \in n .. Len(out) : Place(e, out[n].ack) <= Place(e, out[m].ack)

\* The octet read next is the first that was not printed, up to the FIN.
ReadNext(e, in, open, g) ==
    InConnection(e) /\ (Sending(e) \/ in # <<>>) =>
        Place(e, Ahead(e, in)) = Len(g) /\ open

PrintedOnce(e, g) == \A k \in 1 .. Len(g) : Place(e, g[k]) = k - 1

InTurn(e, in, out, open, g) ==
    /\ e.st \in {"closed", "syn_sent", "established", "fin_wait_1", "fin_wait_2"}
    /\ Rested(e, in, out) /\ Asking(e, in, out, open, g)
    /\ Sequenced(e, in) /\ Acked(e, in, out)
    /\ ReadNext(e, in, open, g) /\ PrintedOnce(e, g)

OrderInv ==
    Undisturbed => \A p \in Peers : InTurn(peer[p], toStack[p], toPeer[p], Rows(p) # {}, got[p])

-----------------------------------------------------------------------------
(* The steps of a peer.                                                    *)

LEMMA Places ==
  ASSUME NEW e \in PeerState
  PROVE  /\ e.data \in Seqs /\ e.nxt \in Seqs /\ e.una \in Seqs /\ e.rcv \in Seqs
         /\ \A n \in Seqs : Place(e, n) \in Nat /\ Place(e, n) < SeqSpace
         /\ \A n, m \in Seqs : Place(e, n) = Place(e, m) => n = m
         /\ \A in \in Seq(Segment) : \A n \in 1 .. Len(in) :
               in[n].seq \in Seqs /\ Place(e, in[n].seq) \in Nat
         /\ \A out \in Seq(SentSegment) : \A n \in 1 .. Len(out) :
               out[n].ack \in Seqs /\ Place(e, out[n].ack) \in Nat
  <1>1. e.data \in Seqs /\ e.nxt \in Seqs /\ e.una \in Seqs /\ e.rcv \in Seqs
    BY DEF PeerState
  <1>2. \A n \in Seqs : Place(e, n) \in Nat /\ Place(e, n) < SeqSpace
    BY <1>1, GapValue DEF Place
  <1>3. \A n, m \in Seqs : Place(e, n) = Place(e, m) => n = m
    BY <1>1, GapSame DEF Place
  <1>4. ASSUME NEW in \in Seq(Segment), NEW n \in 1 .. Len(in) PROVE in[n].seq \in Seqs
    <2>1. in[n] \in Segment
      OBVIOUS
    <2>2. QED
      BY <2>1 DEF Segment
  <1>5. ASSUME NEW out \in Seq(SentSegment), NEW n \in 1 .. Len(out) PROVE out[n].ack \in Seqs
    <2>1. out[n] \in SentSegment
      OBVIOUS
    <2>2. QED
      BY <2>1 DEF SentSegment
  <1>6. QED
    BY <1>1, <1>2, <1>3, <1>4, <1>5

\* What is left of a queue without its first frame.
LEMMA TailLeft ==
  ASSUME NEW S, NEW q \in Seq(S), q # <<>>
  PROVE  IF Len(q) = 1 THEN Tail(q) = <<>> /\ Len(<<>>) = 0
                       ELSE /\ Tail(q) # <<>>
                            /\ Tail(q)[Len(Tail(q))] = q[Len(q)]
  <1>1. Tail(q) \in Seq(S) /\ Len(Tail(q)) = Len(q) - 1 /\ Len(q) \in Nat
    BY TailAt
  <1>2. \A t \in Seq(S) : Len(t) = 0 <=> t = <<>>
    OBVIOUS
  <1>3. CASE Len(q) = 1
    <2>1. Len(Tail(q)) = 0
      BY <1>1, <1>3
    <2>2. QED
      BY <1>1, <1>2, <1>3, <2>1
  <1>4. CASE Len(q) # 1
    <2>1. Len(Tail(q)) # 0 /\ Len(Tail(q)) \in 1 .. Len(Tail(q)) /\ Len(Tail(q)) + 1 = Len(q)
      <3>1. Len(q) # 0
        BY <1>2
      <3>2. QED
        BY <1>1, <1>4, <3>1
    <2>2. Tail(q)[Len(Tail(q))] = q[Len(Tail(q)) + 1]
      BY <2>1, TailAt
    <2>3. Tail(q) # <<>>
      BY <1>1, <1>2, <2>1
    <2>4. QED
      BY <1>4, <2>1, <2>2, <2>3
  <1>5. QED
    BY <1>3, <1>4

\* A connection starts with its SYN.
LEMMA ConnectInTurn ==
  ASSUME NEW s \in Segment, s.bits = SYN, NEW f \in PeerState, f.st = "syn_sent", NEW open
  PROVE  InTurn(f, Append(<<>>, s), <<>>, open, <<>>)
  <1>1. Append(<<>>, s) = <<s>> /\ Len(<<s>>) = 1 /\ <<s>>[1] = s /\ Len(<<>>) = 0
    OBVIOUS
  <1>2. QED
    BY <1>1 DEF InTurn, Rested, Asking, Sequenced, Acked, ReadNext, PrintedOnce,
                InConnection, Sending

\* The next octet, or the FIN, takes the next number.
LEMMA SendInTurn ==
  ASSUME NEW e \in PeerState, NEW in \in Seq(Segment), NEW out \in Seq(SentSegment),
         NEW open, NEW g, InTurn(e, in, out, open, g), e.st = "established",
         NEW s \in Segment, s.seq = e.nxt, s.ack = e.rcv,
         NEW f \in PeerState, f.una = e.una, f.data = e.data, f.rcv = e.rcv,
         f.nxt = Wrap(e.nxt + 1),
         \/ /\ f.st = "established" /\ s.bits = PSH_ACK /\ s.len = 1
            /\ Place(e, e.nxt) < MaxOctets
         \/ f.st = "fin_wait_1" /\ s.bits = FIN_ACK /\ s.len = 0
  PROVE  InTurn(f, Append(in, s), out, open, g)
  <1>1. /\ \A n \in 1 .. Len(in) : /\ Append(in, s)[n] = in[n]
                                   /\ n \in 1 .. Len(Append(in, s))
        /\ Append(in, s)[Len(in) + 1] = s /\ Len(Append(in, s)) = Len(in) + 1
        /\ \A n \in 1 .. Len(Append(in, s)) : n \in 1 .. Len(in) \/ n = Len(in) + 1
        /\ Len(in) \in Nat
    BY AppendAt
  <1>2. /\ Sequenced(e, in) /\ Acked(e, in, out) /\ ReadNext(e, in, open, g)
        /\ PrintedOnce(e, g) /\ InConnection(e) /\ Sending(e)
    BY DEF InTurn, InConnection, Sending
  <1>3. /\ InConnection(f) /\ (Sending(f) <=> f.st = "established")
        /\ \A n : Place(f, n) = Place(e, n)
    BY DEF InConnection, Sending, Place
  <1>4. Place(e, e.nxt) \in Nat /\ Place(e, e.una) \in Nat /\ e.nxt \in Seqs /\ e.data \in Seqs
        /\ MaxOctets \in Nat /\ MaxOctets + 1 < SeqSpace
        /\ \A n \in 1 .. Len(in) : in[n].seq \in Seqs /\ Place(e, in[n].seq) \in Nat
    BY Places, Numbers
  <1>5. Place(e, f.nxt) = Place(e, e.nxt) + 1
    <2>1. Gap(e.data, e.nxt) + 1 < SeqSpace
      BY <1>2, <1>4, Numbers DEF Acked, Place
    <2>2. QED
      BY <1>4, <2>1, GapNext DEF Place
  <1>6. Size(s) = 1
    BY DEF Size
  <1>7. /\ \A n \in 1 .. Len(in) : Following(f, Append(in, s), n) = Following(e, in, n)
        /\ Following(f, Append(in, s), Len(in) + 1) = f.nxt
    BY <1>1 DEF Following
  <1>8. Sequenced(f, Append(in, s))
    <2>. SUFFICES ASSUME NEW n \in 1 .. Len(Append(in, s))
                  PROVE  LET x == Append(in, s) IN
                         /\ \/ x[n].bits = ACK /\ x[n].len = 0
                            \/ x[n].bits = PSH_ACK /\ x[n].len = 1
                            \/ /\ x[n].bits = FIN_ACK /\ x[n].len = 0
                               /\ ~Sending(f) /\ n = Len(x)
                         /\ x[n].ack = f.rcv
                         /\ Place(f, x[n].seq) + Size(x[n]) = Place(f, Following(f, x, n))
                         /\ Place(f, x[n].seq) <= Place(f, f.nxt)
      BY DEF Sequenced
    <2>1. CASE n \in 1 .. Len(in)
      <3>1. /\ \/ in[n].bits = ACK /\ in[n].len = 0
               \/ in[n].bits = PSH_ACK /\ in[n].len = 1
            /\ in[n].ack = e.rcv
            /\ Place(e, in[n].seq) + Size(in[n]) = Place(e, Following(e, in, n))
            /\ Place(e, in[n].seq) <= Place(e, e.nxt)
        BY <1>2, <2>1 DEF Sequenced
      <3>2. Place(e, in[n].seq) <= Place(e, f.nxt)
        BY <1>4, <1>5, <2>1, <3>1
      <3>3. QED
        BY <1>1, <1>3, <1>7, <2>1, <3>1, <3>2
    <2>2. CASE n = Len(in) + 1
      BY <1>1, <1>3, <1>4, <1>5, <1>6, <1>7, <2>2
    <2>3. QED
      BY <1>1, <2>1, <2>2
  <1>9. Append(in, s) # <<>> /\ Ahead(f, Append(in, s)) = Ahead(e, in)
    <2>1. CASE in = <<>>
      BY <2>1 DEF Ahead
    <2>2. CASE in # <<>>
      <3>1. 1 \in 1 .. Len(in)
        BY <2>2
      <3>2. QED
        BY <1>1, <2>2, <3>1 DEF Ahead
    <2>3. QED
      BY <2>1, <2>2
  <1>10. Acked(f, Append(in, s), out)
    <2>1. LastAck(f, out) = LastAck(e, out)
      BY DEF LastAck
    <2>2. /\ Place(f, f.una) <= Place(f, f.nxt)
          /\ Place(f, f.nxt) <= MaxOctets + (IF Sending(f) THEN 0 ELSE 1)
      BY <1>2, <1>3, <1>4, <1>5 DEF Acked
    <2>3. \A n \in 1 .. Len(out) :
              /\ out[n].toPeerPort /\ out[n].seq = f.rcv /\ out[n].len = 0
              /\ out[n].bits = ACK
              /\ Place(f, f.una) <= Place(f, out[n].ack)
              /\ \A m \in n .. Len(out) : Place(f, out[n].ack) <= Place(f, out[m].ack)
      BY <1>2, <1>3 DEF Acked
    <2>4. QED
      BY <1>2, <1>9, <2>1, <2>2, <2>3 DEF Acked
  <1>11. ReadNext(f, Append(in, s), open, g) /\ PrintedOnce(f, g)
    BY <1>2, <1>3, <1>9 DEF ReadNext, PrintedOnce
  <1>12. QED
    BY <1>8, <1>10, <1>11 DEF InTurn, Rested, Asking

\* With nothing under way only a SYN is unanswered.
LEMMA RetransmitInTurn ==
  ASSUME NEW e \in PeerState, NEW open, NEW g, InTurn(e, <<>>, <<>>, open, g), e.una # e.nxt,
         NEW s \in Segment, e.st = "syn_sent" => s.bits = SYN
  PROVE  InTurn(e, Append(<<>>, s), <<>>, open, g)
  <1>1. Append(<<>>, s) = <<s>> /\ Len(<<s>>) = 1 /\ <<s>>[1] = s /\ Len(<<>>) = 0
    OBVIOUS
  <1>2. e.st # "closed"
    BY DEF InTurn, Rested
  <1>3. ~InConnection(e)
    BY DEF InTurn, Acked, LastAck, Ahead
  <1>4. QED
    BY <1>1, <1>2, <1>3 DEF InTurn, Rested, Asking, Sequenced, Acked, ReadNext,
                            InConnection

\* Only the answer to a SYN is dropped.
LEMMA DropInTurn ==
  ASSUME NEW e, NEW in, NEW out \in Seq(SentSegment), out # <<>>, NEW open, NEW g,
         InTurn(e, in, out, open, g), InConnection(e) => ~Head(out).toPeerPort
  PROVE  InTurn(e, in, Tail(out), open, g)
  <1>1. Head(out) = out[1] /\ 1 \in 1 .. Len(out) /\ Len(Tail(out)) = Len(out) - 1
    BY TailAt
  <1>2. ~InConnection(e)
    BY <1>1 DEF InTurn, Acked
  <1>3. e.st = "syn_sent"
    BY <1>2 DEF InTurn, Rested, InConnection
  <1>4. Tail(out) = <<>>
    BY <1>1, <1>3 DEF InTurn, Asking
  <1>5. QED
    BY <1>2, <1>3, <1>4 DEF InTurn, Rested, Asking, Sequenced, Acked, ReadNext

\* The connection has its first number, and the slot it will be read into.
LEMMA EstablishInTurn ==
  ASSUME NEW e \in PeerState, NEW in, NEW out \in Seq(SentSegment), out # <<>>,
         NEW open, NEW g, InTurn(e, in, out, open, g), e.st = "syn_sent", e.nxt = e.data,
         NEW f \in PeerState, f.st = "established", f.una = e.nxt, f.nxt = e.nxt,
         f.data = e.data,
         NEW s \in Segment, s.bits = ACK, s.seq = f.nxt, s.ack = f.rcv, s.len = 0
  PROVE  InTurn(f, Append(in, s), Tail(out), open, g)
  <1>1. in = <<>> /\ Len(out) = 1 /\ open /\ g = <<>>
    BY DEF InTurn, Asking
  <1>2. Append(in, s) = <<s>> /\ Len(<<s>>) = 1 /\ <<s>>[1] = s /\ <<s>> # <<>>
    BY <1>1
  <1>3. Tail(out) = <<>> /\ Len(<<>>) = 0
    BY <1>1, TailLeft
  <1>4. Place(f, f.nxt) = 0 /\ Size(s) = 0 /\ MaxOctets \in Nat
    BY GapSame, Places, Numbers DEF Place, Size
  <1>5. Sequenced(f, <<s>>)
    BY <1>2, <1>4 DEF Sequenced, Following
  <1>6. Acked(f, <<s>>, <<>>)
    BY <1>2, <1>3, <1>4 DEF Acked, LastAck, Ahead, Sending
  <1>7. ReadNext(f, <<s>>, open, <<>>) /\ PrintedOnce(f, <<>>)
    BY <1>1, <1>2, <1>3, <1>4 DEF ReadNext, PrintedOnce, Ahead
  <1>8. QED
    BY <1>1, <1>2, <1>3, <1>5, <1>6, <1>7 DEF InTurn, Rested, Asking

\* The peer takes every acknowledgement, one after the other.
LEMMA TakeInTurn ==
  ASSUME NEW e \in PeerState, NEW in \in Seq(Segment), NEW out \in Seq(SentSegment),
         out # <<>>, NEW open, NEW g, InTurn(e, in, out, open, g), InConnection(e)
  PROVE  /\ Head(out).seq = e.rcv /\ Head(out).bits # SYN_ACK /\ Head(out).len = 0
         /\ Head(out).bits # FIN_ACK =>
               InTurn(Accepted(Acknowledged(e, Head(out)), Head(out)), in, Tail(out), open, g)
         /\ Head(out).bits = FIN_ACK =>
               \A s \in Segment : s.bits = ACK /\ s.len = 0 =>
                  InTurn(Accepted(Acknowledged(e, Head(out)), Head(out)), Append(in, s),
                         Tail(out), open, g)
  <1>0. PICK r \in SentSegment : r = Head(out) /\ r = out[1]
    BY TailAt
  <1>1. /\ \A n \in 1 .. Len(Tail(out)) : n + 1 \in 1 .. Len(out) /\ Tail(out)[n] = out[n + 1]
        /\ 1 \in 1 .. Len(out) /\ Len(Tail(out)) = Len(out) - 1 /\ Len(out) \in Nat
    BY TailAt
  <1>2. Acked(e, in, out) /\ Sequenced(e, in) /\ ReadNext(e, in, open, g) /\ PrintedOnce(e, g)
    BY DEF InTurn
  <1>3. /\ r.toPeerPort /\ r.seq = e.rcv /\ r.len = 0
        /\ \/ r.bits = ACK
           \/ r.bits = FIN_ACK /\ 1 = Len(out) /\ ~Sending(e) /\ in = <<>>
        /\ Place(e, e.una) <= Place(e, r.ack)
        /\ \A m \in 1 .. Len(out) : Place(e, r.ack) <= Place(e, out[m].ack)
    BY <1>0, <1>1, <1>2 DEF Acked
  <1>4. /\ e.data \in Seqs /\ e.nxt \in Seqs /\ e.una \in Seqs /\ e.rcv \in Seqs
        /\ r.ack \in Seqs
        /\ Place(e, e.una) \in Nat /\ Place(e, e.nxt) \in Nat /\ Place(e, r.ack) \in Nat
        /\ \A n \in 1 .. Len(out) : Place(e, out[n].ack) \in Nat
        /\ \A n \in 1 .. Len(in) : in[n].seq \in Seqs /\ Place(e, in[n].seq) \in Nat
    BY Places DEF SentSegment
  <1>5. Place(e, r.ack) <= Place(e, e.nxt)
    <2>1. Len(out) \in 1 .. Len(out) /\ LastAck(e, out) = out[Len(out)].ack
      BY <1>1 DEF LastAck
    <2>2. Ahead(e, in) \in {e.nxt} \cup {in[n].seq : n \in 1 .. Len(in)}
      <3>1. in # <<>> => 1 \in 1 .. Len(in)
        OBVIOUS
      <3>2. QED
        BY <3>1 DEF Ahead
    <2>3. Place(e, Ahead(e, in)) <= Place(e, e.nxt)
      BY <1>2, <1>4, <2>2 DEF Sequenced
    <2>4. Place(e, out[Len(out)].ack) <= Place(e, e.nxt)
      BY <1>2, <2>1, <2>3 DEF Acked
    <2>5. Place(e, r.ack) <= Place(e, out[Len(out)].ack) /\ Place(e, out[Len(out)].ack) \in Nat
      BY <1>3, <1>4, <2>1
    <2>. QED
      BY <1>4, <2>4, <2>5
  <1>6. Gap(e.una, r.ack) <= Gap(e.una, e.nxt)
    <2>1. Gap(e.una, r.ack) = Place(e, r.ack) - Place(e, e.una)
      BY <1>3, <1>4, GapRest DEF Place
    <2>2. Gap(e.una, e.nxt) = Place(e, e.nxt) - Place(e, e.una)
      BY <1>2, <1>4, GapRest DEF Place, Acked
    <2>3. QED
      BY <1>4, <1>5, <2>1, <2>2
  <1> DEFINE h == Acknowledged(e, r)
             f == Accepted(h, r)
  <1>7. h = [e EXCEPT !.una = r.ack,
                      !.st = IF r.ack # e.nxt           THEN e.st
                             ELSE IF e.st = "fin_wait_1" THEN "fin_wait_2"
                             ELSE IF Closing(e)       THEN "closed"
                             ELSE e.st]
    BY <1>6 DEF Acknowledged
  <1>8. /\ h.una = r.ack /\ h.nxt = e.nxt /\ h.data = e.data /\ h.rcv = e.rcv
        /\ e.st \in {"established", "fin_wait_1", "fin_wait_2"}
        /\ h.st = IF r.ack = e.nxt /\ e.st = "fin_wait_1" THEN "fin_wait_2" ELSE e.st
        /\ h \in PeerState
    <2>1. e.st \in {"established", "fin_wait_1", "fin_wait_2"}
      BY DEF InTurn, InConnection
    <2>2. h \in PeerState
      BY PeerTyped
    <2>3. QED
      BY <1>7, <2>1, <2>2 DEF PeerState, Closing
  <1>. HIDE DEF h
  <1>9. CASE r.bits = ACK
    <2>1. /\ f.una = r.ack /\ f.nxt = e.nxt /\ f.data = e.data /\ f.rcv = e.rcv /\ f.st = h.st
      <3>0. e.rcv \in Seqs
        BY <1>4
      <3>1. Wrap(e.rcv + 0 + 0) = e.rcv
        BY <3>0, SeqSpaceAssumption DEF Wrap, Seqs
      <3>2. QED
        BY <1>3, <1>8, <1>9, <3>1 DEF Accepted, PeerState
    <2>2. InConnection(f) /\ (Sending(f) <=> Sending(e)) /\ \A n : Place(f, n) = Place(e, n)
      BY <1>8, <2>1 DEF InConnection, Sending, Place
    <2>. HIDE DEF f
    <2>3. Sequenced(f, in)
      BY <1>2, <2>1, <2>2 DEF Sequenced, Following
    <2>4. LastAck(f, Tail(out)) = LastAck(e, out)
      <3>1. CASE Len(out) = 1
        BY <1>0, <2>1, <3>1, TailLeft DEF LastAck
      <3>2. CASE Len(out) # 1
        BY <3>2, TailLeft DEF LastAck
      <3>3. QED
        BY <3>1, <3>2
    <2>5. ASSUME NEW n \in 1 .. Len(Tail(out))
          PROVE  LET t == Tail(out) IN
                 /\ t[n].toPeerPort /\ t[n].seq = f.rcv /\ t[n].len = 0
                 /\ \/ t[n].bits = ACK
                    \/ t[n].bits = FIN_ACK /\ n = Len(t) /\ ~Sending(f) /\ in = <<>>
                 /\ Place(f, f.una) <= Place(f, t[n].ack)
                 /\ \A m \in n .. Len(t) : Place(f, t[n].ack) <= Place(f, t[m].ack)
      <3>1. n + 1 \in 1 .. Len(out) /\ Tail(out)[n] = out[n + 1]
        BY <1>1
      <3>2. /\ out[n + 1].toPeerPort /\ out[n + 1].seq = e.rcv /\ out[n + 1].len = 0
            /\ \/ out[n + 1].bits = ACK
               \/ out[n + 1].bits = FIN_ACK /\ n + 1 = Len(out) /\ ~Sending(e) /\ in = <<>>
            /\ \A m \in n + 1 .. Len(out) : Place(e, out[n + 1].ack) <= Place(e, out[m].ack)
        BY <1>2, <3>1 DEF Acked
      <3>3. \A m \in n .. Len(Tail(out)) :
               m + 1 \in n + 1 .. Len(out) /\ Tail(out)[m] = out[m + 1]
        BY <1>1
      <3>4. Place(e, r.ack) <= Place(e, out[n + 1].ack)
        BY <1>3, <3>1
      <3>5. n + 1 = Len(out) => n = Len(Tail(out))
        <4>1. \A i, k, l \in Int : k = l - 1 /\ i + 1 = l => i = k
          OBVIOUS
        <4>2. /\ n \in Int /\ Len(out) \in Int /\ Len(Tail(out)) \in Int
              /\ Len(Tail(out)) = Len(out) - 1
          BY <1>1
        <4>. HIDE DEF f
        <4>3. QED
          BY <4>1, <4>2
      <3>6. \A m \in n .. Len(Tail(out)) :
               Place(e, out[n + 1].ack) <= Place(e, Tail(out)[m].ack)
        BY <3>2, <3>3
      <3>7. QED
        BY <2>1, <2>2, <3>1, <3>2, <3>4, <3>5, <3>6
    <2>6. Acked(f, in, Tail(out))
      BY <1>2, <1>5, <2>1, <2>2, <2>4, <2>5 DEF Acked, Ahead
    <2>7. ReadNext(f, in, open, g) /\ PrintedOnce(f, g)
      BY <1>2, <2>1, <2>2 DEF ReadNext, PrintedOnce, Ahead
    <2>8. Rested(f, in, Tail(out)) /\ Asking(f, in, Tail(out), open, g)
      BY <2>2 DEF Rested, Asking, InConnection
    <2>9. f.st \in {"closed", "syn_sent", "established", "fin_wait_1", "fin_wait_2"}
      BY <1>8, <2>1
    <2>10. InTurn(f, in, Tail(out), open, g)
      BY <2>3, <2>6, <2>7, <2>8, <2>9 DEF InTurn
    <2>11. QED
      BY <1>0, <1>3, <1>9, <2>10 DEF f, h
  <1>10. CASE r.bits = FIN_ACK
    <2>1. Len(out) = 1 /\ ~Sending(e) /\ in = <<>> /\ r.ack = e.nxt
      BY <1>0, <1>2, <1>3, <1>10 DEF Acked, LastAck, Ahead
    <2>2. h.st = "fin_wait_2"
      BY <1>8, <2>1 DEF Sending
    <2>3. f.st = "closed" /\ f.una = e.nxt /\ f.nxt = e.nxt /\ f.data = e.data
      BY <1>8, <1>10, <2>1, <2>2 DEF Accepted, PeerState
    <2>. HIDE DEF f
    <2>4. Tail(out) = <<>>
      BY <2>1, TailLeft
    <2>5. ASSUME NEW s \in Segment, s.bits = ACK, s.len = 0
          PROVE  InTurn(f, Append(in, s), Tail(out), open, g)
      <3>1. Append(in, s) = <<s>> /\ Len(<<s>>) = 1 /\ <<s>>[1] = s
        BY <2>1
      <3>2. Rested(f, <<s>>, <<>>)
        BY <2>3, <2>5, <3>1 DEF Rested
      <3>3. PrintedOnce(f, g)
        BY <1>2, <2>3 DEF PrintedOnce, Place
      <3>4. QED
        BY <2>3, <2>4, <3>1, <3>2, <3>3 DEF InTurn, Asking, Sequenced, Acked, ReadNext,
                                             InConnection
    <2>6. QED
      BY <1>0, <1>3, <1>10, <2>5 DEF f, h
  <1>11. QED
    BY <1>3, <1>9, <1>10

-----------------------------------------------------------------------------
(* The steps of the stack.                                                 *)

LEMMA NextAhead ==
  ASSUME NEW e \in PeerState, NEW in \in Seq(Segment), in # <<>>
  PROVE  /\ Ahead(e, in) = Head(in).seq /\ Ahead(e, Tail(in)) = Following(e, in, 1)
         /\ Following(e, in, 1) \in Seqs
         /\ \A n \in 1 .. Len(Tail(in)) : Following(e, Tail(in), n) = Following(e, in, n + 1)
  <1>1. /\ Head(in) = in[1] /\ 1 \in 1 .. Len(in) /\ Len(in) \in Nat
        /\ \A n \in 1 .. Len(Tail(in)) : n + 1 \in 1 .. Len(in) /\ Tail(in)[n] = in[n + 1]
        /\ Tail(in) \in Seq(Segment) /\ Len(Tail(in)) = Len(in) - 1
    BY TailAt
  <1>2. Ahead(e, Tail(in)) = Following(e, in, 1)
    <2>1. CASE Len(in) = 1
      BY <2>1, TailLeft DEF Ahead, Following
    <2>2. CASE Len(in) # 1
      <3>1. Tail(in) # <<>>
        BY <2>2, TailLeft
      <3>2. 1 \in 1 .. Len(Tail(in))
        BY <1>1, <3>1
      <3>3. QED
        BY <1>1, <2>2, <3>1, <3>2 DEF Ahead, Following
    <2>3. QED
      BY <2>1, <2>2
  <1>3. Following(e, in, 1) \in Seqs
    <2>1. Len(in) # 1 => 2 \in 1 .. Len(in)
      BY <1>1
    <2>2. in[1 + 1] = in[2]
      OBVIOUS
    <2>3. QED
      BY <2>1, <2>2, Places DEF Following
  <1>4. ASSUME NEW n \in 1 .. Len(Tail(in))
        PROVE  Following(e, Tail(in), n) = Following(e, in, n + 1)
    <2>1. \A i, k, l \in Int : k = l - 1 => (i = k <=> i + 1 = l)
      OBVIOUS
    <2>2. n = Len(Tail(in)) <=> n + 1 = Len(in)
      <3>1. /\ n \in Int /\ Len(in) \in Int /\ Len(Tail(in)) \in Int
            /\ Len(Tail(in)) = Len(in) - 1
        BY <1>1
      <3>2. QED
        BY <2>1, <3>1
    <2>3. n # Len(Tail(in)) => n + 1 \in 1 .. Len(Tail(in))
      OBVIOUS
    <2>4. QED
      BY <1>1, <2>2, <2>3 DEF Following
  <1>5. QED
    BY <1>1, <1>2, <1>3, <1>4 DEF Ahead

LEMMA TailSequenced ==
  ASSUME NEW e \in PeerState, NEW in \in Seq(Segment), in # <<>>, Sequenced(e, in)
  PROVE  Sequenced(e, Tail(in))
  <1>. SUFFICES ASSUME InConnection(e), NEW n \in 1 .. Len(Tail(in))
                PROVE  LET t == Tail(in) IN
                       /\ \/ t[n].bits = ACK /\ t[n].len = 0
                          \/ t[n].bits = PSH_ACK /\ t[n].len = 1
                          \/ /\ t[n].bits = FIN_ACK /\ t[n].len = 0
                             /\ ~Sending(e) /\ n = Len(t)
                       /\ t[n].ack = e.rcv
                       /\ Place(e, t[n].seq) + Size(t[n]) = Place(e, Following(e, t, n))
                       /\ Place(e, t[n].seq) <= Place(e, e.nxt)
    BY DEF Sequenced
  <1>1. /\ n + 1 \in 1 .. Len(in) /\ Tail(in)[n] = in[n + 1]
        /\ Len(Tail(in)) = Len(in) - 1 /\ Len(in) \in Nat
        /\ Following(e, Tail(in), n) = Following(e, in, n + 1)
    BY TailAt, NextAhead
  <1>2. n + 1 = Len(in) => n = Len(Tail(in))
    <2>1. \A i, k, l \in Int : k = l - 1 /\ i + 1 = l => i = k
      OBVIOUS
    <2>2. /\ n \in Int /\ Len(in) \in Int /\ Len(Tail(in)) \in Int
          /\ Len(Tail(in)) = Len(in) - 1
      BY <1>1
    <2>3. QED
      BY <2>1, <2>2
  <1>3. QED
    BY <1>1, <1>2 DEF Sequenced

\* What the stack may read.
LEMMA ReadKinds ==
  ASSUME NEW e, NEW in \in Seq(Segment), in # <<>>, NEW out, NEW open, NEW g,
         InTurn(e, in, out, open, g)
  PROVE  /\ Head(in).bits \in {SYN, ACK, PSH_ACK, FIN_ACK}
         /\ Head(in).bits = SYN => e.st = "syn_sent"
         /\ Head(in).bits = ACK => Head(in).len = 0
         /\ Head(in).bits = FIN_ACK => Head(in).len = 0
         /\ Head(in).bits \in {PSH_ACK, FIN_ACK} =>
               InConnection(e) /\ open /\ Head(in).ack = e.rcv
  <1>1. Head(in) = in[1] /\ 1 \in 1 .. Len(in)
    BY TailAt
  <1>2. CASE e.st = "closed"
    BY <1>1, <1>2 DEF InTurn, Rested
  <1>3. CASE e.st = "syn_sent"
    BY <1>1, <1>3 DEF InTurn, Asking
  <1>4. CASE InConnection(e)
    BY <1>1, <1>4 DEF InTurn, Sequenced, ReadNext
  <1>5. QED
    BY <1>2, <1>3, <1>4 DEF InConnection

\* A SYN is answered from its slot, or refused.
LEMMA ReadSyn ==
  ASSUME NEW e, NEW in \in Seq(Segment), in # <<>>, NEW out \in Seq(SentSegment),
         NEW open, NEW g, InTurn(e, in, out, open, g), Head(in).bits = SYN,
         NEW open2, NEW out2,
         \/ out2 = out
         \/ open2 /\ \E r \in SentSegment : out2 = Append(out, r) /\ r.bits = SYN_ACK
  PROVE  InTurn(e, Tail(in), out2, open2, g)
  <1>1. e.st = "syn_sent" /\ ~InConnection(e)
    BY ReadKinds DEF InConnection
  <1>2. Len(in) = 1 /\ out = <<>> /\ g = <<>>
    BY <1>1 DEF InTurn, Asking
  <1>3. Tail(in) = <<>>
    BY <1>2, TailLeft
  <1>4. out2 # <<>> => Len(out2) = 1 /\ out2[1].bits = SYN_ACK /\ open2
    <2>1. ASSUME NEW r \in SentSegment, out2 = Append(out, r), r.bits = SYN_ACK
          PROVE  Len(out2) = 1 /\ out2[1].bits = SYN_ACK
      BY <1>2, <2>1
    <2>2. QED
      BY <1>2, <2>1
  <1>5. QED
    BY <1>1, <1>2, <1>3, <1>4 DEF InTurn, Rested, Asking, Sequenced, Acked, ReadNext

\* An acknowledgement takes no number.
LEMMA ReadAck ==
  ASSUME NEW e \in PeerState, NEW in \in Seq(Segment), in # <<>>, NEW out, NEW open, NEW g,
         InTurn(e, in, out, open, g), Head(in).bits = ACK, NEW open2, open => open2
  PROVE  InTurn(e, Tail(in), out, open2, g)
  <1>1. /\ Head(in) = in[1] /\ 1 \in 1 .. Len(in) /\ Head(in).len = 0
        /\ \A n \in 1 .. Len(Tail(in)) : n + 1 \in 1 .. Len(in) /\ Tail(in)[n] = in[n + 1]
    BY TailAt, ReadKinds
  <1>2. e.st # "syn_sent"
    BY <1>1 DEF InTurn, Asking
  <1>3. Rested(e, Tail(in), out)
    BY <1>1 DEF InTurn, Rested
  <1>4. Sequenced(e, Tail(in))
    BY TailSequenced DEF InTurn
  <1>5. InConnection(e) => Ahead(e, Tail(in)) = Ahead(e, in)
    <2>. SUFFICES ASSUME InConnection(e) PROVE Ahead(e, Tail(in)) = Ahead(e, in)
      OBVIOUS
    <2>1. Place(e, in[1].seq) + Size(in[1]) = Place(e, Following(e, in, 1))
      BY <1>1 DEF InTurn, Sequenced
    <2>2. Size(in[1]) = 0
      BY <1>1 DEF Size
    <2>3. in[1].seq \in Seqs /\ Place(e, in[1].seq) \in Nat /\ Following(e, in, 1) \in Seqs
      BY <1>1, Places, NextAhead
    <2>4. Place(e, in[1].seq) = Place(e, Following(e, in, 1))
      BY <2>1, <2>2, <2>3
    <2>5. in[1].seq = Following(e, in, 1)
      BY <2>3, <2>4, Places
    <2>6. QED
      BY <1>1, <2>5, NextAhead
  <1>6. Acked(e, Tail(in), out)
    <2>1. in # <<>>
      OBVIOUS
    <2>2. QED
      BY <1>5, <2>1 DEF InTurn, Acked
  <1>7. ReadNext(e, Tail(in), open2, g)
    BY <1>5 DEF InTurn, ReadNext
  <1>8. QED
    BY <1>2, <1>3, <1>4, <1>6, <1>7 DEF InTurn, Asking

\* The frames that answer the octet or the FIN of a segment.
AnswersTaken(s, out, out2) ==
    /\ out2 \in Seq(SentSegment) /\ Len(out2) > Len(out)
    /\ \A n \in 1 .. Len(out) : out2[n] = out[n]
    /\ \A n \in 1 .. Len(out2) :
          n \notin 1 .. Len(out) =>
              /\ out2[n].toPeerPort /\ out2[n].len = 0
              /\ out2[n].seq = s.ack /\ out2[n].ack = Wrap(s.seq + Size(s))
              /\ \/ out2[n].bits = ACK
                 \/ out2[n].bits = FIN_ACK /\ s.bits = FIN_ACK /\ n = Len(out2)

\* An octet is printed in its turn, and it or a FIN answered in its turn.
LEMMA ReadTaken ==
  ASSUME NEW e \in PeerState, NEW in \in Seq(Segment), in # <<>>,
         NEW out \in Seq(SentSegment), NEW open, NEW g \in Seq(Seqs),
         InTurn(e, in, out, open, g), Head(in).bits \in {PSH_ACK, FIN_ACK},
         NEW out2, AnswersTaken(Head(in), out, out2),
         NEW open2, Head(in).bits = PSH_ACK => open2,
         NEW g2, g2 = IF Head(in).bits = PSH_ACK THEN Append(g, Head(in).seq) ELSE g
  PROVE  InTurn(e, Tail(in), out2, open2, g2)
  <1>0. PICK s \in Segment : s = Head(in) /\ s = in[1]
    BY TailAt
  <1>1. InConnection(e) /\ open /\ 1 \in 1 .. Len(in)
    <2>1. 1 \in 1 .. Len(in)
      BY TailAt
    <2>2. in[1].bits \in {PSH_ACK, FIN_ACK} /\ Sequenced(e, in) /\ ReadNext(e, in, open, g)
      BY <1>0 DEF InTurn
    <2>3. InConnection(e)
      BY <2>1, <2>2 DEF InTurn, Rested, Asking, InConnection
    <2>4. QED
      BY <2>1, <2>2, <2>3 DEF ReadNext
  <1>2. /\ Sequenced(e, in) /\ Acked(e, in, out) /\ ReadNext(e, in, open, g)
        /\ PrintedOnce(e, g)
    BY DEF InTurn
  <1>3. /\ \/ s.bits = PSH_ACK /\ s.len = 1
           \/ s.bits = FIN_ACK /\ s.len = 0 /\ ~Sending(e) /\ 1 = Len(in)
        /\ s.ack = e.rcv
        /\ Place(e, s.seq) + Size(s) = Place(e, Following(e, in, 1))
        /\ Place(e, s.seq) <= Place(e, e.nxt)
    <2>1. s.bits \in {PSH_ACK, FIN_ACK} /\ in[1] = s
      BY <1>0
    <2>2. /\ \/ in[1].bits = ACK /\ in[1].len = 0
             \/ in[1].bits = PSH_ACK /\ in[1].len = 1
             \/ in[1].bits = FIN_ACK /\ in[1].len = 0 /\ ~Sending(e) /\ 1 = Len(in)
          /\ in[1].ack = e.rcv
          /\ Place(e, in[1].seq) + Size(in[1]) = Place(e, Following(e, in, 1))
          /\ Place(e, in[1].seq) <= Place(e, e.nxt)
      BY <1>1, <1>2 DEF Sequenced
    <2>3. QED
      BY <2>1, <2>2
  <1>4. Size(s) = 1
    BY <1>3 DEF Size
  <1> DEFINE next == Following(e, in, 1)
  <1>5. /\ e.data \in Seqs /\ s.seq \in Seqs /\ next \in Seqs
        /\ Place(e, s.seq) \in Nat /\ Place(e, next) \in Nat /\ Place(e, next) < SeqSpace
        /\ Place(e, e.una) \in Nat /\ Place(e, e.nxt) \in Nat
        /\ \A n \in 1 .. Len(out) : Place(e, out[n].ack) \in Nat
    BY Places, NextAhead DEF Segment
  <1>6. Wrap(s.seq + Size(s)) = next
    <2>1. Gap(e.data, s.seq) + 1 < SeqSpace
      BY <1>3, <1>4, <1>5 DEF Place
    <2>2. Wrap(s.seq + 1) \in Seqs /\ Gap(e.data, Wrap(s.seq + 1)) = Gap(e.data, s.seq) + 1
      BY <1>5, <2>1, GapNext
    <2>3. Place(e, Wrap(s.seq + 1)) = Place(e, next)
      BY <1>3, <1>4, <2>2 DEF Place
    <2>4. QED
      BY <1>4, <1>5, <2>2, <2>3, Places
  <1>7. Ahead(e, in) = s.seq /\ Ahead(e, Tail(in)) = next
    BY <1>0, NextAhead
  <1>8. Sequenced(e, Tail(in))
    BY <1>2, TailSequenced
  <1>9. s.bits = FIN_ACK => Tail(in) = <<>>
    BY <1>3, TailLeft
  <1>. HIDE DEF next
  <1>10. Acked(e, Tail(in), out2)
    <2>1. /\ out2 \in Seq(SentSegment) /\ Len(out2) > Len(out)
          /\ \A n \in 1 .. Len(out) : out2[n] = out[n]
          /\ \A n \in 1 .. Len(out2) :
                n \notin 1 .. Len(out) =>
                    /\ out2[n].toPeerPort /\ out2[n].len = 0
                    /\ out2[n].seq = e.rcv /\ out2[n].ack = next
                    /\ \/ out2[n].bits = ACK
                       \/ out2[n].bits = FIN_ACK /\ s.bits = FIN_ACK /\ n = Len(out2)
      BY <1>0, <1>3, <1>6 DEF AnswersTaken
    <2>2. Len(out2) \in 1 .. Len(out2) /\ Len(out2) \notin 1 .. Len(out) /\ out2 # <<>>
      <3>1. Len(out) \in Nat /\ Len(out2) \in Nat
        BY <2>1
      <3>2. Len(out2) # 0 /\ Len(out2) \in 1 .. Len(out2)
        BY <2>1, <3>1
      <3>3. \A t \in Seq(SentSegment) : Len(t) # 0 => t # <<>>
        OBVIOUS
      <3>4. QED
        BY <2>1, <3>1, <3>2, <3>3
    <2>3. LastAck(e, out2) = next
      BY <2>1, <2>2 DEF LastAck
    <2>4. Place(e, e.una) <= Place(e, next)
          /\ \A n \in 1 .. Len(out) : Place(e, out[n].ack) <= Place(e, next)
      <3>1. Place(e, LastAck(e, out)) = Place(e, s.seq) /\ Place(e, s.seq) <= Place(e, next)
        <4>1. LastAck(e, out) = s.seq
          BY <1>1, <1>2, <1>7 DEF Acked
        <4>2. Place(e, s.seq) + 1 = Place(e, next)
          BY <1>3, <1>4 DEF next
        <4>3. QED
          BY <1>5, <4>1, <4>2
      <3>2. CASE out = <<>>
        <4>1. \A n \in 1 .. Len(out) : FALSE
          BY <3>2
        <4>2. LastAck(e, out) = e.una
          BY <3>2 DEF LastAck
        <4>3. QED
          BY <1>5, <3>1, <4>1, <4>2
      <3>3. CASE out # <<>>
        <4>1. Len(out) \in 1 .. Len(out) /\ LastAck(e, out) = out[Len(out)].ack
              /\ \A n \in 1 .. Len(out) : Len(out) \in n .. Len(out)
          BY <3>3 DEF LastAck
        <4>2. /\ Place(e, e.una) <= Place(e, out[Len(out)].ack)
              /\ \A n \in 1 .. Len(out) : Place(e, out[n].ack) <= Place(e, out[Len(out)].ack)
          BY <1>1, <1>2, <4>1 DEF Acked
        <4>3. QED
          BY <1>5, <3>1, <4>1, <4>2
      <3>4. QED
        BY <3>2, <3>3
    <2>5. ASSUME NEW n \in 1 .. Len(out)
          PROVE  /\ out[n].toPeerPort /\ out[n].seq = e.rcv /\ out[n].len = 0
                 /\ out[n].bits = ACK
                 /\ Place(e, e.una) <= Place(e, out[n].ack)
                 /\ \A m \in n .. Len(out) : Place(e, out[n].ack) <= Place(e, out[m].ack)
      BY <1>1, <1>2 DEF Acked
    <2>6. ASSUME NEW n \in 1 .. Len(out2)
          PROVE  /\ out2[n].toPeerPort /\ out2[n].seq = e.rcv /\ out2[n].len = 0
                 /\ \/ out2[n].bits = ACK
                    \/ /\ out2[n].bits = FIN_ACK /\ n = Len(out2)
                       /\ ~Sending(e) /\ Tail(in) = <<>>
                 /\ Place(e, e.una) <= Place(e, out2[n].ack)
                 /\ \A m \in n .. Len(out2) : Place(e, out2[n].ack) <= Place(e, out2[m].ack)
      <3>1. /\ out2[n].toPeerPort /\ out2[n].seq = e.rcv /\ out2[n].len = 0
            /\ \/ out2[n].bits = ACK
               \/ /\ out2[n].bits = FIN_ACK /\ n = Len(out2)
                  /\ ~Sending(e) /\ Tail(in) = <<>>
            /\ Place(e, e.una) <= Place(e, out2[n].ack)
        BY <1>3, <1>9, <2>1, <2>4, <2>5
      <3>2. ASSUME NEW m \in n .. Len(out2)
            PROVE  Place(e, out2[n].ack) <= Place(e, out2[m].ack)
        <4>1. m \in 1 .. Len(out2) /\ (m \in 1 .. Len(out) => n \in 1 .. Len(out))
          BY <2>1
        <4>2. CASE m \in 1 .. Len(out)
          <5>1. m \in n .. Len(out)
            BY <4>1, <4>2
          <5>2. QED
            BY <2>1, <2>5, <4>1, <4>2, <5>1
        <4>3. CASE m \notin 1 .. Len(out)
          <5>1. out2[m].ack = next
            BY <2>1, <4>1, <4>3
          <5>2. out2[n].ack = next \/ (n \in 1 .. Len(out) /\ out2[n].ack = out[n].ack)
            BY <2>1
          <5>3. QED
            BY <1>5, <2>4, <5>1, <5>2
        <4>4. QED
          BY <4>2, <4>3
      <3>3. QED
        BY <3>1, <3>2
    <2>7. QED
      BY <1>2, <1>7, <2>3, <2>6 DEF Acked
  <1>11. Place(e, s.seq) = Len(g) /\ Len(g) \in Nat
    BY <1>1, <1>2, <1>7 DEF ReadNext
  <1>12. ReadNext(e, Tail(in), open2, g2) /\ PrintedOnce(e, g2)
    <2>1. CASE s.bits = PSH_ACK
      <3>1. /\ g2 = Append(g, s.seq) /\ Len(g2) = Len(g) + 1 /\ open2
            /\ \A k \in 1 .. Len(g2) :
                  (k \in 1 .. Len(g) /\ g2[k] = g[k]) \/ (k = Len(g) + 1 /\ g2[k] = s.seq)
        BY <1>0, <1>5, <2>1, AppendAt
      <3>2. Place(e, next) = Len(g2)
        BY <1>3, <1>4, <1>11, <3>1 DEF next
      <3>3. PrintedOnce(e, g2)
        <4>1. ASSUME NEW k \in 1 .. Len(g2) PROVE Place(e, g2[k]) = k - 1
          BY <1>2, <1>11, <3>1 DEF PrintedOnce
        <4>2. QED
          BY <4>1 DEF PrintedOnce
      <3>4. QED
        BY <1>7, <3>1, <3>2, <3>3 DEF ReadNext
    <2>2. CASE s.bits = FIN_ACK
      BY <1>0, <1>2, <1>3, <1>9, <2>2 DEF ReadNext
    <2>3. QED
      BY <1>3, <2>1, <2>2
  <1>13. QED
    BY <1>1, <1>8, <1>10, <1>12 DEF InTurn, Rested, Asking, InConnection

\* The frame that answers an octet or a FIN.
LEMMA AnswerNumbers ==
  ASSUME NEW p \in Peers, NEW s, Sendable(p, s), s.bits \in {PSH_ACK, FIN_ACK}, NEW iss \in Isns
  PROVE  LET r == PayloadReply(s, iss) IN
         /\ r \in SentSegment /\ r.peer = p /\ r.toPeerPort /\ r.bits = ACK
         /\ r.seq = s.ack /\ r.ack = Wrap(s.seq + Size(s)) /\ r.len = 0
  <1>1. /\ s \in Segment /\ s.peer = p /\ s.len \in {0, 1}
        /\ s.bits = PSH_ACK => s.len = 1
        /\ s.bits = FIN_ACK => s.len = 0
    BY DEF Sendable
  <1>2. Int8(s.len) = s.len
    BY <1>1 DEF Int8
  <1>3. PayloadReply(s, iss) \in SentSegment
    BY <1>1, PayloadReplyType
  <1>4. Size(s) = 1 /\ (s.bits = PSH_ACK => Int8(s.len) = 1)
    BY <1>1, <1>2 DEF Size
  <1>5. /\ PayloadReply(s, iss).peer = s.peer /\ PayloadReply(s, iss).toPeerPort
        /\ PayloadReply(s, iss).bits = ACK /\ PayloadReply(s, iss).seq = s.ack
    <2>1. s.bits # SYN /\ (s.bits # ACK) = TRUE
      OBVIOUS
    <2>2. PayloadReply(s, iss).toPeerPort = (s.bits # ACK)
      BY DEF PayloadReply
    <2>3. QED
      BY <2>1, <2>2 DEF PayloadReply
  <1>6. PayloadReply(s, iss).ack = Wrap(s.seq + 1)
    BY <1>4 DEF PayloadReply
  <1>7. PayloadReply(s, iss).len = 0
    <2>1. CASE s.bits = PSH_ACK
      BY <1>1, <1>4, <2>1 DEF PayloadReply
    <2>2. CASE s.bits = FIN_ACK
      BY <1>1, <2>2 DEF PayloadReply
    <2>3. QED
      BY <2>1, <2>2
  <1>8. QED
    BY <1>1, <1>3, <1>4, <1>5, <1>6, <1>7

\* A peer with an open slot is answered; its octets are printed, and its slot stays open
\* until its FIN.
LEMMA ReceiveAnswers ==
  ASSUME TableInv, NEW p \in Peers, NEW s, Sendable(p, s), Receive(s)
  PROVE  /\ s.len = 0 => printed' = <<>>
         /\ s.bits = SYN /\ sent' # <<>> => Rows(p)' # {}
         /\ s.bits \in {ACK, PSH_ACK} /\ Rows(p) # {} => Rows(p)' # {}
         /\ s.bits \in {PSH_ACK, FIN_ACK} /\ Rows(p) # {} =>
               \E r \in SentSegment :
                  /\ r.peer = p /\ r.toPeerPort /\ r.bits = ACK
                  /\ r.seq = s.ack /\ r.ack = Wrap(s.seq + Size(s)) /\ r.len = 0
                  /\ sent' = <<r>> \/ (s.bits = FIN_ACK /\ sent' = <<r, SecondReply(r)>>)
  <1>0. /\ table \in [Slots -> Entry] /\ s \in Segment /\ s.peer = p
        /\ s.bits \in {SYN, ACK, FIN_ACK, PSH_ACK}
    BY DEF TableInv, TableType, Sendable
  <1>1. ASSUME s.len = 0 PROVE printed' = <<>>
    <2>1. Int8(s.len) = 0
      BY <1>1 DEF Int8
    <2>2. \A e : PayloadOctets(e, s) = 0
      BY <2>1 DEF PayloadOctets
    <2>3. QED
      BY <2>2 DEF Receive, ReceiveLimitReached, ReceiveNoReply, ReceiveReply, ReceiveFinAck,
                  Output
  <1>2. CASE Refuses(p)
    <2>1. Rows(p) = {} /\ sent' = <<>>
      BY <1>2 DEF Refuses, LimitReached, Unknown, Rows
    <2>2. QED
      BY <1>1, <2>1
  <1>3. ASSUME NEW i \in Slots, Selected(table, p, i), Ends(s, i)
        PROVE  /\ s.bits = FIN_ACK
               /\ \E r \in SentSegment :
                     /\ r.peer = p /\ r.toPeerPort /\ r.bits = ACK
                     /\ r.seq = s.ack /\ r.ack = Wrap(s.seq + Size(s)) /\ r.len = 0
                     /\ sent' = <<r, SecondReply(r)>>
    <2>1. PICK iss \in Isns : sent' = <<PayloadReply(s, iss), SecondReply(PayloadReply(s, iss))>>
      BY <1>3 DEF Ends
    <2>2. s.bits = FIN_ACK
      BY <1>3 DEF Ends
    <2>3. QED
      BY <2>1, <2>2, AnswerNumbers
  <1>4. ASSUME NEW i \in Slots, Selected(table, p, i), Records(s, i)
        PROVE  /\ s.bits = SYN => Rows(p)' # {}
               /\ s.bits \in {ACK, PSH_ACK} /\ Rows(p) # {} => Rows(p)' # {}
               /\ s.bits \in {PSH_ACK, FIN_ACK} =>
                     \E r \in SentSegment :
                        /\ r.peer = p /\ r.toPeerPort /\ r.bits = ACK
                        /\ r.seq = s.ack /\ r.ack = Wrap(s.seq + Size(s)) /\ r.len = 0
                        /\ sent' = <<r>>
    <2> DEFINE x == PayloadEntry(table[i], s)
    <2>1. table[i] \in Entry /\ table' = [table EXCEPT ![i] = x]
      BY <1>0, <1>4 DEF Records
    <2>2. IsOpen(i) => table[i].peer = p
      BY <1>4 DEF Selected, Found, FirstFree, IsOpen
    <2>3. /\ x \in Entry
          /\ s.bits = SYN => x.peer = p /\ x.status = SYN_RCVD
          /\ s.bits # SYN => /\ x.peer = table[i].peer
                             /\ x.status = NOT_CONNECTED <=> ~IsOpen(i)
      BY <1>0, <2>1, PayloadEntryEffect DEF IsOpen
    <2>. HIDE DEF x
    <2>4. /\ Rows(p)' = IF x.status # NOT_CONNECTED THEN {x} ELSE {}
          /\ Rows(p) = IF IsOpen(i) THEN {table[i]} ELSE {}
      <3>1. x.peer = p \/ x.status = NOT_CONNECTED
        BY <2>2, <2>3
      <3>2. QED
        BY <1>4, <2>1, <2>3, <3>1, OneSlot
    <2>5. ASSUME s.bits \in {PSH_ACK, FIN_ACK}
          PROVE  \E r \in SentSegment :
                     /\ r.peer = p /\ r.toPeerPort /\ r.bits = ACK
                     /\ r.seq = s.ack /\ r.ack = Wrap(s.seq + Size(s)) /\ r.len = 0
                     /\ sent' = <<r>>
      <3>1. PICK iss \in Isns : sent' = <<PayloadReply(s, iss)>>
        BY <1>4, <2>5 DEF Records
      <3>2. QED
        BY <2>5, <3>1, AnswerNumbers
    <2>6. QED
      BY <2>3, <2>4, <2>5
  <1>5. QED
    <2>1. s.bits = SYN => ~ \E i \in Slots : Ends(s, i)
      BY DEF Ends
    <2>2. QED
      BY <1>1, <1>2, <1>3, <1>4, <2>1, ReceiveCases

\* One frame or two at the end of a queue.
LEMMA AddAnswers ==
  ASSUME NEW p \in Peers, NEW s, NEW out \in Seq(SentSegment), NEW r \in SentSegment,
         r.toPeerPort, r.bits = ACK, r.seq = s.ack, r.ack = Wrap(s.seq + Size(s)), r.len = 0,
         NEW q \in Seq(SentSegment),
         q = <<r>> \/ (s.bits = FIN_ACK /\ q = <<r, SecondReply(r)>>)
  PROVE  AnswersTaken(s, out, out \o q)
  <1>1. /\ out \o q \in Seq(SentSegment) /\ Len(out \o q) = Len(out) + Len(q)
        /\ \A n \in 1 .. Len(out) : (out \o q)[n] = out[n]
        /\ \A n \in 1 .. Len(out) + Len(q) :
              n \notin 1 .. Len(out) =>
                 n - Len(out) \in 1 .. Len(q) /\ (out \o q)[n] = q[n - Len(out)]
        /\ Len(out) \in Nat
    OBVIOUS
  <1>2. SecondReply(r) = [r EXCEPT !.bits = FIN_ACK]
    BY DEF SecondReply
  <1>3. /\ SecondReply(r).toPeerPort /\ SecondReply(r).bits = FIN_ACK /\ SecondReply(r).len = 0
        /\ SecondReply(r).seq = s.ack /\ SecondReply(r).ack = Wrap(s.seq + Size(s))
    BY <1>2 DEF SentSegment
  <1>4. Len(q) \in {1, 2} /\ \A k \in 1 .. Len(q) :
              /\ q[k].toPeerPort /\ q[k].len = 0
              /\ q[k].seq = s.ack /\ q[k].ack = Wrap(s.seq + Size(s))
              /\ q[k].bits = ACK \/ (q[k].bits = FIN_ACK /\ s.bits = FIN_ACK /\ k = Len(q))
    <2>1. CASE q = <<r>>
      BY <2>1
    <2>2. CASE s.bits = FIN_ACK /\ q = <<r, SecondReply(r)>>
      <3>1. /\ Len(q) = 2 /\ q[1] = r /\ q[2] = SecondReply(r)
            /\ \A k \in 1 .. Len(q) : k = 1 \/ k = 2
        BY <2>2
      <3>2. QED
        BY <1>3, <2>2, <3>1
    <2>3. QED
      BY <2>1, <2>2
  <1>5. ASSUME NEW n \in 1 .. Len(out \o q), n \notin 1 .. Len(out)
        PROVE  /\ (out \o q)[n].toPeerPort /\ (out \o q)[n].len = 0
               /\ (out \o q)[n].seq = s.ack /\ (out \o q)[n].ack = Wrap(s.seq + Size(s))
               /\ \/ (out \o q)[n].bits = ACK
                  \/ /\ (out \o q)[n].bits = FIN_ACK /\ s.bits = FIN_ACK
                     /\ n = Len(out \o q)
    <2> DEFINE k == n - Len(out)
    <2>1. k \in 1 .. Len(q) /\ (out \o q)[n] = q[k]
      BY <1>1, <1>5
    <2>2. k = Len(q) => n = Len(out \o q)
      BY <1>1
    <2>. HIDE DEF k
    <2>3. QED
      BY <1>4, <2>1, <2>2
  <1>6. Len(out \o q) > Len(out)
    <2>1. \A i, k, l \in Int : l = i + k /\ k \in {1, 2} => l > i
      OBVIOUS
    <2>2. Len(out) \in Int /\ Len(q) \in Int /\ Len(out \o q) \in Int
      BY <1>1
    <2>3. QED
      BY <1>1, <1>4, <2>1, <2>2
  <1>7. QED
    BY <1>1, <1>5, <1>6 DEF AnswersTaken

\* An octet is printed once, so that the record of what was printed is complete.
LEMMA NeverTwice ==
  ASSUME NEW e, NEW g \in Seq(Seqs), PrintedOnce(e, g), NEW n
  PROVE  ~Twice(g, n)
  <1>. SUFFICES ASSUME Len(g) > 1, g[Len(g)] = g[Len(g) - 1] PROVE FALSE
    BY DEF Twice
  <1>1. Len(g) \in 1 .. Len(g) /\ Len(g) - 1 \in 1 .. Len(g) /\ Len(g) \in Nat
    OBVIOUS
  <1>2. Place(e, g[Len(g)]) = Len(g) - 1 /\ Place(e, g[Len(g) - 1]) = Len(g) - 1 - 1
    BY <1>1 DEF PrintedOnce
  <1>3. QED
    BY <1>1, <1>2
-----------------------------------------------------------------------------
(* The steps of a peer, in the state.                                      *)

InTurnAt(p) == InTurn(peer[p], toStack[p], toPeer[p], Rows(p) # {}, got[p])

LEMMA KnownTurn ==
  ASSUME NEW p \in Peers, Known, OrderInv, Undisturbed
  PROVE  /\ InTurnAt(p) /\ Rows(p)' = Rows(p)
         /\ peer[p] \in PeerState /\ peer'[p] \in PeerState /\ peer \in [Peers -> PeerState]
         /\ toStack[p] \in Seq(Segment) /\ toPeer[p] \in Seq(SentSegment)
  BY KnownFine DEF OrderInv, InTurnAt

LEMMA ConnectTurn ==
  ASSUME GotTyped, NEW p \in Peers, Known, OrderInv, Undisturbed, PeerConnect(p)
  PROVE  InTurnAt(p)'
  <1>1. /\ peer[p] \in PeerState /\ peer'[p] \in PeerState /\ peer \in [Peers -> PeerState]
    BY KnownTurn
  <1>2. /\ toStack[p] = <<>> /\ toPeer[p] = <<>> /\ toPeer' = toPeer /\ got'[p] = <<>>
        /\ Send(p, Seg(p, SYN, peer[p].nxt, 0, 0)) /\ peer'[p].st = "syn_sent"
    BY <1>1 DEF PeerConnect, LinkIdle, GotTyped
  <1>3. peer[p].nxt \in Seqs /\ 0 \in Seqs
    BY <1>1, SeqSpaceAssumption DEF PeerState, Seqs
  <1>4. PICK s \in Segment : toStack'[p] = Append(<<>>, s) /\ s.bits = SYN
    BY <1>2, <1>3, Sends
  <1>5. InTurn(peer'[p], Append(<<>>, s), <<>>, Rows(p)' # {}, <<>>)
    BY <1>1, <1>2, <1>4, ConnectInTurn
  <1>6. QED
    BY <1>2, <1>4, <1>5 DEF InTurnAt

LEMMA SendTurn ==
  ASSUME Pushes, NEW p \in Peers, Known, OrderInv, Undisturbed, PeerSend(p)
  PROVE  InTurnAt(p)'
  <1> DEFINE e == peer[p]
             f == peer'[p]
  <1>1. /\ InTurn(e, toStack[p], toPeer[p], Rows(p) # {}, got[p]) /\ Rows(p)' = Rows(p)
        /\ e \in PeerState /\ f \in PeerState /\ peer \in [Peers -> PeerState]
        /\ toStack[p] \in Seq(Segment) /\ toPeer[p] \in Seq(SentSegment)
    BY KnownTurn DEF InTurnAt
  <1>2. /\ e.st \in {"established", "close_wait"} /\ Gap(e.data, e.nxt) < MaxOctets
        /\ toPeer' = toPeer /\ got' = got
        /\ f = [e EXCEPT !.nxt = Wrap(e.nxt + 1)]
    BY <1>1 DEF PeerSend
  <1>3. PICK bits \in DataBits : Send(p, Seg(p, bits, e.nxt, e.rcv, 1))
    BY DEF PeerSend
  <1>4. bits = PSH_ACK /\ e.nxt \in Seqs /\ e.rcv \in Seqs
    BY <1>1 DEF Pushes, PeerState
  <1>5. PICK s \in Segment : /\ toStack'[p] = Append(toStack[p], s)
                             /\ s.bits = PSH_ACK /\ s.seq = e.nxt /\ s.len = 1
                             /\ s.ack = e.rcv
    BY <1>3, <1>4, Sends
  <1>6. /\ e.st = "established" /\ f.st = "established" /\ f.nxt = Wrap(e.nxt + 1)
        /\ f.una = e.una /\ f.data = e.data /\ f.rcv = e.rcv
    BY <1>1, <1>2 DEF InTurn, PeerState
  <1>7. Place(e, e.nxt) < MaxOctets
    BY <1>2 DEF Place
  <1>. HIDE DEF e, f
  <1>8. InTurn(f, Append(toStack[p], s), toPeer[p], Rows(p) # {}, got[p])
    BY <1>1, <1>5, <1>6, <1>7, SendInTurn
  <1>9. QED
    BY <1>1, <1>2, <1>5, <1>8 DEF f, InTurnAt

LEMMA CloseTurn ==
  ASSUME NEW p \in Peers, Known, OrderInv, Undisturbed, PeerClose(p)
  PROVE  InTurnAt(p)'
  <1> DEFINE e == peer[p]
             f == peer'[p]
  <1>1. /\ InTurn(e, toStack[p], toPeer[p], Rows(p) # {}, got[p]) /\ Rows(p)' = Rows(p)
        /\ e \in PeerState /\ f \in PeerState /\ peer \in [Peers -> PeerState]
        /\ toStack[p] \in Seq(Segment) /\ toPeer[p] \in Seq(SentSegment)
    BY KnownTurn DEF InTurnAt
  <1>2. e.st # "close_wait"
    BY <1>1 DEF InTurn
  <1>3. /\ toPeer' = toPeer /\ got' = got /\ e.st = "established"
        /\ peer' = [peer EXCEPT ![p].st = "fin_wait_1", ![p].nxt = Wrap(@ + 1)]
    BY <1>2 DEF PeerClose
  <1>4. /\ f.nxt = Wrap(e.nxt + 1) /\ f.una = e.una /\ f.data = e.data /\ f.rcv = e.rcv
        /\ f.st = "fin_wait_1"
    BY <1>1, <1>3 DEF PeerState
  <1>5. Send(p, Seg(p, FIN_ACK, e.nxt, e.rcv, 0)) /\ e.nxt \in Seqs /\ e.rcv \in Seqs
    BY <1>1 DEF PeerClose, PeerState
  <1>6. PICK s \in Segment : /\ toStack'[p] = Append(toStack[p], s)
                             /\ s.bits = FIN_ACK /\ s.seq = e.nxt /\ s.len = 0
                             /\ s.ack = e.rcv
    BY <1>5, Sends
  <1>. HIDE DEF e, f
  <1>7. InTurn(f, Append(toStack[p], s), toPeer[p], Rows(p) # {}, got[p])
    BY <1>1, <1>3, <1>4, <1>6, SendInTurn
  <1>8. QED
    BY <1>1, <1>3, <1>6, <1>7 DEF f, InTurnAt

LEMMA RetransmitTurn ==
  ASSUME NEW p \in Peers, Known, OrderInv, Undisturbed, PeerRetransmit(p)
  PROVE  InTurnAt(p)'
  <1> DEFINE e == peer[p]
  <1>1. /\ toStack[p] = <<>> /\ toPeer[p] = <<>> /\ e.una # e.nxt
        /\ peer' = peer /\ toPeer' = toPeer /\ got' = got
    BY DEF PeerRetransmit, LinkIdle
  <1>2. /\ InTurn(e, <<>>, <<>>, Rows(p) # {}, got[p]) /\ Rows(p)' = Rows(p)
        /\ e \in PeerState
    BY <1>1, KnownTurn DEF InTurnAt
  <1>3. e.una \in Seqs /\ 0 \in Seqs
    BY <1>2, SeqSpaceAssumption DEF PeerState, Seqs
  <1>4. e.st = "syn_sent"
    <2>1. InConnection(e) => e.una = e.nxt
      BY <1>2 DEF InTurn, Acked, LastAck, Ahead
    <2>2. QED
      BY <1>1, <1>2, <2>1 DEF InTurn, Rested, InConnection
  <1>5. Send(p, Seg(p, SYN, e.una, 0, 0))
    BY <1>4 DEF PeerRetransmit, Closing
  <1>6. PICK s \in Segment : toStack'[p] = Append(<<>>, s) /\ s.bits = SYN
    BY <1>1, <1>3, <1>5, Sends
  <1>. HIDE DEF e
  <1>7. InTurn(e, Append(<<>>, s), <<>>, Rows(p) # {}, got[p])
    BY <1>1, <1>2, <1>6, RetransmitInTurn
  <1>8. QED
    BY <1>1, <1>2, <1>6, <1>7 DEF e, InTurnAt
LEMMA TakeTurn ==
  ASSUME NEW p \in Peers, Known, OrderInv, Undisturbed, PeerReceive(p)
  PROVE  InTurnAt(p)'
  <1> DEFINE e == peer[p]
             f == peer'[p]
             in == toStack[p]
             out == toPeer[p]
             r == Head(toPeer[p])
             open == Rows(p) # {}
             ack(h) == Send(p, Seg(p, ACK, h.nxt, h.rcv, 0))
  <1>1. /\ InTurn(e, in, out, open, got[p]) /\ Rows(p)' = Rows(p)
        /\ e \in PeerState /\ f \in PeerState /\ peer \in [Peers -> PeerState]
        /\ in \in Seq(Segment) /\ out \in Seq(SentSegment)
    BY KnownTurn DEF InTurnAt
  <1>2. /\ out # <<>> /\ toPeer'[p] = Tail(out) /\ got' = got
    BY KnownFine DEF PeerReceive
  <1>3. ASSUME NEW h \in PeerState, ack(h)
        PROVE  \E s \in Segment : /\ toStack'[p] = Append(in, s)
                                  /\ s.bits = ACK /\ s.seq = h.nxt /\ s.ack = h.rcv /\ s.len = 0
    <2>1. h.nxt \in Seqs /\ h.rcv \in Seqs
      BY DEF PeerState
    <2>2. QED
      BY <1>3, <2>1, Sends
  <1>4. ASSUME NEW q, toStack'[p] = q, InTurn(f, q, Tail(out), open, got[p])
        PROVE  InTurnAt(p)'
    <2>. HIDE DEF f, out
    <2>1. InTurn(f, toStack'[p], toPeer'[p], Rows(p)' # {}, got'[p])
      BY <1>1, <1>2, <1>4 DEF open
    <2>2. QED
      BY <2>1 DEF InTurnAt, f
  <1>5. CASE /\ \/ ~r.toPeerPort
                \/ e.st = "closed"
                \/ e.st = "syn_sent" /\ ~(r.bits = SYN_ACK /\ r.ack = e.nxt)
             /\ UNCHANGED <<peer, toStack>>
    <2>1. (InConnection(e) => ~Head(out).toPeerPort) /\ f = e /\ toStack'[p] = in
      BY <1>5 DEF InConnection
    <2>. HIDE DEF e, f, in, out, open
    <2>2. InTurn(e, in, Tail(out), open, got[p])
      BY <1>1, <1>2, <2>1, DropInTurn
    <2>3. QED
      BY <1>4, <2>1, <2>2
  <1>6. CASE /\ e.st = "syn_sent" /\ r.bits = SYN_ACK /\ r.ack = e.nxt
             /\ peer' = [peer EXCEPT ![p].st = "established", ![p].una = e.nxt,
                                     ![p].rcv = Wrap(r.seq + 1)]
             /\ ack(f)
    <2>1. f.st = "established" /\ f.una = e.nxt /\ f.nxt = e.nxt /\ f.data = e.data
      BY <1>1, <1>6 DEF PeerState
    <2>2. PICK s \in Segment : /\ toStack'[p] = Append(in, s)
                               /\ s.bits = ACK /\ s.seq = f.nxt /\ s.ack = f.rcv /\ s.len = 0
      BY <1>1, <1>3, <1>6
    <2>3. e.st = "syn_sent" /\ e.nxt = e.data
      BY <1>6, KnownFine DEF Fine, Handshake
    <2>. HIDE DEF e, f, in, out, open
    <2>4. InTurn(f, Append(in, s), Tail(out), open, got[p])
      BY <1>1, <1>2, <2>1, <2>2, <2>3, EstablishInTurn
    <2>5. QED
      BY <1>4, <2>2, <2>4
  <1>7. CASE r.toPeerPort /\ InConnection(e) /\ (r.bits = SYN_ACK \/ r.seq # e.rcv)
    <2>. HIDE DEF e, in, out, open
    <2>1. Head(out).seq = e.rcv /\ Head(out).bits # SYN_ACK
      BY <1>1, <1>2, <1>7, TakeInTurn
    <2>2. QED
      BY <1>7, <2>1 DEF out
  <1>8. CASE /\ r.toPeerPort /\ InConnection(e) /\ r.bits # SYN_ACK /\ r.seq = e.rcv
             /\ peer' = [peer EXCEPT ![p] = Accepted(Acknowledged(@, r), r)]
             /\ IF r.len > 0 \/ r.bits = FIN_ACK THEN ack(f) ELSE UNCHANGED toStack
    <2>1. f = Accepted(Acknowledged(e, r), r)
      BY <1>1, <1>8
    <2>2. /\ r.len = 0
          /\ r.bits # FIN_ACK => InTurn(f, in, Tail(out), open, got[p])
          /\ r.bits = FIN_ACK =>
                \A s \in Segment : s.bits = ACK /\ s.len = 0 =>
                   InTurn(f, Append(in, s), Tail(out), open, got[p])
      <3>1. r = Head(out)
        OBVIOUS
      <3>. HIDE DEF e, f, in, out, open, r
      <3>2. QED
        BY <1>1, <1>2, <1>8, <2>1, <3>1, TakeInTurn
    <2>3. CASE r.bits = FIN_ACK
      <3>1. PICK s \in Segment : /\ toStack'[p] = Append(in, s)
                                 /\ s.bits = ACK /\ s.len = 0
        BY <1>1, <1>3, <1>8, <2>3
      <3>2. InTurn(f, Append(in, s), Tail(out), open, got[p])
        BY <2>2, <2>3, <3>1
      <3>. HIDE DEF f, in, out, open
      <3>3. QED
        BY <1>4, <3>1, <3>2
    <2>4. CASE r.bits # FIN_ACK
      <3>1. toStack'[p] = in
        BY <1>8, <2>2, <2>4
      <3>2. InTurn(f, in, Tail(out), open, got[p])
        BY <2>2, <2>4
      <3>. HIDE DEF f, in, out, open
      <3>3. QED
        BY <1>4, <3>1, <3>2
    <2>5. QED
      BY <2>3, <2>4
  <1>9. QED
    BY <1>5, <1>6, <1>7, <1>8 DEF PeerReceive

\* A peer's step leaves the other peers alone.
LEMMA PeerTurn ==
  ASSUME Pushes, GotTyped, NEW p \in Peers, Known, OrderInv, Undisturbed,
         \/ PeerConnect(p) \/ PeerSend(p) \/ PeerClose(p) \/ PeerRetransmit(p)
         \/ PeerReceive(p),
         NEW q \in Peers
  PROVE  InTurnAt(q)'
  <1>1. CASE q = p
    BY <1>1, ConnectTurn, SendTurn, CloseTurn, RetransmitTurn, TakeTurn
  <1>2. CASE q # p
    <2>1. /\ peer \in [Peers -> PeerState] /\ toStack \in [Peers -> Seq(Segment)]
          /\ toPeer \in [Peers -> Seq(SentSegment)]
          /\ Rows(q)' = Rows(q) /\ InTurnAt(q)
      BY KnownFine, KnownTurn
    <2>2. \A s : Send(p, s) => toStack'[q] = toStack[q]
      BY <1>2, <2>1 DEF Send
    <2>3. peer'[q] = peer[q] /\ toPeer'[q] = toPeer[q]
      BY <1>2, <2>1 DEF PeerConnect, PeerSend, PeerClose, PeerRetransmit, PeerReceive
    <2>4. toStack'[q] = toStack[q]
      BY <1>2, <2>2 DEF PeerConnect, PeerSend, PeerClose, PeerRetransmit, PeerReceive
    <2>5. got'[q] = got[q]
      BY <1>2 DEF GotTyped, PeerConnect, PeerSend, PeerClose, PeerRetransmit, PeerReceive
    <2>6. QED
      BY <2>1, <2>3, <2>4, <2>5 DEF InTurnAt
  <1>3. QED
    BY <1>1, <1>2
-----------------------------------------------------------------------------
(* The stack reads a frame, in the state.                                  *)

\* Only the links, the slot and the record of the segment's peer change.
LEMMA OthersTurn ==
  ASSUME SessionTypes, GotTyped, NEW p \in Peers, StackReceive(p),
         NEW q \in Peers, q # p, InTurnAt(q)
  PROVE  InTurnAt(q)'
  <1> DEFINE s == Head(toStack[p])
  <1>1. /\ Receive(s) /\ Sendable(p, s)
        /\ toStack'[q] = toStack[q] /\ toPeer'[q] = toPeer[q]
    BY ReceiveLinks
  <1>2. Rows(q)' = Rows(q)
    BY <1>1, ReceiveRows DEF SessionTypes
  <1>3. got'[q] = got[q] /\ peer' = peer
    BY DEF StackReceive, GotTyped
  <1>4. QED
    BY <1>1, <1>2, <1>3 DEF InTurnAt

LEMMA ReceiveTurn ==
  ASSUME SessionTypes, GotTyped, NEW p \in Peers, StackReceive(p), InTurnAt(p)
  PROVE  InTurnAt(p)'
  <1> DEFINE e == peer[p]
             in == toStack[p]
             out == toPeer[p]
             s == Head(toStack[p])
             open == Rows(p) # {}
             out2 == toPeer'[p]
             open2 == Rows(p)' # {}
             g == got[p]
  <1>1. /\ TableInv /\ e \in PeerState /\ g \in Seq(Seqs) /\ got \in [Peers -> Seq(Seqs)]
        /\ in \in Seq(Segment) /\ out \in Seq(SentSegment)
        /\ toPeer \in [Peers -> Seq(SentSegment)]
        /\ InTurn(e, in, out, open, g)
    BY DEF SessionTypes, LinksTyped, FramesTyped, GotTyped, InTurnAt
  <1>2. /\ in # <<>> /\ Receive(s) /\ Sendable(p, s) /\ toStack'[p] = Tail(in)
        /\ \/ out2 = out /\ sent' = <<>>
           \/ s.bits = FIN_ACK
           \/ \E r \in SentSegment :
                 /\ out2 = Append(out, r) /\ sent' # <<>>
                 /\ s.bits = SYN => r.bits = SYN_ACK /\ r.ack = Wrap(s.seq + 1)
                 /\ s.bits \in {ACK, PSH_ACK} => /\ r.bits = ACK /\ s.len = 1
                                                 /\ r.ack = Wrap(s.seq + s.len)
    BY ReceiveLinks
  <1>3. /\ Transmit /\ peer' = peer
        /\ got' = IF printed' = <<>> \/ Twice(g, s.seq) THEN got
                  ELSE [got EXCEPT ![p] = Append(g, s.seq)]
    BY DEF StackReceive
  <1>4. /\ s = Head(in) /\ s \in Segment /\ s.bits \in {SYN, ACK, PSH_ACK, FIN_ACK}
        /\ s.bits = SYN => s.len = 0
        /\ s.bits = PSH_ACK => s.len = 1
    BY <1>2 DEF Sendable
  <1>5. /\ s.bits = ACK => s.len = 0
        /\ s.bits = FIN_ACK => s.len = 0
        /\ s.bits \in {PSH_ACK, FIN_ACK} => open
    <2>. HIDE DEF e, in, out, g
    <2>1. /\ Head(in).bits = ACK => Head(in).len = 0
          /\ Head(in).bits = FIN_ACK => Head(in).len = 0
      BY <1>1, <1>2, ReadKinds
    <2>2. Head(in).bits \in {PSH_ACK, FIN_ACK} => open
      BY <1>1, <1>2, ReadKinds
    <2>3. QED
      BY <1>4, <2>1, <2>2
  <1>6. s.len = 0 => got' = got
    BY <1>1, <1>2, <1>3, ReceiveAnswers
  <1>7. ASSUME NEW g2, got'[p] = g2, InTurn(e, Tail(in), out2, open2, g2)
        PROVE  InTurnAt(p)'
    BY <1>2, <1>3, <1>7 DEF InTurnAt
  <1>8. CASE s.bits = SYN
    <2>1. \/ out2 = out
          \/ open2 /\ \E r \in SentSegment : out2 = Append(out, r) /\ r.bits = SYN_ACK
      BY <1>1, <1>2, <1>8, ReceiveAnswers
    <2>2. got'[p] = g
      BY <1>4, <1>6, <1>8
    <2>. HIDE DEF e, in, out, out2, open, open2, g, s
    <2>3. InTurn(e, Tail(in), out2, open2, g)
      BY <1>1, <1>2, <1>4, <1>8, <2>1, ReadSyn
    <2>4. QED
      BY <1>7, <2>2, <2>3
  <1>9. CASE s.bits = ACK
    <2>0. open => open2
      BY <1>1, <1>2, <1>9, ReceiveAnswers
    <2>1. out2 = out
      BY <1>2, <1>5, <1>9
    <2>2. got'[p] = g
      BY <1>5, <1>6, <1>9
    <2>. HIDE DEF e, in, out, out2, open, open2, g, s
    <2>3. InTurn(e, Tail(in), out2, open2, g)
      BY <1>1, <1>2, <1>4, <1>9, <2>0, <2>1, ReadAck
    <2>4. QED
      BY <1>7, <2>2, <2>3
  <1>10. CASE s.bits \in {PSH_ACK, FIN_ACK}
    <2>1. AnswersTaken(s, out, out2)
      <3>1. PICK r \in SentSegment :
               /\ r.peer = p /\ r.toPeerPort /\ r.bits = ACK
               /\ r.seq = s.ack /\ r.ack = Wrap(s.seq + Size(s)) /\ r.len = 0
               /\ sent' = <<r>> \/ (s.bits = FIN_ACK /\ sent' = <<r, SecondReply(r)>>)
        BY <1>1, <1>2, <1>5, <1>10, ReceiveAnswers
      <3>2. sent' \in Seq(SentSegment) /\ sent' # <<>> /\ sent'[1] = r
        BY <1>1, <1>2, <1>4, <3>1, ReplyFrames
      <3>3. out2 = out \o sent'
        BY <1>3, <3>1, <3>2 DEF Transmit
      <3>. HIDE DEF out, out2, s
      <3>4. AnswersTaken(s, out, out \o sent')
        BY <1>1, <3>1, <3>2, AddAnswers
      <3>5. QED
        BY <3>3, <3>4
    <2>2. s.bits = PSH_ACK => open2
      BY <1>1, <1>2, <1>5, ReceiveAnswers
    <2>3. got'[p] = IF s.bits = PSH_ACK THEN Append(g, s.seq) ELSE g
      <3>1. CASE s.bits = PSH_ACK
        <4>1. printed' # <<>>
          BY <1>1, <1>2, <1>4, <1>5, <3>1, ReceivePrints
        <4>2. PrintedOnce(e, g)
          BY <1>1 DEF InTurn
        <4>. HIDE DEF g, s, e
        <4>3. ~Twice(g, s.seq)
          BY <1>1, <4>2, NeverTwice
        <4>4. QED
          BY <1>1, <1>3, <3>1, <4>1, <4>3
      <3>2. CASE s.bits = FIN_ACK
        BY <1>5, <1>6, <3>2
      <3>3. QED
        BY <1>10, <3>1, <3>2
    <2>. HIDE DEF e, in, out, out2, open, open2, g, s
    <2>4. InTurn(e, Tail(in), out2, open2, IF s.bits = PSH_ACK THEN Append(g, s.seq) ELSE g)
      BY <1>1, <1>2, <1>4, <1>10, <2>1, <2>2, ReadTaken
    <2>5. QED
      BY <1>7, <2>3, <2>4
  <1>11. QED
    BY <1>4, <1>8, <1>9, <1>10

-----------------------------------------------------------------------------
(* The invariant and its theorem.                                          *)

LEMMA OrderInvInit == SessionInit => OrderInv
  <1>. SUFFICES ASSUME SessionInit, NEW p \in Peers
                PROVE  InTurn(peer[p], toStack[p], toPeer[p], Rows(p) # {}, got[p])
    BY DEF OrderInv
  <1>1. /\ peer[p].st = "closed" /\ peer[p].una = peer[p].nxt
        /\ toStack[p] = <<>> /\ toPeer[p] = <<>> /\ got[p] = <<>>
    BY DEF SessionInit
  <1>2. QED
    BY <1>1 DEF InTurn, Rested, Asking, Sequenced, Acked, ReadNext, PrintedOnce, InConnection

LEMMA OrderInvStep ==
  ASSUME Pushes, SessionTypes, SessionTypes', SessionInv, GotTyped, OrderInv,
         [SessionNext]_sessionVars
  PROVE  OrderInv'
  <1>. SUFFICES ASSUME Undisturbed', NEW q \in Peers PROVE InTurnAt(q)'
    BY DEF OrderInv, InTurnAt
  <1>1. ASSUME Undisturbed PROVE Calm /\ \A p \in Peers : InTurnAt(p)
    BY <1>1 DEF Undisturbed, Calm, OrderInv, InTurnAt
  <1>2. ASSUME NEW p \in Peers, StackReceive(p) PROVE InTurnAt(q)'
    <2>1. Undisturbed
      BY <1>2 DEF StackReceive, Undisturbed
    <2>2. QED
      BY <1>1, <1>2, <2>1, ReceiveTurn, OthersTurn
  <1>3. ASSUME NEW p \in Peers,
               \/ PeerConnect(p) \/ PeerSend(p) \/ PeerClose(p) \/ PeerRetransmit(p)
               \/ PeerReceive(p)
        PROVE  InTurnAt(q)'
    <2>1. UNCHANGED table /\ Undisturbed
      BY <1>3 DEF PeerConnect, PeerSend, PeerClose, PeerRetransmit, PeerReceive, vars,
                  Undisturbed
    <2>2. Known
      BY <1>1, <2>1 DEF Known
    <2>3. QED
      BY <1>3, <2>1, <2>2, PeerTurn
  <1>4. ASSUME NEW p \in Peers, Lose(p) PROVE FALSE
    BY <1>4 DEF Lose, Undisturbed, SessionTypes
  <1>5. ASSUME NEW l \in Lines, StackUserLine(l) PROVE FALSE
    BY <1>5 DEF StackUserLine, Undisturbed, SessionTypes
  <1>6. CASE UNCHANGED sessionVars
    <2>1. Rows(q)' = Rows(q) /\ Undisturbed
      BY <1>6 DEF sessionVars, vars, Rows, IsOpen, Undisturbed
    <2>2. InTurnAt(q)
      BY <1>1, <2>1
    <2>3. QED
      BY <1>6, <2>1, <2>2 DEF sessionVars, InTurnAt
  <1>7. QED
    BY <1>2, <1>3, <1>4, <1>5, <1>6 DEF SessionNext

\* The number of an octet from its place.
LEMMA PlaceIs ==
  ASSUME NEW e \in PeerState, NEW n \in Seqs, NEW k \in Nat, Place(e, n) = k - 1
  PROVE  n = Wrap(e.data + k - 1)
  <1>1. e.data \in Nat /\ e.data < SeqSpace /\ n \in Nat /\ n < SeqSpace
        /\ SeqSpace \in Nat \ {0}
    BY SeqSpaceAssumption DEF PeerState, Seqs
  <1>2. Place(e, n) = IF e.data <= n THEN n - e.data ELSE n - e.data + SeqSpace
    BY GapValue DEF Place, PeerState
  <1>3. CASE e.data <= n
    <2>1. e.data + k - 1 = n
      BY <1>1, <1>2, <1>3
    <2>2. QED
      BY <1>1, <2>1 DEF Wrap
  <1>4. CASE ~(e.data <= n)
    <2>1. e.data + k - 1 = n + SeqSpace
      BY <1>1, <1>2, <1>4
    <2>2. (n + SeqSpace) % SeqSpace = n
      BY <1>1
    <2>3. QED
      BY <2>1, <2>2 DEF Wrap
  <1>5. QED
    BY <1>3, <1>4

\* Until a frame is lost or a line typed, for every number of peers and slots, every window
\* and every bound on what is sent, the user reads the octets of a connection once each and
\* in order, when the peers' data carries PSH.
THEOREM InOrderOutputHolds ==
  ASSUME Pushes PROVE SessionSpec => []InOrderOutput
  <1> DEFINE Inv == SessionTypes /\ SessionInv /\ GotTyped /\ OrderInv
  <1>1. Inv => InOrderOutput
    <2>. SUFFICES ASSUME Inv, losses = 0, lines = 0, NEW p \in Peers, NEW k \in DOMAIN got[p]
                  PROVE  got[p][k] = Wrap(peer[p].data + k - 1)
      BY DEF InOrderOutput
    <2>1. got[p] \in Seq(Seqs) /\ peer[p] \in PeerState
      BY DEF GotTyped, SessionTypes
    <2>2. k \in 1 .. Len(got[p]) /\ got[p][k] \in Seqs /\ k \in Nat
      BY <2>1
    <2>3. PrintedOnce(peer[p], got[p])
      BY DEF OrderInv, Undisturbed, InTurn
    <2>4. Place(peer[p], got[p][k]) = k - 1
      BY <2>2, <2>3 DEF PrintedOnce
    <2>5. QED
      BY <2>1, <2>2, <2>4, PlaceIs
  <1>2. SessionInit => Inv
    BY InitTypes, SessionInvInit, PromiseInvInit, OrderInvInit
  <1>3. Inv /\ [SessionNext]_sessionVars => Inv'
    BY StepTypes, SessionInvStep, GotStep, OrderInvStep
  <1>4. QED
    BY <1>1, <1>2, <1>3, PTL DEF SessionSpec
=============================================================================
