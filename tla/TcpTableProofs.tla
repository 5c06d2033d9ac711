--------------------------- MODULE TcpTableProofs ---------------------------
(***************************************************************************)
(* Proofs about TcpTable, for every table size, every sequence space and   *)
(* every set of peers, segments and lines.                                 *)
(***************************************************************************)
EXTENDS TcpTable, FiniteSetTheorems, TLAPS

USE DEF NOT_CONNECTED, ACTIVE, SYN_RCVD, SYN, ACK, FIN_ACK, SYN_ACK, PSH_ACK,
        TCP_NONE, TCP_REG, TCP_CLOSED, TCP_FIN_ACK

-----------------------------------------------------------------------------
(* What the operators of Tcp return.                                       *)

\* uint32_t arithmetic stays in the sequence space.
LEMMA WrapType == ASSUME NEW n \in Int PROVE Wrap(n) \in Seqs
  BY SeqSpaceAssumption DEF Wrap, Seqs

\* The int8_t conversion has an int8_t value and never gains octets.
LEMMA Int8Type ==
  ASSUME NEW n \in UInt16
  PROVE  /\ Int8(n) \in Int
         /\ Int8(n) < 128
         /\ Int8(n) > 0 => n - Int8(n) \in UInt16
  BY DEF Int8, UInt16

\* handle_tcp_payload keeps an entry's type, and touches the fields it names
\* only: io never, the key only in the SYN case, which leaves the slot half
\* open; no other case opens a closed slot or closes an open one.
LEMMA PayloadEntryEffect ==
  ASSUME NEW e \in Entry, NEW s \in Segment
  PROVE  /\ PayloadEntry(e, s) \in Entry
         /\ PayloadEntry(e, s).io = e.io
         /\ s.bits = SYN => /\ PayloadEntry(e, s).peer = s.peer
                            /\ PayloadEntry(e, s).status = SYN_RCVD
         /\ s.bits # SYN => /\ PayloadEntry(e, s).peer = e.peer
                            /\ \/ PayloadEntry(e, s).status = e.status
                               \/ /\ e.status = SYN_RCVD
                                  /\ PayloadEntry(e, s).status = ACTIVE
  <1>1. Wrap(s.seq + 1) \in Seqs /\ Wrap(s.seq + Int8(s.len)) \in Seqs
    BY WrapType, Int8Type, SeqSpaceAssumption DEF Segment, Seqs
  <1>2. s.ack \in Seqs /\ s.peer \in Peers /\ s.mac \in Macs
    BY DEF Segment
  <1>3. \A n \in {1, Int8(s.len)} :
           /\ RecordSeq(e, s, n) \in Entry
           /\ RecordSeq(e, s, n).io = e.io
           /\ RecordSeq(e, s, n).peer = e.peer
           /\ RecordSeq(e, s, n).status = e.status
    BY <1>1, <1>2 DEF RecordSeq, Entry
  <1>4. CASE s.bits = SYN
    <2>1. PayloadEntry(e, s) = SynEntry(e, s)
      BY <1>4 DEF PayloadEntry
    <2>2. QED
      BY <1>1, <1>2, <1>4, <2>1 DEF SynEntry, Entry, Statuses
  <1>5. CASE s.bits = ACK
    <2>1. PayloadEntry(e, s) = AckEntry(e, s)
      BY <1>5 DEF PayloadEntry
    <2>2. \/ AckEntry(e, s) = e
          \/ AckEntry(e, s) = [RecordSeq(e, s, Int8(s.len)) EXCEPT !.status = ACTIVE]
             /\ e.status # NOT_CONNECTED
      BY DEF AckEntry
    <2>3. QED
      BY <1>3, <1>5, <2>1, <2>2 DEF Entry, Statuses
  <1>6. CASE s.bits = PSH_ACK
    <2>1. PayloadEntry(e, s) = RecordSeq(e, s, Int8(s.len))
      BY <1>6 DEF PayloadEntry
    <2>2. QED
      BY <1>3, <1>6, <2>1
  <1>7. CASE s.bits = FIN_ACK
    <2>1. PayloadEntry(e, s) = RecordSeq(e, s, 1)
      BY <1>7 DEF PayloadEntry
    <2>2. QED
      BY <1>3, <1>7, <2>1
  <1>8. CASE s.bits \notin {SYN, ACK, PSH_ACK, FIN_ACK}
    <2>1. PayloadEntry(e, s) = e
      BY <1>8 DEF PayloadEntry
    <2>2. QED
      BY <1>8, <2>1
  <1>9. QED
    BY <1>4, <1>5, <1>6, <1>7, <1>8

\* The header left in the frame is a well-typed segment.
LEMMA PayloadReplyType ==
  ASSUME NEW s \in Segment, NEW iss \in Isns
  PROVE  /\ PayloadReply(s, iss) \in SentSegment
         /\ SecondReply(PayloadReply(s, iss)) \in SentSegment
  <1>1. Wrap(s.seq + (IF s.bits \in {SYN, FIN_ACK} THEN 1 ELSE Int8(s.len))) \in Seqs
    BY WrapType, Int8Type, SeqSpaceAssumption DEF Segment, Seqs
  <1>2. (IF s.bits = PSH_ACK /\ Int8(s.len) > 0 THEN s.len - Int8(s.len)
                                                ELSE s.len) \in UInt16
    BY Int8Type DEF Segment
  <1>3. PayloadReply(s, iss) \in SentSegment
    BY <1>1, <1>2, IsnsAssumption DEF PayloadReply, SentSegment, Segment
  <1>4. QED
    BY <1>3 DEF SecondReply, SentSegment

\* A close keeps the type and the key.
LEMMA CloseEntryEffect ==
  ASSUME NEW e \in Entry
  PROVE  /\ CloseEntry(e) \in Entry
         /\ CloseEntry(e) = [e EXCEPT !.status = NOT_CONNECTED]
  BY DEF CloseEntry, Entry, Statuses

\* create_tcp_segment keeps the type, the key and io, and can only close.
LEMMA CreatedEffect ==
  ASSUME NEW e \in Entry, NEW n \in Nat, n <= 1024
  PROVE  /\ CreatedEntry(e, n) \in Entry
         /\ CreatedEntry(e, n).peer = e.peer
         /\ CreatedEntry(e, n).io = e.io
         /\ CreatedEntry(e, n).status
               = IF n = 0 THEN NOT_CONNECTED ELSE e.status
         /\ CreatedSegment(e, n) \in SentSegment
  <1>1. Wrap(e.curr_seq + (IF n = 0 THEN 1 ELSE n)) \in Seqs
    BY WrapType, SeqSpaceAssumption DEF Entry, Seqs
  <1>2. n \in UInt16
    BY DEF UInt16
  <1>3. QED
    BY <1>1, <1>2 DEF CreatedEntry, CreatedSegment, Entry, SentSegment, Statuses

-----------------------------------------------------------------------------
(* What a step does to the table: it rewrites one slot at most, and a slot *)
(* gets a new key only from a SYN whose peer the slot was picked for.      *)

SynStep(i, e) ==
    \E p \in Peers : /\ Selected(table, p, i)
                     /\ e.peer = p
                     /\ e.status = SYN_RCVD
                     /\ e.io = table[i].io

KeepStep(i, e) ==
    /\ e.peer = table[i].peer
    /\ \/ e.status \in {table[i].status, NOT_CONNECTED}
       \/ table[i].status = SYN_RCVD /\ e.status = ACTIVE
    /\ \/ e.io \in {table[i].io, 0}
       \/ e.io = 1 /\ NoChat /\ table[i].status # NOT_CONNECTED

TableStep ==
    \/ UNCHANGED table
    \/ \E i \in Slots, e \in Entry :
          /\ table' = [table EXCEPT ![i] = e]
          /\ SynStep(i, e) \/ KeepStep(i, e)

\* One read or one segment, and handle_packet's second call of handle_tcp.
LEMMA ReceiveStep ==
  ASSUME table \in [Slots -> Entry], NEW s \in Segment, Receive(s)
  PROVE  TableStep
  <1>1. s \in Segment
    OBVIOUS
  <1>2. CASE ReceiveLimitReached(s)
    BY <1>2 DEF ReceiveLimitReached, TableStep
  <1>3. ASSUME NEW i \in Slots, Selected(table, s.peer, i)
        PROVE  /\ PayloadEntry(table[i], s) \in Entry
               /\ \/ SynStep(i, PayloadEntry(table[i], s))
                  \/ KeepStep(i, PayloadEntry(table[i], s))
    <2>1. table[i] \in Entry /\ s.peer \in Peers
      BY <1>1 DEF Segment
    <2>2. QED
      BY <1>1, <1>3, <2>1, PayloadEntryEffect DEF SynStep, KeepStep
  <1>4. CASE ReceiveNoReply(s)
    BY <1>3, <1>4 DEF ReceiveNoReply, TableStep
  <1>5. CASE ReceiveReply(s)
    BY <1>3, <1>5 DEF ReceiveReply, TableStep
  <1>6. CASE ReceiveFinAck(s)
    <2>1. PICK i \in Slots :
              /\ Selected(table, s.peer, i)
              /\ PayloadStatus(table[i], s) = TCP_FIN_ACK
              /\ table' = [table EXCEPT ![i] = CloseEntry(PayloadEntry(@, s))]
      BY <1>6 DEF ReceiveFinAck
    <2>2. s.bits # SYN
      BY <2>1 DEF PayloadStatus
    <2>3. table[i] \in Entry
      OBVIOUS
    <2>4. /\ PayloadEntry(table[i], s) \in Entry
          /\ PayloadEntry(table[i], s).io = table[i].io
          /\ PayloadEntry(table[i], s).peer = table[i].peer
      BY <1>1, <2>2, <2>3, PayloadEntryEffect
    <2>5. /\ CloseEntry(PayloadEntry(table[i], s)) \in Entry
          /\ CloseEntry(PayloadEntry(table[i], s)).io = table[i].io
          /\ CloseEntry(PayloadEntry(table[i], s)).peer = table[i].peer
          /\ CloseEntry(PayloadEntry(table[i], s)).status = NOT_CONNECTED
      BY <2>4, CloseEntryEffect DEF Entry
    <2>6. KeepStep(i, CloseEntry(PayloadEntry(table[i], s)))
      BY <2>5 DEF KeepStep
    <2>7. QED
      BY <2>1, <2>5, <2>6 DEF TableStep
  <1>7. QED
    BY <1>2, <1>4, <1>5, <1>6 DEF Receive

\* One line of the user's.
LEMMA UserStep ==
  ASSUME table \in [Slots -> Entry], NEW l \in Lines, UserLine(l)
  PROVE  TableStep
  <1>1. l \in Line
    BY LinesAssumption
  <1>2. ReadBytes(l) \in Nat /\ ReadBytes(l) <= 1024
    BY <1>1 DEF ReadBytes, Line
  <1>3. CASE CommandRefused(l) \/ ChatNothing(l)
    BY <1>3 DEF CommandRefused, ChatNothing, TableStep
  <1>4. CASE CommandClose(l)
    <2>1. l.id \in Slots /\ table[l.id] \in Entry
      BY <1>4 DEF CommandClose, ValidId
    <2>2. /\ CreatedEntry(table[l.id], 0) \in Entry
          /\ KeepStep(l.id, CreatedEntry(table[l.id], 0))
      BY <2>1, CreatedEffect DEF KeepStep
    <2>3. /\ CloseEntry(table[l.id]) \in Entry
          /\ KeepStep(l.id, CloseEntry(table[l.id]))
      BY <2>1, CloseEntryEffect DEF KeepStep, Entry
    <2>4. QED
      BY <1>4, <2>1, <2>2, <2>3 DEF CommandClose, TableStep
  <1>5. CASE CommandChat(l)
    <2>1. /\ l.id \in Slots /\ table[l.id] \in Entry /\ NoChat
          /\ table[l.id].status # NOT_CONNECTED
          /\ table' = [table EXCEPT ![l.id] = [table[l.id] EXCEPT !.io = 1]]
      BY <1>5 DEF CommandChat, ValidId
    <2>2. /\ [table[l.id] EXCEPT !.io = 1] \in Entry
          /\ KeepStep(l.id, [table[l.id] EXCEPT !.io = 1])
      BY <2>1 DEF KeepStep, Entry
    <2>3. QED
      BY <2>1, <2>2 DEF TableStep
  <1>6. ASSUME NEW i \in Slots, NEW e \in Entry,
               e.peer = table[i].peer, e.status = table[i].status,
               table' = [table EXCEPT ![i] = [e EXCEPT !.io = 0]]
        PROVE  TableStep
    <2>1. /\ [e EXCEPT !.io = 0] \in Entry
          /\ KeepStep(i, [e EXCEPT !.io = 0])
      BY <1>6 DEF KeepStep, Entry
    <2>2. QED
      BY <1>6, <2>1 DEF TableStep
  <1>7. CASE ChatExit(l)
    BY <1>6, <1>7 DEF ChatExit
  <1>8. CASE ChatSend(l)
    <2>1. PICK i \in Slots :
            /\ ReadBytes(l) > 0
            /\ \/ table' = [table EXCEPT ![i] =
                               [CreatedEntry(@, ReadBytes(l)) EXCEPT !.io = 0]]
               \/ table' = [table EXCEPT ![i].io = 0]
      BY <1>8 DEF ChatSend
    <2>2. table[i] \in Entry
      OBVIOUS
    <2>3. /\ CreatedEntry(table[i], ReadBytes(l)) \in Entry
          /\ CreatedEntry(table[i], ReadBytes(l)).peer = table[i].peer
          /\ CreatedEntry(table[i], ReadBytes(l)).status = table[i].status
      BY <1>2, <2>1, <2>2, CreatedEffect
    <2>4. QED
      BY <1>6, <2>1, <2>2, <2>3
  <1>9. QED
    BY <1>3, <1>4, <1>5, <1>7, <1>8 DEF UserLine

\* Every step of the specification is a TableStep.
LEMMA EveryStep ==
  ASSUME table \in [Slots -> Entry], [Next]_vars
  PROVE  TableStep
  <1>1. CASE Next
    BY <1>1, ReceiveStep, UserStep, InputsAssumption DEF Next
  <1>2. CASE UNCHANGED vars
    BY <1>2 DEF vars, TableStep
  <1>3. QED
    BY <1>1, <1>2

-----------------------------------------------------------------------------
(* The inductive invariant.                                                *)

\* connection_lookup stops at the first slot with a key. A later slot with
\* the same key can only be one that never had a connection: it has the
\* all-zero key, is closed and not in write mode. LookupFindsOpen alone is not
\* inductive: nothing in it keeps a chat from outliving its slot's
\* connection behind another slot with the same key.
KeyInv ==
    \A i \in Slots :
        IsOpen(i) \/ table[i].io = 1 \/ table[i].peer # NoPeer
            => Found(table, table[i].peer, i)

TableType == table \in [Slots -> Entry]

\* The key of an open slot came from a segment.
PeerInv == \A i \in Slots : IsOpen(i) => table[i].peer \in Peers

TableInv == TableType /\ KeyInv /\ PeerInv /\ OneChat

\* The cleared table satisfies it.
LEMMA TableInvInit == Init => TableInv
  <1> SUFFICES ASSUME Init PROVE TableInv
    OBVIOUS
  <1>1. 0 \in Seqs
    BY SeqSpaceAssumption DEF Seqs
  <1>2. FreshEntry \in Entry
    BY <1>1 DEF FreshEntry, Entry, Statuses
  <1>3. \A i \in Slots : table[i] = FreshEntry
    BY DEF Init
  <1>4. TableType
    BY <1>2 DEF Init, TableType
  <1>5. \A i \in Slots : table[i].peer = NoPeer /\ table[i].io = 0 /\ ~IsOpen(i)
    BY <1>3 DEF FreshEntry, IsOpen
  <1>6. QED
    BY <1>4, <1>5 DEF TableInv, KeyInv, PeerInv, OneChat

\* The slot a step rewrites is the first with its new key, and no slot that
\* mattered under that key is now behind it.
LEMMA KeyInvStep ==
  ASSUME TableType, KeyInv, TableStep
  PROVE  KeyInv'
  <1>1. CASE UNCHANGED table
    BY <1>1 DEF KeyInv, IsOpen, Found
  <1>2. ASSUME NEW i \in Slots, NEW e \in Entry,
               table' = [table EXCEPT ![i] = e],
               SynStep(i, e) \/ KeepStep(i, e)
        PROVE  KeyInv'
    <2>1. /\ table'[i] = e
          /\ \A k \in Slots \ {i} : table'[k] = table[k]
      BY <1>2 DEF TableType
    <2>2. Slots \subseteq Int
      BY DEF Slots
    <2>3. CASE SynStep(i, e)
      <3>1. PICK p \in Peers : Selected(table, p, i) /\ e.peer = p
        BY <2>3 DEF SynStep
      <3>2. \A k \in Slots : k < i => table[k].peer # p
        BY <3>1, <2>2 DEF Selected, Found, Unknown
      <3>3. Found(table, p, i)'
        BY <2>1, <2>2, <3>1, <3>2 DEF Found
      <3>4. ASSUME NEW j \in Slots, j # i, Found(table, table[j].peer, j)
            PROVE  Found(table, table[j].peer, j)'
        <4>1. p # table[j].peer \/ j < i
          BY <2>2, <3>1, <3>4 DEF Selected, Found, Unknown
        <4>2. p # table[j].peer
          BY <3>2, <4>1
        <4>3. QED
          BY <2>1, <3>1, <3>4, <4>2 DEF Found
      <3>5. QED
        BY <2>1, <3>1, <3>3, <3>4 DEF KeyInv, IsOpen
    <2>4. CASE KeepStep(i, e)
      <3>1. \A k \in Slots : table'[k].peer = table[k].peer
        BY <2>1, <2>4 DEF KeepStep
      <3>2. \A p : \A k \in Slots : Found(table, p, k) => Found(table', p, k)
        BY <3>1 DEF Found
      <3>3. \A k \in Slots : IsOpen(k)' \/ table'[k].io = 1
                               => IsOpen(k) \/ table[k].io = 1
        BY <2>1, <2>4 DEF KeepStep, IsOpen
      <3>4. QED
        BY <3>1, <3>2, <3>3 DEF KeyInv
    <2>5. QED
      BY <1>2, <2>3, <2>4
  <1>3. QED
    BY <1>1, <1>2 DEF TableStep

\* Write mode is entered only while no slot is in it.
LEMMA OneChatStep ==
  ASSUME TableType, OneChat, TableStep
  PROVE  OneChat'
  <1>1. CASE UNCHANGED table
    BY <1>1 DEF OneChat
  <1>2. ASSUME NEW i \in Slots, NEW e \in Entry,
               table' = [table EXCEPT ![i] = e],
               SynStep(i, e) \/ KeepStep(i, e)
        PROVE  OneChat'
    <2>1. /\ table'[i] = e
          /\ \A k \in Slots \ {i} : table'[k] = table[k]
      BY <1>2 DEF TableType
    <2>2. CASE e.io \in {table[i].io, 0}
      BY <2>1, <2>2 DEF OneChat
    <2>3. CASE NoChat
      BY <2>1, <2>3 DEF OneChat, NoChat
    <2>4. QED
      BY <1>2, <2>2, <2>3 DEF SynStep, KeepStep
  <1>3. QED
    BY <1>1, <1>2 DEF TableStep

\* A slot is opened by a segment only, with the segment's peer as its key.
LEMMA PeerInvStep ==
  ASSUME TableType, PeerInv, TableStep
  PROVE  PeerInv'
  BY DEF TableType, PeerInv, TableStep, SynStep, KeepStep, IsOpen

\* A TableStep keeps the invariant, whoever makes it.
LEMMA TableStepKeeps == ASSUME TableInv, TableStep PROVE TableInv'
  <1>1. TableType'
    BY DEF TableInv, TableType, TableStep
  <1>2. QED
    BY <1>1, KeyInvStep, PeerInvStep, OneChatStep DEF TableInv

\* The invariant is inductive.
LEMMA TableInvStep == TableInv /\ [Next]_vars => TableInv'
  BY EveryStep, TableStepKeeps DEF TableInv, TableType

\* It holds throughout every behaviour.
LEMMA TableInvariant == Spec => []TableInv
  BY TableInvInit, TableInvStep, PTL DEF Spec

\* An open connection is the one its peer's segments find, in every table.
THEOREM LookupFindsOpenHolds == Spec => []LookupFindsOpen
  <1>1. TableInv => LookupFindsOpen
    BY DEF TableInv, KeyInv, LookupFindsOpen
  <1>2. QED
    BY <1>1, TableInvariant, PTL

\* One slot at most is in write mode.
THEOREM OneChatHolds == Spec => []OneChat
  <1>1. TableInv => OneChat
    BY DEF TableInv
  <1>2. QED
    BY <1>1, TableInvariant, PTL

-----------------------------------------------------------------------------
(* Action properties.                                                      *)

\* No open connection ever changes its peer: only a SYN writes a key, and it
\* picks an open slot only when the slot already has that key.
THEOREM NoEvictionHolds == Spec => NoEviction
  <1>1. ASSUME TableInv, [Next]_vars, NEW i \in Slots, IsOpen(i)
        PROVE  table'[i].peer = table[i].peer
    <2>1. TableStep
      BY <1>1, EveryStep DEF TableInv, TableType
    <2>2. CASE UNCHANGED table
      BY <2>2
    <2>3. ASSUME NEW k \in Slots, NEW e \in Entry,
                 table' = [table EXCEPT ![k] = e],
                 SynStep(k, e) \/ KeepStep(k, e)
          PROVE  table'[i].peer = table[i].peer
      <3>1. k = i => e.peer = table[i].peer
        BY <1>1, <2>3 DEF SynStep, KeepStep, Selected, Found, FirstFree, IsOpen
      <3>2. QED
        BY <1>1, <2>3, <3>1 DEF TableInv, TableType
    <2>4. QED
      BY <2>1, <2>2, <2>3 DEF TableStep
  <1>2. TableInv /\ [Next]_vars
        => [\A i \in Slots : IsOpen(i) => table'[i].peer = table[i].peer]_vars
    BY <1>1
  <1>3. QED
    BY <1>2, TableInvariant, PTL DEF Spec, NoEviction

\* A segment reaches the open slots of its own peer only: the slot picked for
\* an unknown peer is a closed one.
THEOREM NoCrosstalkHolds == Spec => NoCrosstalk
  <1>1. ASSUME TableInv, NEW s \in Inputs, Receive(s),
               NEW i \in Slots, IsOpen(i), table[i].peer # s.peer
        PROVE  table'[i] = table[i]
    <2>1. ~Selected(table, s.peer, i)
      BY <1>1 DEF Selected, Found, FirstFree, IsOpen
    <2>2. \/ UNCHANGED table
          \/ \E e : \E k \in Slots :
                Selected(table, s.peer, k) /\ table' = [table EXCEPT ![k] = e]
      <3>1. CASE ReceiveLimitReached(s)
        BY <3>1 DEF ReceiveLimitReached
      <3>2. CASE ReceiveNoReply(s)
        BY <3>2 DEF ReceiveNoReply
      <3>3. CASE ReceiveReply(s)
        BY <3>3 DEF ReceiveReply
      <3>4. CASE ReceiveFinAck(s)
        BY <3>4 DEF ReceiveFinAck
      <3>5. QED
        BY <1>1, <3>1, <3>2, <3>3, <3>4 DEF Receive
    <2>3. QED
      BY <1>1, <2>1, <2>2 DEF TableInv, TableType
  <1>2. ASSUME TableInv, [Next]_vars, NEW i \in Slots, cause' # NoSegment,
               IsOpen(i), table[i].peer # cause'.peer
        PROVE  table'[i] = table[i] \/ UNCHANGED vars
    <2>1. CASE \E s \in Inputs : Receive(s)
      BY <1>1, <1>2, <2>1 DEF Receive
    <2>2. CASE \E l \in Lines : UserLine(l)
      BY <1>2, <2>2 DEF UserLine
    <2>3. QED
      BY <1>2, <2>1, <2>2 DEF Next
  <1>3. TableInv /\ [Next]_vars
        => [\A i \in Slots :
              /\ cause' # NoSegment
              /\ IsOpen(i) /\ table[i].peer # cause'.peer
              => table'[i] = table[i]]_vars
    BY <1>2
  <1>4. QED
    BY <1>3, TableInvariant, PTL DEF Spec, NoCrosstalk

-----------------------------------------------------------------------------
(* Acknowledgement numbers and announcements.                              *)

\* A lookup has one result at most.
LEMMA FoundOnce ==
  ASSUME NEW p, NEW i \in Slots, NEW k \in Slots,
         Found(table, p, i), Found(table, p, k)
  PROVE  i = k
  BY DEF Found, Slots

\* After the slot picked for p was written, a lookup of p finds that slot, if
\* it finds one at all.
LEMMA SelectedIsFound ==
  ASSUME TableType, NEW p, NEW i \in Slots, Selected(table, p, i),
         NEW e \in Entry, e.peer \in {p, table[i].peer},
         table' = [table EXCEPT ![i] = e],
         NEW k \in Slots, Found(table, p, k)'
  PROVE  k = i
  <1>1. /\ table'[i] = e
        /\ \A j \in Slots \ {i} : table'[j] = table[j]
    BY DEF TableType
  <1>2. CASE Found(table, p, i)
    BY <1>1, <1>2 DEF Found, Slots
  <1>3. CASE Unknown(table, p)
    BY <1>1, <1>3 DEF Found, Unknown
  <1>4. QED
    BY <1>2, <1>3 DEF Selected

\* Where handle_tcp_payload wants the frame sent back, the ack number in its
\* header is the next_seq it recorded.
LEMMA ReplyAcksEntry ==
  ASSUME NEW e \in Entry, NEW s \in Segment, NEW iss \in Isns,
         \/ PayloadStatus(e, s) >= TCP_REG
         \/ PayloadStatus(e, s) \in {TCP_CLOSED, TCP_FIN_ACK}
  PROVE  PayloadReply(s, iss).ack = PayloadEntry(e, s).next_seq
  <1>1. \A n : RecordSeq(e, s, n).next_seq = Wrap(s.seq + n)
    BY DEF RecordSeq, Entry
  <1>2. PayloadReply(s, iss).ack
          = Wrap(s.seq + (IF s.bits \in {SYN, FIN_ACK} THEN 1 ELSE Int8(s.len)))
    BY DEF PayloadReply
  <1>3. CASE s.bits = SYN
    <2>1. PayloadEntry(e, s) = SynEntry(e, s)
      BY <1>3 DEF PayloadEntry
    <2>2. SynEntry(e, s).next_seq = Wrap(s.seq + 1)
      BY DEF SynEntry, Entry
    <2>3. QED
      BY <1>2, <1>3, <2>1, <2>2
  <1>4. CASE s.bits = ACK
    <2>1. e.status = ACTIVE
      BY <1>4 DEF PayloadStatus
    <2>2. PayloadEntry(e, s) = [RecordSeq(e, s, Int8(s.len)) EXCEPT !.status = ACTIVE]
      BY <1>4, <2>1 DEF PayloadEntry, AckEntry
    <2>3. PayloadEntry(e, s).next_seq = RecordSeq(e, s, Int8(s.len)).next_seq
      BY <2>2 DEF RecordSeq, Entry
    <2>4. QED
      BY <1>1, <1>2, <1>4, <2>3
  <1>5. CASE s.bits = PSH_ACK
    BY <1>1, <1>2, <1>5 DEF PayloadEntry
  <1>6. CASE s.bits = FIN_ACK
    BY <1>1, <1>2, <1>6 DEF PayloadEntry
  <1>7. CASE s.bits \notin {SYN, ACK, PSH_ACK, FIN_ACK}
    BY <1>7 DEF PayloadStatus
  <1>8. QED
    BY <1>3, <1>4, <1>5, <1>6, <1>7

\* A received segment is answered with the next_seq of its peer's slot.
LEMMA ReceiveAcks ==
  ASSUME TableInv, NEW s \in Segment, Receive(s)
  PROVE  AckIsNextSeq'
  <1>1. s \in Segment
    OBVIOUS
  <1>2. CASE ReceiveLimitReached(s)
    BY <1>2 DEF ReceiveLimitReached, AckIsNextSeq
  <1>3. CASE ReceiveNoReply(s)
    BY <1>3 DEF ReceiveNoReply, AckIsNextSeq
  <1>4. ASSUME NEW i \in Slots, NEW iss \in Isns, NEW e \in Entry,
               Selected(table, s.peer, i),
               \/ PayloadStatus(table[i], s) >= TCP_REG
               \/ PayloadStatus(table[i], s) \in {TCP_CLOSED, TCP_FIN_ACK},
               e.peer = PayloadEntry(table[i], s).peer,
               e.next_seq = PayloadEntry(table[i], s).next_seq,
               table' = [table EXCEPT ![i] = e],
               \A n \in DOMAIN sent' : /\ sent'[n].peer = s.peer
                                       /\ sent'[n].ack = PayloadReply(s, iss).ack
        PROVE  AckIsNextSeq'
    <2>1. table[i] \in Entry /\ table'[i] = e
      BY <1>4 DEF TableInv, TableType
    <2>2. e.peer \in {s.peer, table[i].peer}
      BY <1>1, <1>4, <2>1, PayloadEntryEffect
    <2>3. e.next_seq = PayloadReply(s, iss).ack
      BY <1>1, <1>4, <2>1, ReplyAcksEntry
    <2>4. \A k \in Slots : Found(table, s.peer, k)' => k = i
      BY <1>4, <2>2, SelectedIsFound DEF TableInv
    <2>5. QED
      BY <1>4, <2>1, <2>3, <2>4 DEF AckIsNextSeq
  <1>5. \A i \in Slots : table[i] \in Entry /\ PayloadEntry(table[i], s) \in Entry
    BY <1>1, PayloadEntryEffect DEF TableInv, TableType
  <1>6. \A iss : /\ PayloadReply(s, iss).peer = s.peer
                 /\ SecondReply(PayloadReply(s, iss)).peer = s.peer
                 /\ SecondReply(PayloadReply(s, iss)).ack = PayloadReply(s, iss).ack
    BY DEF PayloadReply, SecondReply
  <1>7. CASE ReceiveReply(s)
    <2>1. PICK i \in Slots, iss \in Isns :
             /\ Selected(table, s.peer, i)
             /\ \/ PayloadStatus(table[i], s) >= TCP_REG
                \/ PayloadStatus(table[i], s) = TCP_CLOSED
             /\ table' = [table EXCEPT ![i] = PayloadEntry(@, s)]
             /\ sent' = <<PayloadReply(s, iss)>>
      BY <1>7 DEF ReceiveReply
    <2>2. \A n \in DOMAIN sent' : /\ sent'[n].peer = s.peer
                                  /\ sent'[n].ack = PayloadReply(s, iss).ack
      BY <1>6, <2>1
    <2> DEFINE e == PayloadEntry(table[i], s)
    <2>3. e \in Entry /\ table' = [table EXCEPT ![i] = e]
      BY <1>5, <2>1
    <2> HIDE DEF e
    <2>4. e.peer = PayloadEntry(table[i], s).peer
          /\ e.next_seq = PayloadEntry(table[i], s).next_seq
      BY DEF e
    <2>5. QED
      BY <1>4, <2>1, <2>2, <2>3, <2>4
  <1>8. CASE ReceiveFinAck(s)
    <2>1. PICK i \in Slots, iss \in Isns :
             /\ Selected(table, s.peer, i)
             /\ PayloadStatus(table[i], s) = TCP_FIN_ACK
             /\ table' = [table EXCEPT ![i] = CloseEntry(PayloadEntry(@, s))]
             /\ sent' = <<PayloadReply(s, iss), SecondReply(PayloadReply(s, iss))>>
      BY <1>8 DEF ReceiveFinAck
    <2>2. \A n \in DOMAIN sent' : /\ sent'[n].peer = s.peer
                                  /\ sent'[n].ack = PayloadReply(s, iss).ack
      BY <1>6, <2>1
    <2> DEFINE e == CloseEntry(PayloadEntry(table[i], s))
    <2>3. /\ e \in Entry
          /\ e.peer = PayloadEntry(table[i], s).peer
          /\ e.next_seq = PayloadEntry(table[i], s).next_seq
      BY <1>5, CloseEntryEffect DEF Entry
    <2>4. table' = [table EXCEPT ![i] = e]
      BY <2>1
    <2> HIDE DEF e
    <2>5. QED
      BY <1>4, <2>1, <2>2, <2>3, <2>4
  <1>9. QED
    BY <1>2, <1>3, <1>7, <1>8 DEF Receive

\* A user's segment carries the next_seq of the slot it is sent from, and a
\* lookup of its peer finds that slot.
LEMMA UserAcks ==
  ASSUME TableInv, NEW l \in Lines, UserLine(l)
  PROVE  AckIsNextSeq'
  <1>1. ASSUME NEW i \in Slots, NEW n, NEW m \in {0, 1},
               IsOpen(i) \/ table[i].io = 1,
               \/ table' = [table EXCEPT ![i] = CreatedEntry(@, n)]
               \/ table' = [table EXCEPT ![i] = [CreatedEntry(@, n) EXCEPT !.io = 0]],
               sent' = <<CreatedSegment(table[i], n)>>
        PROVE  AckIsNextSeq'
    <2>1. table[i] \in Entry
      BY DEF TableInv, TableType
    <2>2. /\ \A k \in Slots : table'[k].peer = table[k].peer
          /\ table'[i].next_seq = table[i].next_seq
      <3>1. /\ CreatedEntry(table[i], n).peer = table[i].peer
            /\ CreatedEntry(table[i], n).next_seq = table[i].next_seq
            /\ [CreatedEntry(table[i], n) EXCEPT !.io = 0].peer = table[i].peer
            /\ [CreatedEntry(table[i], n) EXCEPT !.io = 0].next_seq = table[i].next_seq
        BY <2>1 DEF CreatedEntry, Entry
      <3>2. QED
        BY <1>1, <3>1 DEF TableInv, TableType
    <2>3. Found(table, table[i].peer, i)
      BY <1>1 DEF TableInv, KeyInv
    <2>4. \A k \in Slots : Found(table, table[i].peer, k)' => k = i
      BY <2>2, <2>3, FoundOnce DEF Found
    <2>5. \A k \in DOMAIN sent' : /\ sent'[k].peer = table[i].peer
                                  /\ sent'[k].ack = table[i].next_seq
      BY <1>1 DEF CreatedSegment
    <2>6. table'[i].next_seq = table[i].next_seq
      BY <2>2
    <2>7. ASSUME NEW k \in DOMAIN sent', NEW j \in Slots, Found(table', sent'[k].peer, j)
          PROVE  sent'[k].ack = table'[j].next_seq
      <3>1. Found(table, table[i].peer, j)
        BY <2>2, <2>5, <2>7 DEF Found
      <3>2. j = i
        BY <2>3, <3>1, FoundOnce
      <3>3. QED
        BY <2>5, <2>6, <3>2
    <2>8. QED
      BY <2>7 DEF AckIsNextSeq
  <1>2. CASE sent' = <<>>
    BY <1>2 DEF AckIsNextSeq
  <1>3. CASE CommandClose(l)
    BY <1>1, <1>2, <1>3 DEF CommandClose, ValidId, IsOpen
  <1>4. CASE ChatSend(l)
    <2>1. PICK i \in Slots :
            /\ table[i].io = 1
            /\ \/ /\ table' = [table EXCEPT ![i] =
                                 [CreatedEntry(@, ReadBytes(l)) EXCEPT !.io = 0]]
                  /\ sent' = <<CreatedSegment(table[i], ReadBytes(l))>>
               \/ sent' = <<>>
      BY <1>4 DEF ChatSend, Chatting
    <2>2. QED
      BY <1>1, <1>2, <2>1
  <1>5. CASE CommandRefused(l) \/ CommandChat(l) \/ ChatExit(l) \/ ChatNothing(l)
    BY <1>2, <1>5 DEF CommandRefused, CommandChat, ChatExit, ChatNothing
  <1>6. QED
    BY <1>3, <1>4, <1>5 DEF UserLine

\* Every segment of the stack to a known peer acknowledges what the table says
\* was received from it, for replies and for the user's segments alike.
THEOREM AckIsNextSeqHolds == Spec => []AckIsNextSeq
  <1>1. Init => AckIsNextSeq
    BY DEF Init, AckIsNextSeq
  <1>2. TableInv /\ AckIsNextSeq /\ [Next]_vars => AckIsNextSeq'
    <2> SUFFICES ASSUME TableInv, AckIsNextSeq, [Next]_vars PROVE AckIsNextSeq'
      OBVIOUS
    <2>1. CASE UNCHANGED vars
      BY <2>1 DEF vars, AckIsNextSeq, Found
    <2>2. CASE Next
      BY <2>2, ReceiveAcks, UserAcks, InputsAssumption DEF Next
    <2>3. QED
      BY <2>1, <2>2
  <1>3. QED
    BY <1>1, <1>2, TableInvariant, PTL DEF Spec

\* Data of a peer with an open connection is announced under that peer: the
\* slot picked for its segment is the one a lookup of the peer finds.
THEOREM AnnouncesSenderHolds == Spec => AnnouncesSender
  <1>1. ASSUME TableInv, NEW s \in Inputs, Receive(s), NEW n \in DOMAIN printed',
               NEW i \in Slots, IsOpen(i), table[i].peer = printed'[n].sender
        PROVE  printed'[n].claimed = printed'[n].sender
    <2>1. PICK k \in Slots : Selected(table, s.peer, k) /\ Output(table[k], s)
      <3>1. ~ReceiveLimitReached(s)
        BY <1>1 DEF ReceiveLimitReached
      <3>2. QED
        BY <1>1, <3>1 DEF Receive, ReceiveNoReply, ReceiveReply, ReceiveFinAck
    <2>2. printed'[n] = Announce(table[k], s, PayloadOctets(table[k], s))
      BY <1>1, <2>1 DEF Output
    <2>3. Found(table, s.peer, i)
      BY <1>1, <2>2 DEF Announce, TableInv, KeyInv
    <2>4. Found(table, s.peer, k)
      BY <2>1, <2>3 DEF Selected, Unknown, Found
    <2>5. QED
      BY <2>2, <2>4 DEF Announce, Found
  <1>2. ASSUME TableInv, [Next]_vars
        PROVE  [\A n \in DOMAIN printed' :
                  (\E i \in Slots : IsOpen(i) /\ table[i].peer = printed'[n].sender)
                  => printed'[n].claimed = printed'[n].sender]_vars
    <2>1. CASE \E s \in Inputs : Receive(s)
      BY <1>1, <1>2, <2>1
    <2>2. CASE \E l \in Lines : UserLine(l)
      <3>1. printed' = <<>>
        BY <2>2 DEF UserLine, CommandRefused, CommandClose, CommandChat, ChatExit,
                    ChatSend, ChatNothing
      <3>2. QED
        BY <3>1
    <2>3. QED
      BY <1>2, <2>1, <2>2 DEF Next
  <1>3. QED
    BY <1>2, TableInvariant, PTL DEF Spec, AnnouncesSender

-----------------------------------------------------------------------------
(* How a connection opens and closes.                                      *)

\* A closed slot is opened by the SYN it was picked for, and that SYN is
\* answered with a SYN/ACK that acknowledges it.
LEMMA ReceiveOpens ==
  ASSUME TableInv, NEW s \in Segment, Receive(s), NEW i \in Slots, ~IsOpen(i), IsOpen(i)'
  PROVE  /\ table'[i].status = SYN_RCVD
         /\ \E r \in {sent'[n] : n \in DOMAIN sent'} :
               /\ r.bits = SYN_ACK
               /\ r.peer = table'[i].peer
               /\ r.ack = table'[i].next_seq
  <1>1. s \in Segment
    OBVIOUS
  <1>2. table \in [Slots -> Entry]
    BY DEF TableInv, TableType
  <1>3. ~ReceiveLimitReached(s)
    BY DEF ReceiveLimitReached, IsOpen
  <1>4. \A k \in Slots : CloseEntry(PayloadEntry(table[k], s)).status = NOT_CONNECTED
    BY <1>1, <1>2, PayloadEntryEffect, CloseEntryEffect DEF Entry
  <1>5. ~ReceiveFinAck(s)
    BY <1>2, <1>4 DEF ReceiveFinAck, IsOpen
  <1>6. PICK k \in Slots :
           /\ table' = [table EXCEPT ![k] = PayloadEntry(@, s)]
           /\ \/ PayloadStatus(table[k], s) < 0
              \/ \E iss \in Isns : /\ sent' = <<PayloadReply(s, iss)>>
                                   /\ \/ PayloadStatus(table[k], s) >= TCP_REG
                                      \/ PayloadStatus(table[k], s) = TCP_CLOSED
    BY <1>3, <1>5 DEF Receive, ReceiveNoReply, ReceiveReply
  <1>7. k = i /\ table'[i] = PayloadEntry(table[i], s) /\ table[i] \in Entry
    BY <1>2, <1>6 DEF IsOpen
  <1>8. s.bits = SYN
    BY <1>1, <1>7, PayloadEntryEffect DEF IsOpen
  <1>9. PayloadStatus(table[i], s) = TCP_REG
    BY <1>8 DEF PayloadStatus
  <1>10. PICK iss \in Isns : sent' = <<PayloadReply(s, iss)>>
    BY <1>6, <1>7, <1>9
  <1>11. PayloadReply(s, iss).ack = table'[i].next_seq
    BY <1>1, <1>7, <1>9, ReplyAcksEntry
  <1>12. PayloadReply(s, iss).bits = SYN_ACK /\ PayloadReply(s, iss).peer = s.peer
    BY <1>8 DEF PayloadReply
  <1>13. table'[i].status = SYN_RCVD /\ table'[i].peer = s.peer
    BY <1>1, <1>7, <1>8, PayloadEntryEffect
  <1>14. sent'[1] = PayloadReply(s, iss) /\ 1 \in DOMAIN sent'
    BY <1>10
  <1>15. QED
    BY <1>11, <1>12, <1>13, <1>14

\* The ACK that ends a handshake is not answered.
LEMMA EstablishSilent ==
  ASSUME TableInv, NEW s \in Segment, Receive(s), NEW i \in Slots,
         table[i].status = SYN_RCVD, table'[i].status = ACTIVE
  PROVE  sent' = <<>>
  <1>1. s \in Segment
    OBVIOUS
  <1>2. table \in [Slots -> Entry]
    BY DEF TableInv, TableType
  <1>3. ASSUME NEW k \in Slots, table' = [table EXCEPT ![k] = PayloadEntry(@, s)]
        PROVE  k = i /\ PayloadStatus(table[k], s) = TCP_NONE
    <2>1. k = i /\ table[i] \in Entry /\ PayloadEntry(table[i], s).status = ACTIVE
      BY <1>2, <1>3
    <2>2. s.bits = ACK
      <3>1. s.bits # SYN
        BY <1>1, <2>1, PayloadEntryEffect
      <3>2. \A n : RecordSeq(table[i], s, n).status = SYN_RCVD
        BY <2>1 DEF RecordSeq, Entry
      <3>3. QED
        BY <2>1, <3>1, <3>2 DEF PayloadEntry
    <2>3. QED
      BY <2>1, <2>2 DEF PayloadStatus
  <1>4. \A k \in Slots : CloseEntry(PayloadEntry(table[k], s)).status = NOT_CONNECTED
    BY <1>1, <1>2, PayloadEntryEffect, CloseEntryEffect DEF Entry
  <1>5. ~ReceiveFinAck(s)
    BY <1>2, <1>4 DEF ReceiveFinAck
  <1>6. ~ReceiveReply(s)
    BY <1>3 DEF ReceiveReply
  <1>7. QED
    BY <1>5, <1>6 DEF Receive, ReceiveNoReply, ReceiveLimitReached

\* A line opens no connection and establishes none.
LEMMA UserOpensNothing ==
  ASSUME TableInv, NEW l \in Lines, UserLine(l), NEW i \in Slots
  PROVE  table'[i].status \in {table[i].status, NOT_CONNECTED}
  <1>1. table \in [Slots -> Entry]
    BY DEF TableInv, TableType
  <1>2. \A k \in Slots :
           /\ \A n : /\ CreatedEntry(table[k], n).status
                         \in {table[k].status, NOT_CONNECTED}
                    /\ [CreatedEntry(table[k], n) EXCEPT !.io = 0].status
                         \in {table[k].status, NOT_CONNECTED}
           /\ CloseEntry(table[k]).status = NOT_CONNECTED
           /\ \A b : [table[k] EXCEPT !.io = b].status = table[k].status
    BY <1>1 DEF CreatedEntry, CloseEntry, Entry
  <1>3. CASE CommandClose(l)
    BY <1>1, <1>2, <1>3 DEF CommandClose, ValidId
  <1>4. CASE CommandChat(l)
    BY <1>1, <1>2, <1>4 DEF CommandChat, ValidId
  <1>5. CASE ChatExit(l)
    BY <1>1, <1>2, <1>5 DEF ChatExit
  <1>6. CASE ChatSend(l)
    <2>1. PICK k \in Slots :
            \/ table' = [table EXCEPT ![k] = [CreatedEntry(@, ReadBytes(l)) EXCEPT !.io = 0]]
            \/ table' = [table EXCEPT ![k].io = 0]
      BY <1>6 DEF ChatSend
    <2>2. PICK e : /\ table' = [table EXCEPT ![k] = e]
                   /\ e.status \in {table[k].status, NOT_CONNECTED}
      <3> DEFINE x == [CreatedEntry(table[k], ReadBytes(l)) EXCEPT !.io = 0]
                 y == [table[k] EXCEPT !.io = 0]
      <3>1. /\ x.status \in {table[k].status, NOT_CONNECTED}
            /\ y.status \in {table[k].status, NOT_CONNECTED}
        BY <1>2
      <3>2. table' = [table EXCEPT ![k] = x] \/ table' = [table EXCEPT ![k] = y]
        BY <2>1
      <3>. HIDE DEF x, y
      <3>3. QED
        BY <3>1, <3>2
    <2>3. QED
      BY <1>1, <2>2
  <1>7. CASE CommandRefused(l) \/ ChatNothing(l)
    BY <1>7 DEF CommandRefused, ChatNothing
  <1>8. QED
    BY <1>3, <1>4, <1>5, <1>6, <1>7 DEF UserLine

\* Every connection begins with an answered SYN and becomes active from half
\* open only, whatever the peers send and the user types.
THEOREM OpensByHandshakeHolds == Spec => OpensByHandshake
  <1> DEFINE Opens(i) ==
          /\ ~IsOpen(i) /\ IsOpen(i)' =>
                /\ table'[i].status = SYN_RCVD
                /\ \E r \in {sent'[n] : n \in DOMAIN sent'} :
                      /\ r.bits = SYN_ACK
                      /\ r.peer = table'[i].peer
                      /\ r.ack = table'[i].next_seq
          /\ table[i].status = SYN_RCVD /\ table'[i].status = ACTIVE
                => sent' = <<>>
  <1>1. ASSUME TableInv, [Next]_vars, NEW i \in Slots PROVE Opens(i) \/ UNCHANGED vars
    <2>1. CASE \E s \in Inputs : Receive(s)
      BY <1>1, <2>1, ReceiveOpens, EstablishSilent, InputsAssumption
    <2>2. CASE \E l \in Lines : UserLine(l)
      BY <1>1, <2>2, UserOpensNothing DEF IsOpen
    <2>3. QED
      BY <1>1, <2>1, <2>2 DEF Next
  <1>2. TableInv /\ [Next]_vars => [\A i \in Slots : Opens(i)]_vars
    BY <1>1
  <1>3. QED
    BY <1>2, TableInvariant, PTL DEF Spec, OpensByHandshake

\* Only the TCP_FIN_ACK case of handle_packet closes a slot: the one its
\* segment's peer is found in, after which a FIN/ACK is the last frame sent.
LEMMA ReceiveCloses ==
  ASSUME TableInv, NEW s \in Segment, Receive(s), NEW i \in Slots, IsOpen(i), ~IsOpen(i)'
  PROVE  /\ PayloadStatus(table[i], s) = TCP_FIN_ACK
         /\ table[i].peer = s.peer
         /\ sent' # <<>>
         /\ sent'[Len(sent')].bits = FIN_ACK
         /\ sent'[Len(sent')].peer = s.peer
  <1>1. s \in Segment
    OBVIOUS
  <1>2. table \in [Slots -> Entry]
    BY DEF TableInv, TableType
  <1>3. ASSUME NEW k \in Slots, table' = [table EXCEPT ![k] = PayloadEntry(@, s)]
        PROVE  FALSE
    <2>1. table[k] \in Entry /\ k = i /\ table'[k] = PayloadEntry(table[k], s)
      BY <1>2, <1>3 DEF IsOpen
    <2>2. QED
      BY <1>1, <2>1, PayloadEntryEffect DEF IsOpen
  <1>4. PICK k \in Slots, iss \in Isns :
           /\ Selected(table, s.peer, k)
           /\ PayloadStatus(table[k], s) = TCP_FIN_ACK
           /\ table' = [table EXCEPT ![k] = CloseEntry(PayloadEntry(@, s))]
           /\ sent' = <<PayloadReply(s, iss), SecondReply(PayloadReply(s, iss))>>
    BY <1>3 DEF Receive, ReceiveLimitReached, ReceiveNoReply, ReceiveReply, ReceiveFinAck,
                IsOpen
  <1>5. k = i
    BY <1>2, <1>4 DEF IsOpen
  <1>6. table[i].peer = s.peer
    BY <1>4, <1>5 DEF Selected, Found, FirstFree, IsOpen
  <1>7. sent'[Len(sent')] = SecondReply(PayloadReply(s, iss)) /\ sent' # <<>>
    BY <1>4
  <1>8. /\ SecondReply(PayloadReply(s, iss)).bits = FIN_ACK
        /\ SecondReply(PayloadReply(s, iss)).peer = s.peer
    BY DEF SecondReply, PayloadReply
  <1>9. QED
    BY <1>4, <1>5, <1>6, <1>7, <1>8

\* The user's close sends a FIN/ACK to the slot's peer, or nothing.
LEMMA UserCloses ==
  ASSUME TableInv, NEW l \in Lines, UserLine(l), NEW i \in Slots, IsOpen(i), ~IsOpen(i)'
  PROVE  \/ /\ sent' # <<>>
            /\ sent'[Len(sent')].bits = FIN_ACK
            /\ sent'[Len(sent')].peer = table[i].peer
         \/ sent' = <<>>
  <1>1. table \in [Slots -> Entry]
    BY DEF TableInv, TableType
  <1>2. CASE CommandClose(l)
    <2>1. l.id = i
      BY <1>1, <1>2 DEF CommandClose, ValidId, IsOpen
    <2>2. CreatedSegment(table[i], 0).bits = FIN_ACK
          /\ CreatedSegment(table[i], 0).peer = table[i].peer
      BY DEF CreatedSegment
    <2>3. CASE sent' = <<CreatedSegment(table[i], 0)>>
      BY <2>2, <2>3
    <2>4. QED
      BY <1>2, <2>1, <2>3 DEF CommandClose
  <1>3. CASE ChatSend(l)
    <2>1. ReadBytes(l) > 0 /\ ReadBytes(l) \in Nat
      BY <1>3, LinesAssumption DEF ChatSend, ReadBytes, Line
    <2>2. \A k \in Slots :
             /\ [CreatedEntry(table[k], ReadBytes(l)) EXCEPT !.io = 0].status = table[k].status
             /\ [table[k] EXCEPT !.io = 0].status = table[k].status
      BY <1>1, <2>1 DEF CreatedEntry, Entry
    <2>3. QED
      BY <1>1, <1>3, <2>2 DEF ChatSend, IsOpen
  <1>4. CASE CommandRefused(l) \/ CommandChat(l) \/ ChatExit(l) \/ ChatNothing(l)
    BY <1>4 DEF CommandRefused, CommandChat, ChatExit, ChatNothing
  <1>5. QED
    BY <1>2, <1>3, <1>4 DEF UserLine

\* No close goes untold but the user's whose frame could not be allocated.
THEOREM ClosesWithFinHolds == Spec => ClosesWithFin
  <1> DEFINE Told(i) ==
          IsOpen(i) /\ ~IsOpen(i)' =>
            \/ /\ sent' # <<>>
               /\ sent'[Len(sent')].bits = FIN_ACK
               /\ sent'[Len(sent')].peer = table[i].peer
            \/ sent' = <<>> /\ cause' = NoSegment
  <1>1. ASSUME TableInv, [Next]_vars, NEW i \in Slots PROVE Told(i) \/ UNCHANGED vars
    <2>1. CASE \E s \in Inputs : Receive(s)
      BY <1>1, <2>1, ReceiveCloses, InputsAssumption
    <2>2. CASE \E l \in Lines : UserLine(l)
      <3>1. cause' = NoSegment
        BY <2>2 DEF UserLine
      <3>2. QED
        BY <1>1, <2>2, <3>1, UserCloses
    <2>3. QED
      BY <1>1, <2>1, <2>2 DEF Next
  <1>2. TableInv /\ [Next]_vars => [\A i \in Slots : Told(i)]_vars
    BY <1>1
  <1>3. QED
    BY <1>2, TableInvariant, PTL DEF Spec, ClosesWithFin

\* The status of a PSH/ACK is its length as an int8_t, so one of 253 octets
\* modulo 256 has the status of a FIN (the run table_large shows it). While none
\* arrives, a received segment closes a connection only when it is a FIN/ACK.
THEOREM OnlyFinClosesHolds ==
  ASSUME \A s \in Inputs : s.bits = PSH_ACK => Int8(s.len) # TCP_FIN_ACK
  PROVE  Spec => OnlyFinCloses
  <1> DEFINE ByFin(i) == /\ cause' # NoSegment
                         /\ IsOpen(i) /\ ~IsOpen(i)'
                         => cause'.bits = FIN_ACK
  <1>1. ASSUME TableInv, [Next]_vars, NEW i \in Slots PROVE ByFin(i) \/ UNCHANGED vars
    <2>1. CASE \E s \in Inputs : Receive(s)
      <3>1. PICK s \in Inputs : Receive(s)
        BY <2>1
      <3>2. ASSUME IsOpen(i), ~IsOpen(i)' PROVE s.bits = FIN_ACK
        <4>1. PayloadStatus(table[i], s) = TCP_FIN_ACK
          BY <1>1, <3>1, <3>2, ReceiveCloses, InputsAssumption
        <4>2. QED
          BY <4>1 DEF PayloadStatus
      <3>3. cause'.bits = s.bits
        BY <3>1 DEF Receive
      <3>4. QED
        BY <3>2, <3>3
    <2>2. CASE \E l \in Lines : UserLine(l)
      BY <2>2 DEF UserLine
    <2>3. QED
      BY <1>1, <2>1, <2>2 DEF Next
  <1>2. TableInv /\ [Next]_vars => [\A i \in Slots : ByFin(i)]_vars
    BY <1>1
  <1>3. QED
    BY <1>2, TableInvariant, PTL DEF Spec, OnlyFinCloses

-----------------------------------------------------------------------------
(* Type correctness of the frames and the output.                          *)

\* The frames a segment provokes and the data it prints.
LEMMA ReceiveType ==
  ASSUME TableType, NEW s \in Segment, Receive(s)
  PROVE  /\ sent' \in Seq(SentSegment)
         /\ printed' \in Seq(Announcement)
         /\ cause' \in [peer : Peers \cup {NoPeer}, bits : 0 .. 63]
  <1>1. s \in Segment
    OBVIOUS
  <1>2. ASSUME NEW e \in Entry, Output(e, s)
        PROVE  printed' \in Seq(Announcement)
    <2>1. PayloadOctets(e, s) > 0 => PayloadOctets(e, s) \in 1 .. 127
      BY <1>1, Int8Type DEF PayloadOctets, Segment
    <2>2. e.peer \in Peers \cup {NoPeer} /\ s.peer \in Peers
      BY <1>1 DEF Entry, Segment
    <2>3. PayloadOctets(e, s) > 0
             => Announce(e, s, PayloadOctets(e, s)) \in Announcement
      BY <2>1, <2>2 DEF Announce, Announcement
    <2>4. QED
      BY <1>2, <2>3 DEF Output
  <1>3. \A i \in Slots : table[i] \in Entry
    BY DEF TableType
  <1>4. cause' \in [peer : Peers \cup {NoPeer}, bits : 0 .. 63]
    BY <1>1 DEF Receive, Segment
  <1>5. SUFFICES sent' \in Seq(SentSegment) /\ printed' \in Seq(Announcement)
    BY <1>4
  <1>6. CASE ReceiveLimitReached(s)
    BY <1>6 DEF ReceiveLimitReached
  <1>7. CASE ReceiveNoReply(s)
    BY <1>2, <1>3, <1>7 DEF ReceiveNoReply
  <1>8. CASE ReceiveReply(s)
    <2>1. \E i \in Slots, iss \in Isns :
              sent' = <<PayloadReply(s, iss)>> /\ Output(table[i], s)
      BY <1>8 DEF ReceiveReply
    <2>2. QED
      BY <1>1, <1>2, <1>3, <2>1, PayloadReplyType
  <1>9. CASE ReceiveFinAck(s)
    <2>1. PICK i \in Slots, iss \in Isns :
              /\ sent' = <<PayloadReply(s, iss), SecondReply(PayloadReply(s, iss))>>
              /\ Output(table[i], s)
      BY <1>9 DEF ReceiveFinAck
    <2>2. /\ PayloadReply(s, iss) \in SentSegment
          /\ SecondReply(PayloadReply(s, iss)) \in SentSegment
      BY <1>1, PayloadReplyType
    <2>3. QED
      BY <1>2, <1>3, <2>1, <2>2
  <1>10. QED
    BY <1>6, <1>7, <1>8, <1>9 DEF Receive

\* Which segments are answered, and to which port.
Answered(s) ==
    /\ s.bits = ACK => Int8(s.len) > 0
    /\ s.bits = PSH_ACK => Int8(s.len) >= 0 \/ Int8(s.len) \in {TCP_CLOSED, TCP_FIN_ACK}

LEMMA ReplyFacts ==
  ASSUME NEW s, Receive(s), NEW k \in DOMAIN sent'
  PROVE  Answered(s) /\ sent'[k].toPeerPort = (s.bits # ACK)
  <1>1. PICK i \in Slots, iss \in Isns :
           /\ \/ PayloadStatus(table[i], s) >= TCP_REG
              \/ PayloadStatus(table[i], s) \in {TCP_CLOSED, TCP_FIN_ACK}
           /\ \/ sent' = <<PayloadReply(s, iss)>>
              \/ sent' = <<PayloadReply(s, iss), SecondReply(PayloadReply(s, iss))>>
    <2>1. sent' # <<>>
      OBVIOUS
    <2>2. QED
      BY <2>1 DEF Receive, ReceiveLimitReached, ReceiveNoReply, ReceiveReply, ReceiveFinAck
  <1>2. Answered(s)
    BY <1>1 DEF PayloadStatus, Answered
  <1>3. /\ PayloadReply(s, iss).toPeerPort = (s.bits # ACK)
        /\ SecondReply(PayloadReply(s, iss)).toPeerPort = (s.bits # ACK)
    BY Zenon DEF PayloadReply, SecondReply
  <1>4. sent'[k] \in {PayloadReply(s, iss), SecondReply(PayloadReply(s, iss))}
    BY <1>1
  <1>5. QED
    BY <1>2, <1>3, <1>4

\* A line sends one segment at most, from a slot, of at most as many octets as
\* read returns.
LEMMA UserSends ==
  ASSUME NEW l \in Lines, UserLine(l)
  PROVE  \/ sent' = <<>>
         \/ \E i \in Slots, n \in Nat : n <= 1024 /\ sent' = <<CreatedSegment(table[i], n)>>
  <1>1. ReadBytes(l) \in Nat /\ ReadBytes(l) <= 1024
    BY LinesAssumption DEF ReadBytes, Line
  <1>2. CASE CommandClose(l)
    BY <1>2 DEF CommandClose, ValidId
  <1>3. CASE ChatSend(l)
    BY <1>1, <1>3 DEF ChatSend
  <1>4. CASE CommandRefused(l) \/ CommandChat(l) \/ ChatExit(l) \/ ChatNothing(l)
    BY <1>4 DEF CommandRefused, CommandChat, ChatExit, ChatNothing
  <1>5. QED
    BY <1>2, <1>3, <1>4 DEF UserLine

\* The frame a line provokes.
LEMMA UserType ==
  ASSUME TableType, NEW l \in Lines, UserLine(l)
  PROVE  /\ sent' \in Seq(SentSegment)
         /\ printed' \in Seq(Announcement)
         /\ cause' \in [peer : Peers \cup {NoPeer}, bits : 0 .. 63]
  <1>1. ReadBytes(l) \in Nat /\ ReadBytes(l) <= 1024
    BY LinesAssumption DEF ReadBytes, Line
  <1>2. \A i \in Slots, n \in {0, ReadBytes(l)} : CreatedSegment(table[i], n) \in SentSegment
    <2>1. \A i \in Slots : table[i] \in Entry
      BY DEF TableType
    <2>2. QED
      BY <1>1, <2>1, CreatedEffect
  <1>3. printed' = <<>>
    BY DEF UserLine, CommandRefused, CommandClose, CommandChat, ChatExit,
           ChatSend, ChatNothing
  <1>4. \/ sent' = <<>>
        \/ \E i \in Slots, n \in {0, ReadBytes(l)} : sent' = <<CreatedSegment(table[i], n)>>
    <2>1. CASE CommandClose(l)
      BY <2>1 DEF CommandClose, ValidId
    <2>2. CASE ChatSend(l)
      BY <2>2 DEF ChatSend
    <2>3. CASE CommandRefused(l) \/ CommandChat(l) \/ ChatExit(l) \/ ChatNothing(l)
      BY <2>3 DEF CommandRefused, CommandChat, ChatExit, ChatNothing
    <2>4. QED
      BY <2>1, <2>2, <2>3 DEF UserLine
  <1>5. cause' \in [peer : Peers \cup {NoPeer}, bits : 0 .. 63]
    <2>1. cause' = NoSegment
      BY DEF UserLine
    <2>2. NoSegment \in [peer : Peers \cup {NoPeer}, bits : 0 .. 63]
      <3>1. 0 \in 0 .. 63
        OBVIOUS
      <3>2. QED
        BY <3>1, Zenon DEF NoSegment
    <2>3. QED
      BY <2>1, <2>2
  <1>6. sent' \in Seq(SentSegment)
    <2>1. CASE sent' = <<>>
      BY <2>1
    <2>2. ASSUME NEW r \in SentSegment, sent' = <<r>>
          PROVE  sent' \in Seq(SentSegment)
      BY <2>2
    <2>3. QED
      BY <1>2, <1>4, <2>1, <2>2
  <1>7. printed' \in Seq(Announcement)
    BY <1>3
  <1>8. QED
    BY <1>5, <1>6, <1>7

\* Table, frames and output keep their types, for every segment and line.
THEOREM TypeCorrect == Spec => []TypeOK
  <1>1. Init => TypeOK
    BY TableInvInit DEF TableInv, TableType, Init, TypeOK, NoSegment
  <1>2. TypeOK /\ TableInv /\ TableInv' /\ [Next]_vars => TypeOK'
    <2> SUFFICES ASSUME TypeOK, TableInv, TableInv', [Next]_vars PROVE TypeOK'
      OBVIOUS
    <2>1. CASE UNCHANGED vars
      BY <2>1 DEF vars, TypeOK
    <2>2. CASE Next
      BY <2>2, ReceiveType, UserType, InputsAssumption DEF Next, TypeOK, TableInv, TableType
    <2>3. QED
      BY <2>1, <2>2
  <1>3. QED
    BY <1>1, <1>2, TableInvariant, PTL DEF Spec

-----------------------------------------------------------------------------
(* The table implements the connection map.                                *)

\* While a slot is closed the map has room: the peers of the open slots are
\* the image of a smaller set of slots.
LEMMA RoomLeft ==
  ASSUME TableType, NEW i \in Slots, ~IsOpen(i)
  PROVE  Cardinality(PeersIn(SYN_RCVD) \cup PeersIn(ACTIVE)) < TCP_CONNECTION_LIMIT
  <1> DEFINE OpenSlots == {j \in Slots : IsOpen(j)}
             C == PeersIn(SYN_RCVD) \cup PeersIn(ACTIVE)
             f == [j \in OpenSlots |-> table[j].peer]
  <1>1. /\ IsFiniteSet(Slots)
        /\ Cardinality(Slots) = TCP_CONNECTION_LIMIT
    BY LimitAssumption, FS_Interval DEF Slots
  <1>2. /\ IsFiniteSet(Slots \ {i})
        /\ Cardinality(Slots \ {i}) = TCP_CONNECTION_LIMIT - 1
    BY <1>1, FS_RemoveElement
  <1>3. OpenSlots \in SUBSET (Slots \ {i})
    OBVIOUS
  <1>4. /\ IsFiniteSet(OpenSlots)
        /\ Cardinality(OpenSlots) <= TCP_CONNECTION_LIMIT - 1
    BY <1>2, <1>3, FS_Subset
  <1>5. \A j \in Slots : IsOpen(j) <=> table[j].status \in {SYN_RCVD, ACTIVE}
    BY DEF TableType, Entry, Statuses, IsOpen
  <1>6. C = {table[j].peer : j \in OpenSlots}
    BY <1>5 DEF PeersIn
  <1>7. f \in Surjection(OpenSlots, C)
    BY <1>6 DEF Surjection
  <1>8. Cardinality(C) <= Cardinality(OpenSlots)
    BY <1>4, <1>7, FS_Surjection
  <1>9. Cardinality(C) \in Nat /\ Cardinality(OpenSlots) \in Nat
    BY <1>4, <1>7, FS_Surjection, FS_CardinalityType
  <1>10. QED
    BY <1>4, <1>8, <1>9, LimitAssumption

\* Two open slots never have the same peer.
LEMMA UniqueOpen ==
  ASSUME KeyInv, NEW i \in Slots, NEW j \in Slots, IsOpen(i), IsOpen(j),
         table[i].peer = table[j].peer
  PROVE  i = j
  BY DEF KeyInv, Found, Slots

\* A slot claimed by a SYN is an Open of the map.
LEMMA SynMapsToOpen ==
  ASSUME TableInv, KeyInv', NEW i \in Slots, NEW e \in Entry,
         table' = [table EXCEPT ![i] = e], SynStep(i, e)
  PROVE  \E p \in Peers : Map!Open(p)
  <1>1. PICK p \in Peers : Selected(table, p, i) /\ e.peer = p /\ e.status = SYN_RCVD
    BY DEF SynStep
  <1>2. /\ table'[i] = e
        /\ \A k \in Slots \ {i} : table'[k] = table[k]
    BY DEF TableInv, TableType
  <1>3. IsOpen(i) => table[i].peer = p
    BY <1>1 DEF Selected, Found, FirstFree, IsOpen
  <1>4. \A k \in Slots \ {i} : IsOpen(k) => table[k].peer # p
    <2> SUFFICES ASSUME NEW k \in Slots \ {i}, IsOpen(k), table[k].peer = p
                 PROVE  FALSE
      OBVIOUS
    <2>1. IsOpen(k)' /\ IsOpen(i)' /\ table'[k].peer = table'[i].peer
      BY <1>1, <1>2 DEF IsOpen
    <2>2. Found(table', p, k) /\ Found(table', p, i)
      BY <1>1, <1>2, <2>1 DEF KeyInv
    <2>3. QED
      BY <2>2 DEF Found, Slots
  <1>5. \A k \in Slots : IsOpen(k) <=> table[k].status \in {SYN_RCVD, ACTIVE}
    BY DEF TableInv, TableType, Entry, Statuses, IsOpen
  <1>6. PeersIn(SYN_RCVD)' = PeersIn(SYN_RCVD) \cup {p}
    BY <1>1, <1>2, <1>3, <1>5 DEF PeersIn
  <1>7. PeersIn(ACTIVE)' = PeersIn(ACTIVE) \ {p}
    BY <1>1, <1>2, <1>3, <1>4, <1>5 DEF PeersIn
  <1>8. \/ p \in PeersIn(SYN_RCVD) \cup PeersIn(ACTIVE)
        \/ Cardinality(PeersIn(SYN_RCVD) \cup PeersIn(ACTIVE)) < TCP_CONNECTION_LIMIT
    <2>1. CASE IsOpen(i)
      BY <1>3, <1>5, <2>1 DEF PeersIn
    <2>2. CASE ~IsOpen(i)
      BY <2>2, RoomLeft DEF TableInv
    <2>3. QED
      BY <2>1, <2>2
  <1>9. \A S : Map!Cardinality(S) = Cardinality(S)
    BY DEF Map!Cardinality, Cardinality, Map!IsFiniteSet, IsFiniteSet
  <1>10. QED
    BY <1>6, <1>7, <1>8, <1>9 DEF Map!Open, Map!Connected

\* Any other write to a slot leaves the map alone, establishes the slot's
\* connection or closes it.
LEMMA KeepMapsToStep ==
  ASSUME TableInv, NEW i \in Slots, NEW e \in Entry,
         table' = [table EXCEPT ![i] = e], KeepStep(i, e)
  PROVE  \/ UNCHANGED <<PeersIn(SYN_RCVD), PeersIn(ACTIVE)>>
         \/ \E p \in Peers : Map!Establish(p) \/ Map!Close(p)
  <1>1. /\ table'[i] = e
        /\ \A k \in Slots \ {i} : table'[k] = table[k]
        /\ e.peer = table[i].peer
    BY DEF TableInv, TableType, KeepStep
  <1>2. CASE e.status = table[i].status
    <2>1. \A k \in Slots : /\ table'[k].status = table[k].status
                           /\ table'[k].peer = table[k].peer
      BY <1>1, <1>2
    <2>2. QED
      BY <2>1 DEF PeersIn
  <1>3. CASE e.status # table[i].status
    <2> DEFINE p == table[i].peer
    <2>1. IsOpen(i) /\ p \in Peers
      BY <1>3 DEF KeepStep, IsOpen, TableInv, PeerInv
    <2>2. \A k \in Slots \ {i} : IsOpen(k) => table[k].peer # p
      BY <2>1, UniqueOpen DEF TableInv
    <2>3. \A k \in Slots : IsOpen(k) <=> table[k].status \in {SYN_RCVD, ACTIVE}
      BY DEF TableInv, TableType, Entry, Statuses, IsOpen
    <2>4. CASE table[i].status = SYN_RCVD /\ e.status = ACTIVE
      <3>1. PeersIn(SYN_RCVD)' = PeersIn(SYN_RCVD) \ {p}
        BY <1>1, <2>2, <2>3, <2>4 DEF PeersIn
      <3>2. PeersIn(ACTIVE)' = PeersIn(ACTIVE) \cup {p}
        BY <1>1, <2>4 DEF PeersIn
      <3>3. p \in PeersIn(SYN_RCVD)
        BY <2>4 DEF PeersIn
      <3>4. QED
        BY <2>1, <3>1, <3>2, <3>3 DEF Map!Establish
    <2>5. CASE e.status = NOT_CONNECTED
      <3>1. PeersIn(SYN_RCVD)' = PeersIn(SYN_RCVD) \ {p}
        BY <1>1, <2>2, <2>3, <2>5 DEF PeersIn
      <3>2. PeersIn(ACTIVE)' = PeersIn(ACTIVE) \ {p}
        BY <1>1, <2>2, <2>3, <2>5 DEF PeersIn
      <3>3. p \in PeersIn(SYN_RCVD) \cup PeersIn(ACTIVE)
        BY <2>1, <2>3 DEF PeersIn
      <3>4. QED
        BY <2>1, <3>1, <3>2, <3>3 DEF Map!Close, Map!Connected
    <2>6. QED
      BY <1>3, <2>4, <2>5 DEF KeepStep
  <1>4. QED
    BY <1>2, <1>3

\* A TableStep is a step of the connection map or leaves it alone.
LEMMA TableStepMaps ==
  ASSUME TableInv, TableInv', TableStep
  PROVE  Map!CMNext \/ UNCHANGED Map!cmVars
  <1>1. CASE UNCHANGED table
    BY <1>1 DEF Map!cmVars, PeersIn
  <1>2. ASSUME NEW i \in Slots, NEW e \in Entry,
               table' = [table EXCEPT ![i] = e],
               SynStep(i, e) \/ KeepStep(i, e)
        PROVE  Map!CMNext \/ UNCHANGED Map!cmVars
    BY <1>2, SynMapsToOpen, KeepMapsToStep DEF Map!CMNext, Map!cmVars, TableInv
  <1>3. QED
    BY <1>1, <1>2 DEF TableStep

\* The cleared table is the empty map.
LEMMA InitMaps == Init => Map!CMInit
  BY DEF Init, FreshEntry, PeersIn, Map!CMInit

\* The table implements the connection map, for every capacity.
THEOREM TableImplementsMap == Spec => ImplementsMap
  <1>1. TableInv /\ TableInv' /\ [Next]_vars => [Map!CMNext]_(Map!cmVars)
    BY EveryStep, TableStepMaps DEF TableInv, TableType
  <1>2. QED
    BY <1>1, InitMaps, TableInvariant, PTL DEF Spec, ImplementsMap, Map!CMSpec
=============================================================================
