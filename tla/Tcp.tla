-------------------------------- MODULE Tcp --------------------------------
(***************************************************************************)
(* The TCP endpoint of the stack (src/tcp.c, src/tcp.h) as operators: one  *)
(* entry of the connection table, how a slot is picked for a segment, and  *)
(* what handle_tcp_payload does to that slot, returns to handle_packet and *)
(* leaves in the header of the frame that is sent back.                    *)
(*                                                                         *)
(* A peer stands for the pair (host_ip_addr, port) the table is keyed by.  *)
(* ip_str is written with host_ip_addr and only names the same host, and   *)
(* fin_ack is never used; neither is kept here.                            *)
(***************************************************************************)
EXTENDS Integers

CONSTANTS
    TCP_CONNECTION_LIMIT,   \* slots of the table: 10 in stack.h
    SeqSpace,               \* number of sequence numbers: 2^32 for uint32_t
    NoPeer,                 \* the all-zero (host_ip_addr, port) of a fresh slot
    NoMac                   \* the all-zero host_mac of a fresh slot

ASSUME LimitAssumption == TCP_CONNECTION_LIMIT \in Nat \ {0}
ASSUME SeqSpaceAssumption == SeqSpace \in Nat \ {0}

Slots == 0 .. (TCP_CONNECTION_LIMIT - 1)
Seqs  == 0 .. (SeqSpace - 1)

\* A uint16_t length.
UInt16 == {n \in Nat : n < 65536}

\* The values of connection_status.
NOT_CONNECTED == 0
ACTIVE        == 1
SYN_RCVD      == 2
Statuses      == {NOT_CONNECTED, ACTIVE, SYN_RCVD}

\* The control bits handle_tcp_payload tells apart.
SYN     == 2
ACK     == 16
FIN_ACK == 17
SYN_ACK == 18
PSH_ACK == 24

\* What handle_tcp_payload returns; a PSH/ACK returns its int8_t data_octets.
TCP_NONE    == -1
TCP_REG     == 0
TCP_CLOSED  == -2
TCP_FIN_ACK == -3

\* Mutant of Wrap: sequence numbers kept in a type wider than uint32_t.
WrapUnbounded(n) == n

\* Sequence arithmetic on uint32_t, and the conversion of the uint16_t
\* data_octets of handle_tcp to the int8_t parameter of handle_tcp_payload.
Wrap(n) == n % SeqSpace
Int8(n) == LET m == n % 256 IN IF m < 128 THEN m ELSE m - 256

\* main() clears the table with memset.
FreshEntry == [io |-> 0, peer |-> NoPeer, mac |-> NoMac,
               next_seq |-> 0, curr_seq |-> 0, status |-> NOT_CONNECTED]

-----------------------------------------------------------------------------
(* The slot of a segment.                                                  *)

\* connection_lookup returns i: the first slot with the peer's key, whatever
\* the slot's status.
Found(t, p, i) == /\ t[i].peer = p
                  /\ \A j \in Slots : j < i => t[j].peer # p

\* connection_lookup returns -1.
Unknown(t, p) == \A j \in Slots : t[j].peer # p

\* Mutant of FirstFree: a half-open slot counts as free.
FirstFreeHalfOpen(t, i) ==
    /\ t[i].status # ACTIVE
    /\ \A j \in Slots : j < i => t[j].status = ACTIVE

\* is_space returns i: the first slot that is not connected.
FirstFree(t, i) == /\ t[i].status = NOT_CONNECTED
                   /\ \A j \in Slots : j < i => t[j].status # NOT_CONNECTED

\* is_space returns -1.
Full(t) == \A j \in Slots : t[j].status # NOT_CONNECTED

\* Mutants of Selected: is_space asked before connection_lookup; the failed
\* search of connection_lookup taken for slot 0.
SelectedFreeFirst(t, p, i) == \/ FirstFree(t, i)
                              \/ Full(t) /\ Found(t, p, i)
SelectedZero(t, p, i) == \/ Found(t, p, i)
                         \/ Unknown(t, p) /\ i = 0

\* connection_idx in handle_tcp once both searches are done.
Selected(t, p, i) == \/ Found(t, p, i)
                     \/ Unknown(t, p) /\ FirstFree(t, i)

\* handle_tcp gives up: "Connection Limit Reached".
LimitReached(t, p) == Unknown(t, p) /\ Full(t)

-----------------------------------------------------------------------------
(* handle_tcp_payload: the slot's entry e and the segment s.               *)

\* Mutant of RecordSeq: the acknowledgement is not recorded.
RecordNextSeqOnly(e, s, octets) ==
    [e EXCEPT !.next_seq = Wrap(s.seq + octets)]

\* next_seq and curr_seq as the ACK, PSH/ACK and FIN/ACK cases record them:
\* the segment's own numbers, with no test against the previous ones.
RecordSeq(e, s, octets) ==
    [e EXCEPT !.next_seq = Wrap(s.seq + octets), !.curr_seq = s.ack]

\* Mutants of SynEntry: the sequence number of the SYN is not counted; the
\* connection is active before the handshake's ACK.
SynEntryUncounted(e, s) ==
    [e EXCEPT !.peer = s.peer, !.mac = s.mac, !.next_seq = s.seq, !.status = SYN_RCVD]
SynEntryActive(e, s) ==
    [e EXCEPT !.peer = s.peer, !.mac = s.mac,
              !.next_seq = Wrap(s.seq + 1), !.status = ACTIVE]

\* A SYN claims the slot; io and curr_seq keep what they had.
SynEntry(e, s) ==
    [e EXCEPT !.peer = s.peer, !.mac = s.mac,
              !.next_seq = Wrap(s.seq + 1), !.status = SYN_RCVD]

\* Mutant of AckEntry: no test for a closed slot.
AckEntryUnchecked(e, s) == [RecordSeq(e, s, Int8(s.len)) EXCEPT !.status = ACTIVE]

\* An ACK to a closed slot is digested; otherwise it ends the handshake.
AckEntry(e, s) ==
    IF e.status = NOT_CONNECTED
    THEN e
    ELSE [RecordSeq(e, s, Int8(s.len)) EXCEPT !.status = ACTIVE]

\* The slot after handle_tcp_payload(..., flag = 0).
PayloadEntry(e, s) ==
    CASE s.bits = SYN     -> SynEntry(e, s)
      [] s.bits = ACK     -> AckEntry(e, s)
      [] s.bits = PSH_ACK -> RecordSeq(e, s, Int8(s.len))
      [] s.bits = FIN_ACK -> RecordSeq(e, s, 1)
      [] OTHER            -> e

\* Mutants of PayloadStatus: no break after the SYN/ACK case, which falls into
\* the FIN/ACK case; a FIN/ACK to a closed slot is not answered.
PayloadStatusNoBreak(e, s) ==
    CASE s.bits = SYN                  -> TCP_REG
      [] s.bits = ACK                  -> IF e.status = ACTIVE /\ Int8(s.len) > 0
                                          THEN TCP_REG ELSE TCP_NONE
      [] s.bits = PSH_ACK              -> Int8(s.len)
      [] s.bits \in {SYN_ACK, FIN_ACK} -> IF e.status = NOT_CONNECTED
                                          THEN TCP_CLOSED ELSE TCP_FIN_ACK
      [] OTHER                         -> TCP_NONE
PayloadStatusClosedSilent(e, s) ==
    CASE s.bits = SYN     -> TCP_REG
      [] s.bits = ACK     -> IF e.status = ACTIVE /\ Int8(s.len) > 0
                             THEN TCP_REG ELSE TCP_NONE
      [] s.bits = PSH_ACK -> Int8(s.len)
      [] s.bits = FIN_ACK -> IF e.status = NOT_CONNECTED
                             THEN TCP_NONE ELSE TCP_FIN_ACK
      [] OTHER            -> TCP_NONE

\* The value handle_tcp_payload(..., flag = 0) returns.
PayloadStatus(e, s) ==
    CASE s.bits = SYN     -> TCP_REG
      [] s.bits = ACK     -> IF e.status = ACTIVE /\ Int8(s.len) > 0
                             THEN TCP_REG ELSE TCP_NONE
      [] s.bits = PSH_ACK -> Int8(s.len)
      [] s.bits = FIN_ACK -> IF e.status = NOT_CONNECTED
                             THEN TCP_CLOSED ELSE TCP_FIN_ACK
      [] OTHER            -> TCP_NONE

\* Mutant of PayloadOctets: a PSH/ACK's data is written on an active
\* connection only.
PayloadOctetsActive(e, s) ==
    IF s.bits \in {ACK, PSH_ACK} /\ e.status = ACTIVE /\ Int8(s.len) > 0
    THEN Int8(s.len) ELSE 0

\* The data octets handle_tcp_payload hands to write(STDOUT_FILENO, ...): a
\* negative int8_t becomes a size_t above SSIZE_MAX, which write refuses.
PayloadOctets(e, s) ==
    IF /\ \/ s.bits = PSH_ACK
          \/ s.bits = ACK /\ e.status = ACTIVE
       /\ Int8(s.len) > 0
    THEN Int8(s.len) ELSE 0

\* Mutant of PayloadReply: a PSH/ACK's octets are not acknowledged.
PayloadReplyUncounted(s, iss) ==
    [peer |-> s.peer, mac |-> s.mac,
     toPeerPort |-> s.bits # ACK,
     bits |-> IF s.bits = SYN THEN SYN_ACK ELSE ACK,
     seq  |-> IF s.bits = SYN THEN iss ELSE s.ack,
     ack  |-> Wrap(s.seq + (IF s.bits \in {SYN, FIN_ACK} THEN 1 ELSE 0)),
     len  |-> IF s.bits = PSH_ACK /\ Int8(s.len) > 0 THEN s.len - Int8(s.len)
                                                    ELSE s.len]

\* The header handle_tcp_payload(..., flag = 0) leaves in the frame: iss is
\* tcp_seq_generator's random number. Only an ACK with data is sent back with
\* its own ports and its data; a PSH/ACK loses the octets it was counted for.
PayloadReply(s, iss) ==
    [peer |-> s.peer, mac |-> s.mac,
     toPeerPort |-> s.bits # ACK,
     bits |-> IF s.bits = SYN THEN SYN_ACK ELSE ACK,
     seq  |-> IF s.bits = SYN THEN iss ELSE s.ack,
     ack  |-> Wrap(s.seq + (IF s.bits \in {SYN, FIN_ACK} THEN 1 ELSE Int8(s.len))),
     len  |-> IF s.bits = PSH_ACK /\ Int8(s.len) > 0 THEN s.len - Int8(s.len)
                                                    ELSE s.len]

\* handle_tcp(..., flag = 1): the slot is closed and the same header goes out
\* a second time as a FIN/ACK.
CloseEntry(e) == [e EXCEPT !.status = NOT_CONNECTED]

\* Mutant of SecondReply: the ACK's flags are left in the header.
SecondReplyAck(r) == r

\* The header of the second frame.
SecondReply(r) == [r EXCEPT !.bits = FIN_ACK]

-----------------------------------------------------------------------------
(* create_tcp_segment: a segment of the user's, from the slot's entry.     *)

\* octets is 0 for the FIN/ACK of a close and positive for chat data.
CreatedSegment(e, octets) ==
    [peer |-> e.peer, mac |-> e.mac, toPeerPort |-> TRUE,
     bits |-> IF octets = 0 THEN FIN_ACK ELSE PSH_ACK,
     seq  |-> e.curr_seq, ack |-> e.next_seq, len |-> octets]

\* A FIN takes one sequence number, data one for each octet.
CreatedEntry(e, octets) ==
    [e EXCEPT !.curr_seq = Wrap(e.curr_seq + (IF octets = 0 THEN 1 ELSE octets)),
              !.status = IF octets = 0 THEN NOT_CONNECTED ELSE @]
=============================================================================
