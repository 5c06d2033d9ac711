------------------------------- MODULE Stack -------------------------------
(***************************************************************************)
(* The stack program as a router with a TCP endpoint: what                 *)
(* interface_receiver does with a frame (src/stack.c, ethernet.c, arp.c,   *)
(* ip.c, icmp.c, ip-encapsulation.c), on top of the connection table of    *)
(* TcpTable. One action is one call of interface_receiver or               *)
(* interaction_handler, made by the poll loop.                             *)
(*                                                                         *)
(* An IP address is a sequence of octets and a genmask is the length of    *)
(* the prefix it keeps. Checksums are left out: the code computes them but *)
(* drops no frame for a wrong one. Peers are pairs <<address, port>>.      *)
(***************************************************************************)
EXTENDS TcpTable, SequencesExt

CONSTANTS
    NUMBER_INTERFACES,
    IfMac, IfIp,        \* mac_addr and ip_addr of each interface
    Routes,             \* routing_table: sequence of [prefix, gateway, interface_id]
    ArpCache,           \* arp_cache: sequence of [ip, mac]
    NoGateway,          \* the all-zero gateway of a directly joined network
    Broadcast,          \* ff:ff:ff:ff:ff:ff
    HOST_TCP_PORT,
    Frames              \* frames that may arrive

Interfaces == 0 .. (NUMBER_INTERFACES - 1)

ASSUME InterfacesAssumption ==
    /\ NUMBER_INTERFACES \in Nat \ {0}
    /\ \A n \in DOMAIN Routes : Routes[n].interface_id \in Interfaces
    /\ \A m, n \in Interfaces : m # n => IfMac[m] # IfMac[n] /\ IfIp[m] # IfIp[n]
    /\ \A n \in Interfaces : IfMac[n] # Broadcast

ASSUME TablesAssumption ==
    /\ Routes \in Seq(ToSet(Routes)) /\ ArpCache \in Seq(ToSet(ArpCache))
    /\ \A n \in DOMAIN Routes : Len(Routes[n].prefix) \in Nat
    /\ \A n \in DOMAIN ArpCache :
          ArpCache[n] = [ip |-> ArpCache[n].ip, mac |-> ArpCache[n].mac]

TCP_IP  == IfIp[0]
TCP_MAC == IfMac[0]
DEFAULT_TCP_INTERFACE == 0

VARIABLES
    wire,       \* frames the last handler sent, each with its interface
    rx          \* history: the frame the last handler read

stackVars == <<vars, wire, rx>>

On(n, f) == [iface |-> n, frame |-> f]
NoFrame == [type |-> "none"]

StackInit == Init /\ wire = <<>> /\ rx = NoFrame

Silent == wire' = <<>>
TableUntouched == UNCHANGED table /\ sent' = <<>> /\ printed' = <<>> /\ cause' = NoSegment

-----------------------------------------------------------------------------
(* Frames as the handlers see them.                                        *)

\* handle_frame: at least 46 octets between the header and the FCS.
ValidLength(f) == f.len - 18 >= 46

\* eth_cmp: the interface with the frame's destination address becomes the
\* receiver, whichever interface the frame was read from.
Receiver(f, n) == n \in Interfaces /\ IfMac[n] = f.dst

\* is_interface
IsInterface(ip) == \E n \in Interfaces : IfIp[n] = ip

\* An IP packet that handle_packet does not drop at once.
IpPacket(f, n) ==
    /\ ValidLength(f) /\ f.type = "ip"
    /\ Receiver(f, n)
    /\ f.tlen > 20 /\ f.ttl >= 1

\* The segment handle_tcp decodes: the data runs to the end of the frame.
SegmentOf(f) ==
    [peer |-> <<f.sip, f.sport>>, mac |-> f.src, bits |-> f.bits, seq |-> f.seq,
     ack |-> f.ack, len |-> (f.len - 34 - f.hlen) % 65536]

ForTcpEndpoint(f) == f.proto = 6 /\ f.dip = TCP_IP /\ f.dport = HOST_TCP_PORT

\* The fields the handlers read and write, by protocol.
ArpFields == {"dst", "src", "type", "len", "op", "sha", "spa", "tha", "tpa"}
IpFields  == {"dst", "src", "type", "len", "sip", "dip", "ttl", "proto", "tlen"}
TcpFields == IpFields \cup {"sport", "dport", "bits", "seq", "ack", "hlen"}

\* The largest Ethernet frame, with its FCS, and the values of an octet.
MaxFrame == 1518
UInt8 == {n \in Nat : n < 256}

ASSUME FramesAssumption == \A f \in Frames :
    /\ f.len \in Nat /\ f.len <= MaxFrame
    /\ f.type = "arp" => DOMAIN f = ArpFields
    /\ f.type = "ip" =>
          /\ DOMAIN f = IF f.proto = 6 THEN TcpFields ELSE IpFields
          /\ f.ttl \in UInt8 /\ f.tlen \in UInt16
          /\ f.proto = 6 => SegmentOf(f) \in Segment

-----------------------------------------------------------------------------
(* Ethernet and ARP.                                                       *)

\* Short frames, frames for others, broadcasts that are not ARP, and packets
\* without payload or with their TTL used up.
ReceiveIgnored(f) ==
    /\ \/ ~ValidLength(f)
       \/ f.dst # Broadcast /\ ~(\E n \in Interfaces : Receiver(f, n))
       \/ f.dst = Broadcast /\ f.type # "arp"
       \/ f.dst # Broadcast /\ f.type # "ip"
       \/ f.type = "ip" /\ (f.tlen <= 20 \/ f.ttl < 1)
    /\ Silent /\ TableUntouched

\* Mutant of ArpReply: target_ip is filled in after sender_ip was overwritten.
ArpReplyOverwritten(f, n) ==
    [f EXCEPT !.dst = f.src, !.src = IfMac[n], !.op = 2,
              !.tha = f.src, !.tpa = IfIp[n], !.spa = IfIp[n], !.sha = IfMac[n]]

\* handle_arp: a request for an interface's address is answered in place, on
\* that interface; replies are dropped, and nothing is learned from either.
ArpReply(f, n) ==
    [f EXCEPT !.dst = f.src, !.src = IfMac[n], !.op = 2,
              !.tha = f.src, !.tpa = f.spa, !.spa = IfIp[n], !.sha = IfMac[n]]

ReceiveArp(f) ==
    /\ ValidLength(f) /\ f.dst = Broadcast /\ f.type = "arp"
    /\ \/ /\ f.op # 1 \/ ~IsInterface(f.tpa)
          /\ Silent
       \/ \E n \in Interfaces :
            /\ f.op = 1 /\ IfIp[n] = f.tpa
            /\ wire' = <<On(n, ArpReply(f, n))>>
    /\ TableUntouched

-----------------------------------------------------------------------------
(* IP: routing, forwarding and errors.                                     *)

\* Mutant of RouteIndex: the first matching route is taken.
RouteIndexFirst(ip) ==
    LET best[n \in 0 .. Len(Routes)] ==
            IF n = 0 THEN 0
            ELSE LET b == best[n - 1] IN
                 IF IsPrefix(Routes[n].prefix, ip) /\ b = 0 THEN n ELSE b
    IN  best[Len(Routes)]

\* Entry n of the routing table replaces the best so far, b, or is the first.
BetterRoute(ip, n, b) ==
    /\ IsPrefix(Routes[n].prefix, ip)
    /\ b = 0 \/ Len(Routes[n].prefix) > Len(Routes[b].prefix)

\* The loop over the routing table; 0 is no route.
RouteIndex(ip) ==
    LET best[n \in 0 .. Len(Routes)] ==
            IF n = 0 THEN 0
            ELSE LET b == best[n - 1] IN IF BetterRoute(ip, n, b) THEN n ELSE b
    IN  best[Len(Routes)]

NextHop(n, ip) == IF Routes[n].gateway = NoGateway THEN ip ELSE Routes[n].gateway

\* The loop over the ARP cache has no break: the last match stays.
ArpIndex(ip) ==
    LET last[n \in 0 .. Len(ArpCache)] ==
            IF n = 0 THEN 0
            ELSE LET b == last[n - 1] IN IF ArpCache[n].ip = ip THEN n ELSE b
    IN  last[Len(ArpCache)]

\* Mutant of ErrorOf: no test for a TTL that is about to expire.
ErrorOfRoutingOnly(f) ==
    IF RouteIndex(f.dip) = 0 THEN <<3, 0>>
    ELSE IF ArpIndex(NextHop(RouteIndex(f.dip), f.dip)) = 0 THEN <<3, 1>>
    ELSE <<>>

\* The ICMP type and code of a packet that cannot go on, or <<>>.
ErrorOf(f) ==
    IF f.ttl = 1 THEN <<11, 0>>
    ELSE IF RouteIndex(f.dip) = 0 THEN <<3, 0>>
    ELSE IF ArpIndex(NextHop(RouteIndex(f.dip), f.dip)) = 0 THEN <<3, 1>>
    ELSE <<>>

\* Mutant of IcmpError: the header is quoted after its addresses were updated.
IcmpErrorQuotedLate(f, n, code) ==
    [dst |-> f.src, src |-> IfMac[n], type |-> "ip", len |-> 74,
     sip |-> IfIp[n], dip |-> f.sip, ttl |-> 64, proto |-> 1, tlen |-> 56,
     icmp |-> code, quoted |-> <<IfIp[n], f.sip>>]

\* handle_icmp: the header of the packet in f, as it is by now, is quoted and
\* the error goes to its source; encapsulation has turned the frame around.
IcmpError(f, n, code) ==
    [dst |-> f.src, src |-> IfMac[n], type |-> "ip", len |-> 74,
     sip |-> IfIp[n], dip |-> f.sip, ttl |-> 64, proto |-> 1, tlen |-> 56,
     icmp |-> code, quoted |-> <<f.sip, f.dip>>]

ReceiveDigested(f, n) ==
    /\ IpPacket(f, n) /\ f.proto # 6 /\ IsInterface(f.dip)
    /\ Silent /\ TableUntouched

ReceiveForward(f, n) ==
    /\ IpPacket(f, n) /\ f.proto # 6 /\ ~IsInterface(f.dip)
    /\ ErrorOf(f) = <<>>
    /\ LET r == RouteIndex(f.dip)
           out == Routes[r].interface_id
       IN  wire' = <<On(out, [f EXCEPT !.ttl = @ - 1, !.src = IfMac[out],
                                       !.dst = ArpCache[ArpIndex(NextHop(r, f.dip))].mac])>>
    /\ TableUntouched

\* The error leaves on the interface whose address the frame carried.
ReceiveError(f, n) ==
    /\ IpPacket(f, n) /\ f.proto # 6 /\ ~IsInterface(f.dip)
    /\ ErrorOf(f) # <<>>
    /\ wire' = <<On(n, IcmpError(f, n, ErrorOf(f)))>>
    /\ TableUntouched

-----------------------------------------------------------------------------
(* TCP.                                                                    *)

\* TCP for any other address or port: it is routed, then dropped unsent.
ReceiveTcpElsewhere(f, n) ==
    /\ IpPacket(f, n) /\ f.proto = 6 /\ ~ForTcpEndpoint(f)
    /\ Silent /\ TableUntouched

\* Mutants of TcpFrame: the frame is not shortened by the octets of a PSH/ACK;
\* dest_port is copied from src_port after src_port was overwritten.
TcpFrameUncut(f, n, r) ==
    LET s == SegmentOf(f)
        octets == IF s.bits = PSH_ACK THEN Int8(s.len) ELSE 0
    IN  [f EXCEPT !.dst = f.src, !.src = IfMac[n],
                  !.sip = TCP_IP, !.dip = f.sip, !.ttl = 64,
                  !.tlen = @ - octets, !.len = @ + 4,
                  !.sport = IF r.toPeerPort THEN HOST_TCP_PORT ELSE @,
                  !.dport = IF r.toPeerPort THEN f.sport ELSE @,
                  !.bits = r.bits, !.seq = r.seq, !.ack = r.ack]
TcpFramePortLost(f, n, r) ==
    LET s == SegmentOf(f)
        octets == IF s.bits = PSH_ACK THEN Int8(s.len) ELSE 0
    IN  [f EXCEPT !.dst = f.src, !.src = IfMac[n],
                  !.sip = TCP_IP, !.dip = f.sip, !.ttl = 64,
                  !.tlen = @ - octets,
                  !.len = @ - (IF octets > 0 THEN octets ELSE 0) + 4,
                  !.sport = IF r.toPeerPort THEN HOST_TCP_PORT ELSE @,
                  !.dport = IF r.toPeerPort THEN HOST_TCP_PORT ELSE @,
                  !.bits = r.bits, !.seq = r.seq, !.ack = r.ack]

\* The received frame turned around with the header of segment r. A PSH/ACK's
\* octets leave total_length; they leave the frame's length only when handle_tcp
\* returns them as a positive status. encapsulation then adds 4 for the FCS.
TcpFrame(f, n, r) ==
    LET s == SegmentOf(f)
        octets == IF s.bits = PSH_ACK THEN Int8(s.len) ELSE 0
    IN  [f EXCEPT !.dst = f.src, !.src = IfMac[n],
                  !.sip = TCP_IP, !.dip = f.sip, !.ttl = 64,
                  !.tlen = @ - octets,
                  !.len = @ - (IF octets > 0 THEN octets ELSE 0) + 4,
                  !.sport = IF r.toPeerPort THEN HOST_TCP_PORT ELSE @,
                  !.dport = IF r.toPeerPort THEN f.sport ELSE @,
                  !.bits = r.bits, !.seq = r.seq, !.ack = r.ack]

ReceiveTcp(f, n) ==
    /\ IpPacket(f, n) /\ ForTcpEndpoint(f) /\ f.ttl > 1
    /\ Receive(SegmentOf(f))
    /\ wire' = [k \in DOMAIN sent' |-> On(n, TcpFrame(f, n, sent'[k]))]

\* A segment whose TTL is 1 is served all the same, but encapsulation then
\* overwrites the reply with an ICMP error. handle_tcp has made TCP_IP the
\* packet's source by then, so the error is addressed to the stack itself. For a
\* FIN/ACK the second handle_tcp reads the ICMP header as ports and closes
\* nothing, and the second frame is turned around once more.
ReceiveTcpExpired(f, n) ==
    /\ IpPacket(f, n) /\ ForTcpEndpoint(f) /\ f.ttl = 1
    /\ LET s == SegmentOf(f)
           turned == [f EXCEPT !.sip = TCP_IP, !.dip = f.sip]
           first == IcmpError(turned, n, <<11, 0>>)
           second == IcmpError(first, n, <<11, 0>>)
       IN
       /\ \/ LimitReached(table, s.peer) /\ printed' = <<>> /\ UNCHANGED table /\ Silent
          \/ \E i \in Slots :
               /\ Selected(table, s.peer, i)
               /\ table' = [table EXCEPT ![i] = PayloadEntry(@, s)]
               /\ Output(table[i], s)
               /\ LET status == PayloadStatus(table[i], s) IN
                  wire' = IF status = TCP_FIN_ACK THEN <<On(n, first), On(n, second)>>
                          ELSE IF status >= TCP_REG \/ status = TCP_CLOSED
                          THEN <<On(n, first)>> ELSE <<>>
       /\ sent' = <<>>
       /\ cause' = [peer |-> s.peer, bits |-> s.bits]

\* create_tcp_segment's frame for the user's segment r.
UserFrame(r) ==
    [dst |-> r.mac, src |-> TCP_MAC, type |-> "ip", len |-> 58 + r.len,
     sip |-> TCP_IP, dip |-> r.peer[1], ttl |-> 64, proto |-> 6, tlen |-> 40 + r.len,
     sport |-> HOST_TCP_PORT, dport |-> r.peer[2], bits |-> r.bits,
     seq |-> r.seq, ack |-> r.ack, hlen |-> 20]

ReceivePacket(f, n) ==
    \/ ReceiveDigested(f, n)
    \/ ReceiveForward(f, n)
    \/ ReceiveError(f, n)
    \/ ReceiveTcpElsewhere(f, n)
    \/ ReceiveTcp(f, n)
    \/ ReceiveTcpExpired(f, n)

\* interface_receiver: the interface a frame is read from plays no part in what
\* becomes of it, the receiver n is found by the frame's address.
InterfaceReceiver ==
    \E f \in Frames :
        /\ \/ ReceiveIgnored(f)
           \/ ReceiveArp(f)
           \/ \E n \in Interfaces : ReceivePacket(f, n)
        /\ rx' = f

InteractionHandler ==
    /\ \E l \in Lines : UserLine(l)
    /\ wire' = [k \in DOMAIN sent' |-> On(DEFAULT_TCP_INTERFACE, UserFrame(sent'[k]))]
    /\ rx' = NoFrame

StackNext == InterfaceReceiver \/ InteractionHandler

StackSpec == StackInit /\ [][StackNext]_stackVars

-----------------------------------------------------------------------------
(* Properties.                                                             *)

IsIcmp(f) == f.type = "ip" /\ f.proto # 6 /\ "icmp" \in DOMAIN f

\* A packet the router has to pass on: addressed to one of its interfaces as a
\* frame and to some other host as a packet.
InTransit(f) ==
    /\ f.type = "ip"
    /\ \E n \in Interfaces : IpPacket(f, n)
    /\ f.proto # 6 /\ ~IsInterface(f.dip)

\* Every frame that is sent has a type, a length between an Ethernet header and
\* the frame buffer, an interface, and a TTL of 1 to 255 if it is a packet.
StackTypeOK ==
    \A k \in DOMAIN wire :
        LET f == wire[k].frame IN
        /\ wire[k].iface \in Interfaces
        /\ f.type \in {"ip", "arp"}
        /\ f.len \in Nat /\ f.len >= 14 /\ f.len <= 1600
        /\ f.type = "ip" => f.ttl \in UInt8 \ {0} /\ f.tlen \in UInt16 /\ f.tlen >= 20

\* Longest-prefix routing, stated without the loop: a packet that leaves is the
\* one that came, one hop older, on the interface of a matching route no other
\* matching route is longer than, to the address of the next hop.
ForwardedByRoute ==
    InTransit(rx) => \A k \in DOMAIN wire : ~IsIcmp(wire[k].frame) =>
        LET out == wire[k].frame
            matching == {r \in DOMAIN Routes : IsPrefix(Routes[r].prefix, rx.dip)}
        IN  /\ out.sip = rx.sip /\ out.dip = rx.dip /\ out.tlen = rx.tlen
            /\ out.ttl = rx.ttl - 1
            /\ \E r \in matching :
                  /\ \A q \in matching : Len(Routes[q].prefix) <= Len(Routes[r].prefix)
                  /\ wire[k].iface = Routes[r].interface_id
                  /\ out.src = IfMac[wire[k].iface]
                  /\ [ip |-> NextHop(r, rx.dip), mac |-> out.dst] \in ToSet(ArpCache)

\* A packet in transit is never lost without a word: one frame leaves for it,
\* the packet itself or an ICMP error to its source that quotes it. No other
\* packet but TCP makes the router send anything.
ForwardedOrReported ==
    /\ InTransit(rx) =>
          /\ Len(wire) = 1
          /\ LET out == wire[1].frame IN
             IsIcmp(out) => /\ out.dst = rx.src /\ out.dip = rx.sip
                            /\ out.quoted = <<rx.sip, rx.dip>>
                            /\ out.icmp[1] = 11 <=> rx.ttl = 1
    /\ rx.type = "ip" /\ rx.proto # 6 /\ ~InTransit(rx) => wire = <<>>

\* Octets of a frame that are neither its header, its packet nor its FCS.
Padding(f) == f.len - (14 + f.tlen + 4)

\* The frame's length and the packet's total_length are kept by different
\* statements of four files: a packet goes out as header, packet and FCS, with
\* nothing between them and nothing cut off, and a forwarded one as it came.
WellFormedLength ==
    \A k \in DOMAIN wire :
        LET out == wire[k].frame IN
        out.type = "ip" =>
            Padding(out) = IF InTransit(rx) /\ ~IsIcmp(out) THEN Padding(rx) ELSE 0

\* An ARP reply gives the asked address and its owner's hardware address, to
\* the host that asked, although the reply overwrites the request in place.
ArpReplyNamesOwner ==
    \A k \in DOMAIN wire : wire[k].frame.type = "arp" =>
        LET out == wire[k].frame IN
        /\ out.op = 2
        /\ out.spa = rx.tpa /\ out.tpa = rx.spa
        /\ out.dst = rx.src /\ out.tha = rx.src
        /\ \E n \in Interfaces : out.spa = IfIp[n] /\ out.sha = IfMac[n] /\ out.src = IfMac[n]

\* The answer to a TCP segment goes to the station, address and port it came
\* from, and on the interface it was addressed to.
TcpAnswersSender ==
    rx.type = "ip" => \A k \in DOMAIN wire :
        LET out == wire[k].frame IN
        out.proto = 6 =>
            /\ out.dst = rx.src /\ out.src = rx.dst
            /\ out.sip = rx.dip /\ out.dip = rx.sip
            /\ out.sport = rx.dport /\ out.dport = rx.sport
            /\ IfMac[wire[k].iface] = rx.dst

\* What the last three properties need of the segments that arrive. Segments come
\* without an FCS, with their header inside the frame; the length of a PSH/ACK is
\* not read as a status; an ACK alone carries no data (one that does goes back to
\* the stack's own port).
SegmentsFramed ==
    \A f \in Frames : f.type = "ip" /\ ForTcpEndpoint(f) =>
        /\ f.len = 14 + f.tlen
        /\ f.hlen \in Nat /\ f.hlen >= 20 /\ f.len >= 34 + f.hlen
NoLengthIsStatus ==
    \A f \in Frames : f.type = "ip" /\ ForTcpEndpoint(f) /\ f.bits = PSH_ACK =>
        Int8(SegmentOf(f).len) \notin {TCP_CLOSED, TCP_FIN_ACK}
AcksCarryNothing ==
    \A f \in Frames : f.type = "ip" /\ ForTcpEndpoint(f) /\ f.bits = ACK =>
        Int8(SegmentOf(f).len) <= 0

\* A packet reported as dropped ("dropping packet from ... (TTL exceeded)") was
\* dropped: it changed no connection.
DroppedLeavesTable ==
    [][(\E k \in DOMAIN wire' : IsIcmp(wire'[k].frame)) => table' = table]_stackVars
=============================================================================
