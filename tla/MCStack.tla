------------------------------ MODULE MCStack ------------------------------
(***************************************************************************)
(* The configuration of main() for TLC, with two octets to an address, and *)
(* a fourth route inside the third's network so that prefixes compete. The *)
(* cache's last entry is the one main() does not fill.                     *)
(***************************************************************************)
EXTENDS Stack

MCIfMac == <<"if1", "if2">> @@ (0 :> "if0")
MCIfIp  == <<<<5, 3>>, <<4, 1>>>> @@ (0 :> <<9, 5>>)
MCRoutes == <<[prefix |-> <<2>>, gateway |-> <<0, 0>>, interface_id |-> 0],
              [prefix |-> <<3>>, gateway |-> <<0, 0>>, interface_id |-> 1],
              [prefix |-> <<4>>, gateway |-> <<3, 2>>, interface_id |-> 2],
              [prefix |-> <<4, 7>>, gateway |-> <<0, 0>>, interface_id |-> 2]>>
MCArpCache == <<[ip |-> <<2, 3>>, mac |-> "host1"], [ip |-> <<3, 2>>, mac |-> "host2"],
                [ip |-> <<0, 0>>, mac |-> "zero"]>>
MCNoGateway == <<0, 0>>

Client == <<2, 3>>
MCPeers == {<<Client, 7>>, <<Client, 8>>, <<<<0, 0>>, 0>>}
MCNoPeer == <<<<0, 0>>, 0>>

ASSUME SegmentsAssumption == SegmentsFramed /\ NoLengthIsStatus /\ AcksCarryNothing

\* A datagram of another protocol with the FCS its frame carries.
Datagram(dst, dip, ttl, len, tlen) ==
    [dst |-> dst, src |-> "host1", type |-> "ip", len |-> len, sip |-> Client,
     dip |-> dip, ttl |-> ttl, proto |-> 17, tlen |-> tlen]

\* For the router, each route, an address without ARP entry and one without a
\* route; a short frame, a packet without payload, a padded one, a frame for
\* another station and a broadcast.
Datagrams ==
    {Datagram("if1", dip, ttl, 100, 82) :
        ttl \in {0, 1, 2},
        dip \in {<<9, 5>>, <<2, 3>>, <<3, 2>>, <<3, 9>>, <<4, 7>>, <<4, 8>>, <<8, 8>>}}
    \cup {Datagram("if1", <<3, 2>>, 2, 63, 45), Datagram("if1", <<3, 2>>, 2, 100, 20),
          Datagram("if1", <<3, 2>>, 2, 64, 30), Datagram("other", <<3, 2>>, 2, 100, 82),
          Datagram("ff", <<3, 2>>, 2, 100, 82)}

\* ARP requests and replies, broadcast and not, for an interface or another.
ArpFrames ==
    {[dst |-> d, src |-> "host1", type |-> "arp", len |-> 64, op |-> op, sha |-> "host1",
      spa |-> Client, tha |-> "zero", tpa |-> tpa] :
        d \in {"ff", "if0"}, op \in {1, 2}, tpa \in {<<9, 5>>, <<4, 1>>, <<2, 9>>}}

\* A segment with netcat's 12 octets of options and no FCS.
SegmentFrame(dst, dip, ttl, sport, dport, bits) ==
    LET octets == IF bits = PSH_ACK THEN 1 ELSE 0 IN
    [dst |-> dst, src |-> "host1", type |-> "ip", len |-> 66 + octets, sip |-> Client,
     dip |-> dip, ttl |-> ttl, proto |-> 6, tlen |-> 52 + octets, sport |-> sport,
     dport |-> dport, bits |-> bits, seq |-> 1, ack |-> 1, hlen |-> 32]

\* Segments of two connections, in time and expired, on two interfaces, and two
\* for another port and another address.
Segments ==
    {SegmentFrame("if0", <<9, 5>>, ttl, sport, 1234, bits) :
        ttl \in {1, 64}, sport \in {7, 8}, bits \in {SYN, ACK, PSH_ACK, FIN_ACK, SYN_ACK}}
    \cup {SegmentFrame("if1", <<9, 5>>, 64, 7, 1234, bits) : bits \in {SYN, PSH_ACK}}
    \cup {SegmentFrame("if0", <<9, 5>>, 64, 7, 80, SYN),
          SegmentFrame("if0", <<4, 1>>, 64, 7, 1234, SYN)}

MCFrames == Datagrams \cup ArpFrames \cup Segments
MCInputs == {SegmentOf(f) : f \in Segments}

MCLines == {[len |-> 2, nl |-> TRUE, q |-> FALSE, last |-> c, id |-> i] :
              c \in {"c", "q"}, i \in Slots}
=============================================================================
