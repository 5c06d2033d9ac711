---------------------------- MODULE StackProofs ----------------------------
(***************************************************************************)
(* Proofs about Stack, for every configuration of interfaces, routes and   *)
(* ARP entries and every set of frames.                                    *)
(***************************************************************************)
EXTENDS Stack, TcpTableProofs

-----------------------------------------------------------------------------
(* Loops over a table that remember an index.                              *)

\* Induction over the natural numbers: a set of them that is not empty has a
\* least element.
LEMMA LeastNat ==
  ASSUME NEW T \in SUBSET Nat, T # {}
  PROVE  \E m \in T : \A k \in T : m <= k
  <1> DEFINE R == OpToRel(<, Nat)
  <1>1. IsWellFoundedOn(R, Nat)
    BY NatLessThanWellFounded
  <1>2. \E x \in T : \A y \in T : <<y, x>> \notin R
    BY <1>1, WFMin
  <1>3. \A x, y \in Nat : <<y, x>> \notin R => x <= y
    BY DEF OpToRel
  <1>4. QED
    BY <1>2, <1>3

\* g[n] is the index a loop remembers after n turns: n replaces b in turn n if
\* <<n, b>> is in Takes.
Remembers(g, L, Takes) ==
    /\ g \in [0 .. L -> 0 .. L]
    /\ g[0] = 0
    /\ \A n \in 1 .. L : g[n] = IF <<n, g[n - 1]>> \in Takes THEN n ELSE g[n - 1]

\* There is such a function, for every number of turns: the recursive definition
\* has a solution.
LEMMA LoopExists ==
  ASSUME NEW L \in Nat, NEW Takes
  PROVE  \E g : Remembers(g, L, Takes)
  <1> DEFINE Bad == {m \in Nat : ~ \E g : Remembers(g, m, Takes)}
  <1>1. SUFFICES ASSUME Bad # {} PROVE FALSE
    OBVIOUS
  <1>2. PICK m \in Bad : \A k \in Bad : m <= k
    BY <1>1, LeastNat
  <1>3. Remembers([n \in 0 .. 0 |-> 0], 0, Takes)
    BY DEF Remembers
  <1>4. m \in Nat \ {0}
    BY <1>2, <1>3
  <1>5. PICK g : Remembers(g, m - 1, Takes)
    BY <1>2, <1>4
  <1> DEFINE last == IF <<m, g[m - 1]>> \in Takes THEN m ELSE g[m - 1]
             h == [n \in 0 .. m |-> IF n = m THEN last ELSE g[n]]
  <1>6. g[m - 1] \in 0 .. m /\ last \in 0 .. m
    BY <1>4, <1>5 DEF Remembers
  <1>7. h \in [0 .. m -> 0 .. m] /\ h[0] = 0
    BY <1>4, <1>5, <1>6 DEF Remembers
  <1>8. ASSUME NEW n \in 1 .. m
        PROVE  h[n] = IF <<n, h[n - 1]>> \in Takes THEN n ELSE h[n - 1]
    <2>1. h[n - 1] = g[n - 1]
      BY <1>4
    <2>2. CASE n = m
      <3>1. h[n] = last
        BY <1>4, <2>2
      <3>2. QED
        BY <2>1, <2>2, <3>1
    <2>3. CASE n # m
      <3>1. n \in 1 .. (m - 1) /\ h[n] = g[n]
        BY <1>4, <2>3
      <3>2. QED
        BY <1>5, <2>1, <3>1 DEF Remembers
    <2>4. QED
      BY <2>2, <2>3
  <1>9. Remembers(h, m, Takes)
    BY <1>7, <1>8 DEF Remembers
  <1>10. QED
    BY <1>2, <1>9

\* What it remembers is an index of the table, or 0.
LEMMA LoopRange ==
  ASSUME NEW L \in Nat, NEW g, g = [n \in 0 .. L |-> g[n]], g[0] = 0,
         \A n \in 1 .. L : g[n] \in {n, g[n - 1]}
  PROVE  g \in [0 .. L -> 0 .. L]
  <1> DEFINE Bad == {n \in 0 .. L : g[n] \notin 0 .. L}
  <1>1. SUFFICES ASSUME Bad # {} PROVE FALSE
    OBVIOUS
  <1>2. PICK m \in Bad : \A k \in Bad : m <= k
    <2>1. Bad \in SUBSET Nat
      OBVIOUS
    <2>2. QED
      BY <1>1, <2>1, LeastNat
  <1>3. m \in 1 .. L /\ m - 1 \in 0 .. L /\ m - 1 \notin Bad
    BY <1>2
  <1>4. QED
    BY <1>2, <1>3

-----------------------------------------------------------------------------
(* The routing table and the ARP cache.                                    *)

RouteTaken(ip) == {x \in Nat \X Nat : BetterRoute(ip, x[1], x[2])}

\* The loop of RouteIndex.
LEMMA RouteLoop ==
  ASSUME NEW ip
  PROVE  \E g : /\ Remembers(g, Len(Routes), RouteTaken(ip))
                /\ RouteIndex(ip) = g[Len(Routes)]
  <1> DEFINE L == Len(Routes)
             best == CHOOSE f : f = [n \in 0 .. L |->
                         IF n = 0 THEN 0
                         ELSE LET b == f[n - 1] IN IF BetterRoute(ip, n, b) THEN n ELSE b]
  <1>1. L \in Nat
    BY TablesAssumption
  <1>2. RouteIndex(ip) = best[L]
    BY DEF RouteIndex
  <1>3. PICK g : Remembers(g, L, RouteTaken(ip))
    BY <1>1, LoopExists
  <1>4. \A n \in 1 .. L, b \in 0 .. L : <<n, b>> \in RouteTaken(ip) <=> BetterRoute(ip, n, b)
    BY <1>1 DEF RouteTaken
  <1>5. g = [n \in 0 .. L |->
                IF n = 0 THEN 0
                ELSE LET b == g[n - 1] IN IF BetterRoute(ip, n, b) THEN n ELSE b]
    <2>1. ASSUME NEW n \in 1 .. L
          PROVE  g[n] = IF BetterRoute(ip, n, g[n - 1]) THEN n ELSE g[n - 1]
      <3>1. g[n - 1] \in 0 .. L
        BY <1>1, <1>3 DEF Remembers
      <3>2. QED
        BY <1>3, <1>4, <3>1 DEF Remembers
    <2>2. QED
      BY <1>1, <1>3, <2>1 DEF Remembers
  <1> HIDE DEF L
  <1>6. best = [n \in 0 .. L |->
                IF n = 0 THEN 0
                ELSE LET b == best[n - 1] IN IF BetterRoute(ip, n, b) THEN n ELSE b]
    BY <1>5
  <1> HIDE DEF best
  <1>7. /\ best = [n \in 0 .. L |-> best[n]]
        /\ best[0] = 0
        /\ best \in [0 .. L -> 0 .. L]
    <2>1. best = [n \in 0 .. L |-> best[n]]
      BY <1>6
    <2>2. best[0] = 0
      BY <1>1, <1>6
    <2>3. \A n \in 1 .. L : best[n] \in {n, best[n - 1]}
      BY <1>1, <1>6
    <2>4. QED
      BY <1>1, <2>1, <2>2, <2>3, LoopRange
  <1>8. ASSUME NEW n \in 1 .. L
        PROVE  best[n] = IF <<n, best[n - 1]>> \in RouteTaken(ip) THEN n ELSE best[n - 1]
    <2>1. best[n - 1] \in 0 .. L
      BY <1>1, <1>7
    <2>2. best[n] = IF BetterRoute(ip, n, best[n - 1]) THEN n ELSE best[n - 1]
      BY <1>1, <1>6
    <2>3. QED
      BY <1>4, <2>1, <2>2
  <1>9. Remembers(best, L, RouteTaken(ip))
    BY <1>7, <1>8 DEF Remembers
  <1>10. QED
    BY <1>2, <1>9 DEF L

\* The loop's invariant: the longest of the matching routes seen so far.
LEMMA LongestSoFar ==
  ASSUME NEW ip, NEW g, Remembers(g, Len(Routes), RouteTaken(ip)), NEW m \in 0 .. Len(Routes)
  PROVE  /\ g[m] = 0 => \A n \in 1 .. m : ~IsPrefix(Routes[n].prefix, ip)
         /\ g[m] # 0 => /\ g[m] \in 1 .. m
                        /\ IsPrefix(Routes[g[m]].prefix, ip)
                        /\ \A n \in 1 .. m : IsPrefix(Routes[n].prefix, ip)
                              => Len(Routes[n].prefix) <= Len(Routes[g[m]].prefix)
  <1> DEFINE L == Len(Routes)
             Matches(n) == IsPrefix(Routes[n].prefix, ip)
             Length(n) == Len(Routes[n].prefix)
             Best(k) == /\ g[k] = 0 => \A n \in 1 .. k : ~Matches(n)
                        /\ g[k] # 0 => /\ g[k] \in 1 .. k
                                       /\ Matches(g[k])
                                       /\ \A n \in 1 .. k : Matches(n) => Length(n) <= Length(g[k])
             Bad == {k \in 0 .. L : ~Best(k)}
  <1>1. L \in Nat /\ DOMAIN Routes = 1 .. L
    BY TablesAssumption
  <1>2. \A n \in 1 .. L : Length(n) \in Nat
    BY <1>1, TablesAssumption
  <1>3. g[0] = 0 /\ \A n \in 1 .. L : g[n - 1] \in 0 .. L
    BY <1>1 DEF Remembers
  <1>4. \A n \in 1 .. L : \/ /\ g[n] = n /\ Matches(n)
                             /\ g[n - 1] = 0 \/ Length(n) > Length(g[n - 1])
                          \/ /\ g[n] = g[n - 1]
                             /\ ~(Matches(n) /\ (g[n - 1] = 0 \/ Length(n) > Length(g[n - 1])))
    <2> SUFFICES ASSUME NEW n \in 1 .. L
                 PROVE  \/ /\ g[n] = n /\ Matches(n)
                           /\ g[n - 1] = 0 \/ Length(n) > Length(g[n - 1])
                        \/ /\ g[n] = g[n - 1]
                           /\ ~(Matches(n) /\ (g[n - 1] = 0 \/ Length(n) > Length(g[n - 1])))
      OBVIOUS
    <2>1. <<n, g[n - 1]>> \in RouteTaken(ip) <=> BetterRoute(ip, n, g[n - 1])
      BY <1>1, <1>3 DEF RouteTaken
    <2>2. g[n] = IF BetterRoute(ip, n, g[n - 1]) THEN n ELSE g[n - 1]
      BY <2>1 DEF Remembers
    <2>3. QED
      BY <2>2 DEF BetterRoute
  <1> HIDE DEF L, Matches, Length
  <1>5. SUFFICES ASSUME Bad # {} PROVE FALSE
    <2>1. Best(m)
      BY <1>5 DEF L
    <2>2. QED
      BY <2>1 DEF Matches, Length
  <1>6. PICK k \in Bad : \A j \in Bad : k <= j
    <2>1. Bad \in SUBSET Nat
      BY <1>1
    <2>2. QED
      BY <1>5, <2>1, LeastNat
  <1>7. k \in 1 .. L /\ k - 1 \in 0 .. L
    BY <1>1, <1>3, <1>6
  <1>8. Best(k - 1)
    BY <1>1, <1>6, <1>7
  <1>9. Best(k)
    <2>1. CASE g[k] = k /\ Matches(k) /\ (g[k - 1] = 0 \/ Length(k) > Length(g[k - 1]))
      <3>1. \A n \in 1 .. k : Matches(n) => Length(n) <= Length(k)
        <4> SUFFICES ASSUME NEW n \in 1 .. k, Matches(n) PROVE Length(n) <= Length(k)
          OBVIOUS
        <4>1. CASE n = k
          BY <1>1, <1>2, <1>7, <4>1
        <4>2. CASE n \in 1 .. (k - 1)
          <5>1. g[k - 1] # 0 /\ Length(n) <= Length(g[k - 1]) /\ g[k - 1] \in 1 .. L
            BY <1>1, <1>7, <1>8, <4>2
          <5>2. Length(k) > Length(g[k - 1])
            BY <2>1, <5>1
          <5>3. Length(n) \in Nat /\ Length(k) \in Nat /\ Length(g[k - 1]) \in Nat
            BY <1>1, <1>2, <1>7, <5>1
          <5>4. QED
            BY <5>1, <5>2, <5>3
        <4>3. QED
          BY <1>7, <4>1, <4>2
      <3>2. QED
        BY <1>7, <2>1, <3>1
    <2>2. CASE /\ g[k] = g[k - 1]
               /\ ~(Matches(k) /\ (g[k - 1] = 0 \/ Length(k) > Length(g[k - 1])))
      <3>1. CASE g[k - 1] = 0
        BY <1>7, <1>8, <2>2, <3>1
      <3>2. CASE g[k - 1] # 0
        <4>1. g[k - 1] \in 1 .. (k - 1) /\ g[k - 1] \in 1 .. L
          BY <1>1, <1>7, <1>8, <3>2
        <4>2. Matches(k) => Length(k) <= Length(g[k - 1])
          BY <1>2, <1>7, <2>2, <3>2, <4>1
        <4>3. QED
          BY <1>7, <1>8, <2>2, <3>2, <4>1, <4>2
      <3>3. QED
        BY <3>1, <3>2
    <2>3. QED
      BY <1>4, <1>7, <2>1, <2>2
  <1>10. QED
    BY <1>6, <1>9

\* What the loop over the routing table returns: a matching route no other
\* matching route is longer than, and 0 only when no route matches.
LEMMA LongestRoute ==
  ASSUME NEW ip
  PROVE  /\ RouteIndex(ip) = 0 => \A n \in DOMAIN Routes : ~IsPrefix(Routes[n].prefix, ip)
         /\ RouteIndex(ip) # 0 =>
               /\ RouteIndex(ip) \in DOMAIN Routes
               /\ IsPrefix(Routes[RouteIndex(ip)].prefix, ip)
               /\ \A n \in DOMAIN Routes : IsPrefix(Routes[n].prefix, ip)
                     => Len(Routes[n].prefix) <= Len(Routes[RouteIndex(ip)].prefix)
  <1>1. Len(Routes) \in Nat /\ DOMAIN Routes = 1 .. Len(Routes)
    BY TablesAssumption
  <1>2. PICK g : /\ Remembers(g, Len(Routes), RouteTaken(ip))
                 /\ RouteIndex(ip) = g[Len(Routes)]
    BY RouteLoop
  <1>3. Len(Routes) \in 0 .. Len(Routes)
    BY <1>1
  <1>4. QED
    BY <1>1, <1>2, <1>3, LongestSoFar

ArpTaken(ip) == {x \in Nat \X Nat : ArpCache[x[1]].ip = ip}

\* What the loop over the ARP cache returns: an entry of the address, or 0.
LEMMA ArpEntry ==
  ASSUME NEW ip, ArpIndex(ip) # 0
  PROVE  ArpIndex(ip) \in DOMAIN ArpCache /\ ArpCache[ArpIndex(ip)].ip = ip
  <1> DEFINE L == Len(ArpCache)
             last == CHOOSE f : f = [n \in 0 .. L |->
                         IF n = 0 THEN 0
                         ELSE LET b == f[n - 1] IN IF ArpCache[n].ip = ip THEN n ELSE b]
  <1>1. L \in Nat /\ DOMAIN ArpCache = 1 .. L
    BY TablesAssumption
  <1>2. ArpIndex(ip) = last[L]
    BY DEF ArpIndex
  <1>3. PICK g : Remembers(g, L, ArpTaken(ip))
    BY <1>1, LoopExists
  <1>4. g = [n \in 0 .. L |->
                IF n = 0 THEN 0
                ELSE LET b == g[n - 1] IN IF ArpCache[n].ip = ip THEN n ELSE b]
    <2>1. ASSUME NEW n \in 1 .. L
          PROVE  g[n] = IF ArpCache[n].ip = ip THEN n ELSE g[n - 1]
      <3>1. <<n, g[n - 1]>> \in ArpTaken(ip) <=> ArpCache[n].ip = ip
        BY <1>1, <1>3 DEF Remembers, ArpTaken
      <3>2. QED
        BY <1>3, <3>1 DEF Remembers
    <2>2. QED
      BY <1>1, <1>3, <2>1 DEF Remembers
  <1> HIDE DEF L
  <1>5. last = [n \in 0 .. L |->
                IF n = 0 THEN 0
                ELSE LET b == last[n - 1] IN IF ArpCache[n].ip = ip THEN n ELSE b]
    BY <1>4
  <1> HIDE DEF last
  <1> DEFINE Fits(k) == last[k] # 0 => last[k] \in 1 .. L /\ ArpCache[last[k]].ip = ip
             Bad == {k \in 0 .. L : ~Fits(k)}
  <1>6. SUFFICES ASSUME Bad # {} PROVE FALSE
    <2>1. Fits(L)
      BY <1>1, <1>6
    <2>2. QED
      BY <1>1, <1>2, <2>1
  <1>7. PICK k \in Bad : \A j \in Bad : k <= j
    <2>1. Bad \in SUBSET Nat
      BY <1>1
    <2>2. QED
      BY <1>6, <2>1, LeastNat
  <1>8. last[0] = 0
    BY <1>1, <1>5
  <1>9. k \in 1 .. L /\ k - 1 \in 0 .. L
    BY <1>1, <1>7, <1>8
  <1>10. Fits(k - 1)
    BY <1>1, <1>7, <1>9
  <1>11. last[k] = IF ArpCache[k].ip = ip THEN k ELSE last[k - 1]
    BY <1>1, <1>5, <1>9
  <1>12. Fits(k)
    BY <1>9, <1>10, <1>11
  <1>13. QED
    BY <1>7, <1>12

-----------------------------------------------------------------------------
(* The fields of the frames that are sent.                                 *)

\* handle_arp leaves type and length.
LEMMA ArpReplyFields ==
  ASSUME NEW f \in Frames, f.type = "arp", NEW n
  PROVE  LET out == ArpReply(f, n) IN
         /\ out.type = "arp" /\ out.len = f.len /\ out.op = 2
         /\ out.dst = f.src /\ out.src = IfMac[n]
         /\ out.sha = IfMac[n] /\ out.spa = IfIp[n]
         /\ out.tha = f.src /\ out.tpa = f.spa
  BY FramesAssumption DEF ArpReply, ArpFields

\* The packet f that goes on, from interface address src to station dst.
Onward(f, src, dst) == [f EXCEPT !.ttl = @ - 1, !.src = src, !.dst = dst]

\* Forwarding touches the addresses of the frame and the TTL.
LEMMA OnwardFields ==
  ASSUME NEW f \in Frames, f.type = "ip", f.proto # 6, NEW src, NEW dst
  PROVE  LET out == Onward(f, src, dst) IN
         /\ out.type = "ip" /\ out.len = f.len /\ out.tlen = f.tlen
         /\ out.sip = f.sip /\ out.dip = f.dip /\ out.proto = f.proto
         /\ out.ttl = f.ttl - 1 /\ out.src = src /\ out.dst = dst
         /\ ~IsIcmp(out)
  <1>1. DOMAIN f = IpFields
    BY FramesAssumption
  <1>2. QED
    BY <1>1 DEF Onward, IpFields, IsIcmp

\* What a PSH/ACK's octets take from a reply's total_length.
Octets(f) == IF SegmentOf(f).bits = PSH_ACK THEN Int8(SegmentOf(f).len) ELSE 0

\* The answer to a segment is the segment's frame, turned around.
LEMMA TcpFrameFields ==
  ASSUME NEW f \in Frames, f.type = "ip", f.proto = 6, NEW n, NEW r
  PROVE  LET out == TcpFrame(f, n, r) IN
         /\ out.type = "ip" /\ out.proto = 6 /\ out.ttl = 64
         /\ out.dst = f.src /\ out.src = IfMac[n]
         /\ out.sip = TCP_IP /\ out.dip = f.sip
         /\ out.tlen = f.tlen - Octets(f)
         /\ out.len = f.len - (IF Octets(f) > 0 THEN Octets(f) ELSE 0) + 4
         /\ r.toPeerPort => out.sport = HOST_TCP_PORT /\ out.dport = f.sport
  <1>1. DOMAIN f = TcpFields
    BY FramesAssumption
  <1>2. QED
    BY <1>1 DEF TcpFrame, TcpFields, IpFields, Octets

-----------------------------------------------------------------------------
(* What is sent, x = On(interface, frame), for the frame f that was read.  *)

ArpAnswer(x, f) ==
    /\ f \in Frames /\ f.type = "arp" /\ ValidLength(f)
    /\ \E n \in Interfaces : IfIp[n] = f.tpa /\ x = On(n, ArpReply(f, n))

\* By route r and ARP entry a.
ForwardedPacket(x, f) ==
    /\ f \in Frames /\ InTransit(f) /\ ErrorOf(f) = <<>>
    /\ \E r, a, out : /\ r = RouteIndex(f.dip) /\ a = ArpIndex(NextHop(r, f.dip))
                      /\ out = Routes[r].interface_id
                      /\ x = On(out, Onward(f, IfMac[out], ArpCache[a].mac))

ErrorReport(x, f) ==
    /\ f \in Frames /\ InTransit(f) /\ ErrorOf(f) # <<>>
    /\ \E n \in Interfaces : x = On(n, IcmpError(f, n, ErrorOf(f)))

\* One of the headers r that handle_tcp_payload leaves in the frame.
TcpAnswer(x, f) ==
    /\ f \in Frames /\ f.type = "ip" /\ ForTcpEndpoint(f) /\ Answered(SegmentOf(f))
    /\ \E n \in Interfaces, r \in {y \in SentSegment : y.toPeerPort = (f.bits # ACK)} :
          /\ Receiver(f, n)
          /\ x = On(n, TcpFrame(f, n, r))

\* The error that overwrites an answer, and the one that quotes it.
ExpiredAnswer(x, f) ==
    /\ f \in Frames /\ f.type = "ip" /\ ForTcpEndpoint(f)
    /\ \E n \in Interfaces : \E g : x = On(n, IcmpError(g, n, <<11, 0>>))

UserSegment(x, f) ==
    /\ f = NoFrame
    /\ \E r : r.len \in Nat /\ r.len <= 1024 /\ x = On(DEFAULT_TCP_INTERFACE, UserFrame(r))

SentFor(x, f) ==
    \/ ArpAnswer(x, f) \/ ForwardedPacket(x, f) \/ ErrorReport(x, f)
    \/ TcpAnswer(x, f) \/ ExpiredAnswer(x, f) \/ UserSegment(x, f)

\* What is on the wire belongs to the frame that was read; a packet in transit
\* sends one frame, and no other packet but TCP sends any.
WireInv ==
    /\ \A k \in DOMAIN wire : SentFor(wire[k], rx)
    /\ InTransit(rx) => Len(wire) = 1 /\ DOMAIN wire = {1}
    /\ rx.type = "ip" /\ rx.proto # 6 /\ ~InTransit(rx) => wire = <<>>

\* A handler that sends nothing, for a packet that is not in transit.
LEMMA NothingSent ==
  ASSUME wire' = <<>>, ~InTransit(rx')
  PROVE  WireInv'
  BY DEF WireInv

\* A frame the receiver ignores is no packet in transit.
LEMMA IgnoredNotInTransit ==
  ASSUME NEW f \in Frames, ReceiveIgnored(f)
  PROVE  ~InTransit(f)
  <1> SUFFICES ASSUME InTransit(f) PROVE FALSE
    OBVIOUS
  <1>1. PICK n \in Interfaces : IpPacket(f, n)
    BY DEF InTransit
  <1>2. f.dst # Broadcast
    BY <1>1, InterfacesAssumption DEF IpPacket, Receiver
  <1>3. f.ttl \in UInt8 /\ f.tlen \in Nat
    BY <1>1, FramesAssumption DEF IpPacket, UInt16
  <1>4. QED
    BY <1>1, <1>2, <1>3 DEF ReceiveIgnored, IpPacket, UInt8

\* Reading a frame of an IP packet sends what belongs to it.
LEMMA PacketWire ==
  ASSUME TableType, NEW f \in Frames, NEW n \in Interfaces, ReceivePacket(f, n), rx' = f
  PROVE  WireInv'
  <1>1. CASE ReceiveDigested(f, n)
    BY <1>1, NothingSent DEF ReceiveDigested, Silent, InTransit
  <1>2. CASE ReceiveTcpElsewhere(f, n)
    BY <1>2, NothingSent DEF ReceiveTcpElsewhere, Silent, InTransit
  <1>3. CASE ReceiveForward(f, n)
    <2>1. InTransit(f)
      BY <1>3 DEF ReceiveForward, InTransit, IpPacket
    <2> DEFINE r == RouteIndex(f.dip)
               out == Routes[r].interface_id
               x == On(out, Onward(f, IfMac[out], ArpCache[ArpIndex(NextHop(r, f.dip))].mac))
    <2>2. wire' = <<x>> /\ ErrorOf(f) = <<>>
      BY <1>3 DEF ReceiveForward, Onward
    <2>3. ForwardedPacket(x, f)
      BY <2>1, <2>2 DEF ForwardedPacket
    <2> HIDE DEF x
    <2>4. QED
      BY <2>1, <2>2, <2>3 DEF WireInv, SentFor
  <1>4. CASE ReceiveError(f, n)
    <2>1. InTransit(f)
      BY <1>4 DEF ReceiveError, InTransit, IpPacket
    <2> DEFINE x == On(n, IcmpError(f, n, ErrorOf(f)))
    <2>2. wire' = <<x>> /\ ErrorReport(x, f)
      BY <1>4, <2>1 DEF ReceiveError, ErrorReport
    <2> HIDE DEF x
    <2>3. QED
      BY <2>1, <2>2 DEF WireInv, SentFor
  <1>5. CASE ReceiveTcp(f, n)
    <2>1. /\ f.type = "ip" /\ f.proto = 6 /\ ForTcpEndpoint(f) /\ Receiver(f, n)
          /\ SegmentOf(f) \in Segment /\ SegmentOf(f).bits = f.bits
          /\ Receive(SegmentOf(f))
          /\ wire' = [k \in DOMAIN sent' |-> On(n, TcpFrame(f, n, sent'[k]))]
      BY <1>5, FramesAssumption DEF ReceiveTcp, IpPacket, ForTcpEndpoint, SegmentOf
    <2>2. ASSUME NEW k \in DOMAIN sent' PROVE TcpAnswer(wire'[k], f)
      <3>1. Answered(SegmentOf(f)) /\ sent'[k].toPeerPort = (f.bits # ACK)
        BY <2>1, ReplyFacts
      <3>2. sent' \in Seq(SentSegment)
        BY <2>1, ReceiveType
      <3>3. sent'[k] \in SentSegment
        BY <2>2, <3>2
      <3>4. QED
        BY <2>1, <3>1, <3>3, Zenon DEF TcpAnswer
    <2>3. ~InTransit(f)
      BY <2>1 DEF InTransit
    <2>4. QED
      BY <2>1, <2>2, <2>3 DEF WireInv, SentFor
  <1>6. CASE ReceiveTcpExpired(f, n)
    <2>1. f.type = "ip" /\ f.proto = 6 /\ ForTcpEndpoint(f)
      BY <1>6 DEF ReceiveTcpExpired, IpPacket, ForTcpEndpoint
    <2>2. \E g, h : LET first == On(n, IcmpError(g, n, <<11, 0>>))
                       second == On(n, IcmpError(h, n, <<11, 0>>))
                   IN  wire' \in {<<>>, <<first>>, <<first, second>>}
      BY <1>6, Zenon DEF ReceiveTcpExpired, Silent
    <2>3. PICK first, second :
             /\ ExpiredAnswer(first, f) /\ ExpiredAnswer(second, f)
             /\ wire' \in {<<>>, <<first>>, <<first, second>>}
      BY <2>1, <2>2 DEF ExpiredAnswer
    <2>4. ~InTransit(f)
      BY <2>1 DEF InTransit
    <2>5. QED
      BY <2>1, <2>3, <2>4 DEF WireInv, SentFor
  <1>7. QED
    BY <1>1, <1>2, <1>3, <1>4, <1>5, <1>6 DEF ReceivePacket

\* Every step of the router does.
LEMMA WireStep ==
  ASSUME TableType, WireInv, [StackNext]_stackVars
  PROVE  WireInv'
  <1>1. ASSUME NEW f \in Frames, ReceiveArp(f), rx' = f
        PROVE  WireInv'
    <2>1. f.type = "arp" /\ ValidLength(f) /\ ~InTransit(f)
      BY <1>1 DEF ReceiveArp, InTransit
    <2>2. CASE Silent
      BY <1>1, <2>1, <2>2, NothingSent DEF Silent
    <2>3. ASSUME NEW n \in Interfaces, IfIp[n] = f.tpa, wire' = <<On(n, ArpReply(f, n))>>
          PROVE  WireInv'
      <3>1. PICK x : wire' = <<x>> /\ ArpAnswer(x, f)
        BY <2>1, <2>3 DEF ArpAnswer
      <3>2. QED
        BY <1>1, <2>1, <3>1 DEF WireInv, SentFor
    <2>4. QED
      BY <1>1, <2>2, <2>3 DEF ReceiveArp
  <1>2. CASE InterfaceReceiver
    BY <1>1, <1>2, IgnoredNotInTransit, NothingSent, PacketWire
    DEF InterfaceReceiver, ReceiveIgnored, Silent
  <1>3. CASE InteractionHandler
    <2>1. PICK l \in Lines : UserLine(l)
      BY <1>3 DEF InteractionHandler
    <2>2. /\ wire' = [k \in DOMAIN sent' |-> On(DEFAULT_TCP_INTERFACE, UserFrame(sent'[k]))]
          /\ rx' = NoFrame
      BY <1>3 DEF InteractionHandler
    <2>3. ASSUME NEW k \in DOMAIN sent' PROVE sent'[k].len \in Nat /\ sent'[k].len <= 1024
      <3>1. PICK i \in Slots, n \in Nat : n <= 1024 /\ sent' = <<CreatedSegment(table[i], n)>>
        BY <2>1, <2>3, UserSends
      <3>2. CreatedSegment(table[i], n).len = n
        BY DEF CreatedSegment
      <3>3. sent'[k] = CreatedSegment(table[i], n)
        BY <2>3, <3>1
      <3>4. QED
        BY <3>1, <3>2, <3>3
    <2>4. NoFrame.type # "ip"
      BY DEF NoFrame
    <2>5. QED
      BY <2>2, <2>3, <2>4 DEF WireInv, SentFor, UserSegment, InTransit
  <1>4. CASE UNCHANGED stackVars
    BY <1>4 DEF stackVars, WireInv
  <1>5. QED
    BY <1>2, <1>3, <1>4 DEF StackNext

-----------------------------------------------------------------------------
(* The connection table inside the router.                                 *)

\* A segment that arrives expired is served before its answer is lost: the slot
\* is written as for any other segment.
LEMMA ExpiredStep ==
  ASSUME TableType, NEW f \in Frames, NEW n \in Interfaces, ReceiveTcpExpired(f, n)
  PROVE  TableStep
  <1>1. SegmentOf(f) \in Segment /\ SegmentOf(f).peer \in Peers
    BY FramesAssumption DEF ReceiveTcpExpired, IpPacket, ForTcpEndpoint, Segment
  <1>2. CASE UNCHANGED table
    BY <1>2 DEF TableStep
  <1>3. ASSUME NEW i \in Slots, Selected(table, SegmentOf(f).peer, i),
               table' = [table EXCEPT ![i] = PayloadEntry(@, SegmentOf(f))]
        PROVE  TableStep
    <2>1. table[i] \in Entry
      BY DEF TableType
    <2>2. /\ PayloadEntry(table[i], SegmentOf(f)) \in Entry
          /\ \/ SynStep(i, PayloadEntry(table[i], SegmentOf(f)))
             \/ KeepStep(i, PayloadEntry(table[i], SegmentOf(f)))
      BY <1>1, <1>3, <2>1, PayloadEntryEffect DEF SynStep, KeepStep
    <2>3. QED
      BY <1>3, <2>2 DEF TableStep
  <1>4. QED
    BY <1>2, <1>3 DEF ReceiveTcpExpired

\* Every step of the router is a TableStep.
LEMMA StackTableStep ==
  ASSUME TableType, [StackNext]_stackVars
  PROVE  TableStep
  <1>1. ASSUME NEW f \in Frames, NEW n \in Interfaces, ReceiveTcp(f, n)
        PROVE  TableStep
    <2>1. SegmentOf(f) \in Segment /\ Receive(SegmentOf(f))
      BY <1>1, FramesAssumption DEF ReceiveTcp, IpPacket, ForTcpEndpoint
    <2>2. QED
      BY <2>1, ReceiveStep DEF TableType
  <1>2. CASE UNCHANGED table
    BY <1>2 DEF TableStep
  <1>3. CASE InterfaceReceiver
    BY <1>1, <1>2, <1>3, ExpiredStep
    DEF InterfaceReceiver, ReceiveIgnored, ReceiveArp, ReceivePacket, ReceiveDigested,
        ReceiveForward, ReceiveError, ReceiveTcpElsewhere, TableUntouched
  <1>4. CASE InteractionHandler
    BY <1>4, UserStep DEF InteractionHandler, TableType
  <1>5. CASE UNCHANGED stackVars
    BY <1>2, <1>5 DEF stackVars, vars
  <1>6. QED
    BY <1>3, <1>4, <1>5 DEF StackNext

\* The table's invariant and the wire's hold throughout.
LEMMA StackInvariant == StackSpec => [](TableInv /\ WireInv)
  <1>1. StackInit => TableInv /\ WireInv
    <2> SUFFICES ASSUME StackInit PROVE TableInv /\ WireInv
      OBVIOUS
    <2>1. NoFrame.type # "ip"
      BY DEF NoFrame
    <2>2. QED
      BY <2>1, TableInvInit DEF StackInit, WireInv, InTransit
  <1>2. TableInv /\ WireInv /\ [StackNext]_stackVars => (TableInv /\ WireInv)'
    BY StackTableStep, TableStepKeeps, WireStep DEF TableInv
  <1>3. QED
    BY <1>1, <1>2, PTL DEF StackSpec

\* The router as a whole, expired segments and all, implements the map of
\* connections that the table alone implements.
THEOREM RouterImplementsMap == StackSpec => ImplementsMap
  <1>1. StackInit => Map!CMInit
    BY InitMaps DEF StackInit
  <1>2. /\ TableInv /\ WireInv /\ (TableInv /\ WireInv)' /\ [StackNext]_stackVars
        => [Map!CMNext]_(Map!cmVars)
    BY StackTableStep, TableStepMaps DEF TableInv
  <1>3. QED
    BY <1>1, <1>2, StackInvariant, PTL DEF StackSpec, ImplementsMap, Map!CMSpec

-----------------------------------------------------------------------------
(* What the router sends.                                                  *)

\* An error report is an ICMP packet.
LEMMA ErrorFields ==
  ASSUME NEW f, NEW n, NEW code
  PROVE  LET out == IcmpError(f, n, code) IN
         /\ IsIcmp(out) /\ out.type = "ip" /\ out.proto = 1
         /\ out.len = 74 /\ out.tlen = 56 /\ out.ttl = 64
         /\ out.dst = f.src /\ out.dip = f.sip
         /\ out.quoted = <<f.sip, f.dip>> /\ out.icmp = code
  BY DEF IcmpError, IsIcmp

\* A frame of the user's is a TCP packet.
LEMMA UserFields ==
  ASSUME NEW r
  PROVE  LET out == UserFrame(r) IN
         /\ ~IsIcmp(out) /\ out.type = "ip" /\ out.proto = 6
         /\ out.len = 58 + r.len /\ out.tlen = 40 + r.len /\ out.ttl = 64
  BY DEF UserFrame, IsIcmp

\* A packet that goes on has a route and an ARP entry for its next hop.
LEMMA NoErrorMeansRoute ==
  ASSUME NEW f \in Frames, f.type = "ip", ErrorOf(f) = <<>>
  PROVE  LET r == RouteIndex(f.dip) IN
         /\ f.ttl # 1
         /\ r \in DOMAIN Routes
         /\ IsPrefix(Routes[r].prefix, f.dip)
         /\ \A q \in DOMAIN Routes : IsPrefix(Routes[q].prefix, f.dip)
               => Len(Routes[q].prefix) <= Len(Routes[r].prefix)
         /\ Routes[r].interface_id \in Interfaces
         /\ ArpIndex(NextHop(r, f.dip)) \in DOMAIN ArpCache
         /\ ArpCache[ArpIndex(NextHop(r, f.dip))].ip = NextHop(r, f.dip)
  <1> DEFINE r == RouteIndex(f.dip)
             a == ArpIndex(NextHop(r, f.dip))
  <1>1. f.ttl # 1 /\ r # 0 /\ a # 0
    BY DEF ErrorOf
  <1>2. QED
    BY <1>1, LongestRoute, ArpEntry, InterfacesAssumption

\* A packet that goes on is the one that came, one hop older.
LEMMA ForwardedFields ==
  ASSUME NEW x, NEW f, ForwardedPacket(x, f)
  PROVE  /\ f \in Frames /\ InTransit(f) /\ ErrorOf(f) = <<>>
         /\ f.type = "ip" /\ f.proto # 6
         /\ x.iface = Routes[RouteIndex(f.dip)].interface_id
         /\ ~IsIcmp(x.frame) /\ x.frame.type = "ip" /\ x.frame.proto # 6
         /\ x.frame.len = f.len /\ x.frame.tlen = f.tlen /\ x.frame.ttl = f.ttl - 1
  <1>1. PICK o, src, dst : /\ o = Routes[RouteIndex(f.dip)].interface_id
                           /\ x = On(o, Onward(f, src, dst))
    BY DEF ForwardedPacket
  <1>2. x.iface = o /\ x.frame = Onward(f, src, dst)
    BY <1>1 DEF On
  <1>3. /\ f \in Frames /\ InTransit(f) /\ ErrorOf(f) = <<>>
        /\ f.type = "ip" /\ f.proto # 6
    BY DEF ForwardedPacket, InTransit
  <1>4. QED
    BY <1>1, <1>2, <1>3, OnwardFields

\* Longest-prefix routing, for every routing table and ARP cache.
THEOREM ForwardedByRouteHolds == StackSpec => []ForwardedByRoute
  <1>1. ASSUME WireInv PROVE ForwardedByRoute
    <2> SUFFICES ASSUME InTransit(rx), NEW k \in DOMAIN wire, ~IsIcmp(wire[k].frame)
                 PROVE  LET out == wire[k].frame
                            matching == {r \in DOMAIN Routes : IsPrefix(Routes[r].prefix, rx.dip)}
                        IN  /\ out.sip = rx.sip /\ out.dip = rx.dip /\ out.tlen = rx.tlen
                            /\ out.ttl = rx.ttl - 1
                            /\ \E r \in matching :
                                  /\ \A q \in matching :
                                        Len(Routes[q].prefix) <= Len(Routes[r].prefix)
                                  /\ wire[k].iface = Routes[r].interface_id
                                  /\ out.src = IfMac[wire[k].iface]
                                  /\ [ip |-> NextHop(r, rx.dip), mac |-> out.dst]
                                        \in ToSet(ArpCache)
      BY DEF ForwardedByRoute
    <2>1. rx.type = "ip" /\ rx.proto # 6 /\ rx # NoFrame
      BY DEF InTransit, NoFrame
    <2>2. SentFor(wire[k], rx)
      BY <1>1 DEF WireInv
    <2>3. ~ErrorReport(wire[k], rx)
      BY ErrorFields DEF ErrorReport, On
    <2>4. ForwardedPacket(wire[k], rx)
      BY <2>1, <2>2, <2>3
      DEF SentFor, ArpAnswer, TcpAnswer, ExpiredAnswer, UserSegment, ForTcpEndpoint
    <2>5. PICK r, a, o : /\ r = RouteIndex(rx.dip) /\ a = ArpIndex(NextHop(r, rx.dip))
                         /\ o = Routes[r].interface_id
                         /\ wire[k] = On(o, Onward(rx, IfMac[o], ArpCache[a].mac))
      BY <2>4 DEF ForwardedPacket
    <2>6. /\ wire[k].iface = o
          /\ wire[k].frame = Onward(rx, IfMac[o], ArpCache[a].mac)
      BY <2>5 DEF On
    <2>7. rx \in Frames /\ ErrorOf(rx) = <<>>
      BY <2>4 DEF ForwardedPacket
    <2>8. /\ r \in DOMAIN Routes
          /\ IsPrefix(Routes[r].prefix, rx.dip)
          /\ \A q \in DOMAIN Routes : IsPrefix(Routes[q].prefix, rx.dip)
                => Len(Routes[q].prefix) <= Len(Routes[r].prefix)
          /\ a \in DOMAIN ArpCache /\ ArpCache[a].ip = NextHop(r, rx.dip)
      BY <2>1, <2>5, <2>7, NoErrorMeansRoute
    <2>9. [ip |-> NextHop(r, rx.dip), mac |-> ArpCache[a].mac] \in ToSet(ArpCache)
      BY <2>8, TablesAssumption DEF ToSet
    <2>10. QED
      BY <2>1, <2>5, <2>6, <2>7, <2>8, <2>9, OnwardFields
  <1>2. QED
    BY <1>1, StackInvariant, PTL

\* A packet in transit is passed on or reported to its source, and no other
\* packet but TCP is answered.
THEOREM ForwardedOrReportedHolds == StackSpec => []ForwardedOrReported
  <1>1. ASSUME WireInv PROVE ForwardedOrReported
    <2>1. ASSUME InTransit(rx), IsIcmp(wire[1].frame)
          PROVE  LET out == wire[1].frame IN
                 /\ out.dst = rx.src /\ out.dip = rx.sip
                 /\ out.quoted = <<rx.sip, rx.dip>>
                 /\ (out.icmp[1] = 11 <=> rx.ttl = 1)
      <3>1. rx.type = "ip" /\ rx.proto # 6 /\ rx # NoFrame
        BY <2>1 DEF InTransit, NoFrame
      <3>2. SentFor(wire[1], rx)
        BY <1>1, <2>1 DEF WireInv
      <3>3. ~ForwardedPacket(wire[1], rx)
        BY <2>1, ForwardedFields
      <3>4. ErrorReport(wire[1], rx)
        BY <3>1, <3>2, <3>3
        DEF SentFor, ArpAnswer, TcpAnswer, ExpiredAnswer, UserSegment, ForTcpEndpoint
      <3>5. PICK n \in Interfaces : wire[1] = On(n, IcmpError(rx, n, ErrorOf(rx)))
        BY <3>4 DEF ErrorReport
      <3>6. wire[1].frame = IcmpError(rx, n, ErrorOf(rx)) /\ ErrorOf(rx) # <<>>
        BY <3>4, <3>5 DEF On, ErrorReport
      <3>7. (ErrorOf(rx)[1] = 11) <=> (rx.ttl = 1)
        BY <3>6 DEF ErrorOf
      <3>8. QED
        BY <3>6, <3>7, ErrorFields
    <2>2. QED
      BY <1>1, <2>1 DEF WireInv, ForwardedOrReported
  <1>2. QED
    BY <1>1, StackInvariant, PTL

\* An ARP reply names the owner of the asked address, to the host that asked.
THEOREM ArpReplyNamesOwnerHolds == StackSpec => []ArpReplyNamesOwner
  <1>1. ASSUME WireInv, NEW k \in DOMAIN wire, wire[k].frame.type = "arp"
        PROVE  ArpAnswer(wire[k], rx)
    <2>1. ~ForwardedPacket(wire[k], rx)
      BY <1>1, ForwardedFields
    <2>2. ~ErrorReport(wire[k], rx) /\ ~ExpiredAnswer(wire[k], rx)
      BY <1>1, ErrorFields DEF ErrorReport, ExpiredAnswer, On
    <2>3. ~TcpAnswer(wire[k], rx)
      BY <1>1, TcpFrameFields DEF TcpAnswer, ForTcpEndpoint, On
    <2>4. ~UserSegment(wire[k], rx)
      BY <1>1, UserFields DEF UserSegment, On
    <2>5. QED
      BY <1>1, <2>1, <2>2, <2>3, <2>4 DEF WireInv, SentFor
  <1>2. ASSUME NEW k \in DOMAIN wire, ArpAnswer(wire[k], rx)
        PROVE  LET out == wire[k].frame IN
               /\ out.op = 2
               /\ out.spa = rx.tpa /\ out.tpa = rx.spa
               /\ out.dst = rx.src /\ out.tha = rx.src
               /\ \E n \in Interfaces :
                     out.spa = IfIp[n] /\ out.sha = IfMac[n] /\ out.src = IfMac[n]
    <2>1. PICK n \in Interfaces : IfIp[n] = rx.tpa /\ wire[k] = On(n, ArpReply(rx, n))
      BY <1>2 DEF ArpAnswer
    <2>2. wire[k].frame = ArpReply(rx, n) /\ rx \in Frames /\ rx.type = "arp"
      BY <1>2, <2>1 DEF ArpAnswer, On
    <2>3. QED
      BY <2>1, <2>2, ArpReplyFields
  <1>3. WireInv => ArpReplyNamesOwner
    BY <1>1, <1>2 DEF ArpReplyNamesOwner
  <1>4. QED
    BY <1>3, StackInvariant, PTL

\* A segment is answered to the station, address and port it came from, provided
\* that no ACK carries data.
THEOREM TcpAnswersSenderHolds ==
  ASSUME AcksCarryNothing PROVE StackSpec => []TcpAnswersSender
  <1>1. ASSUME WireInv, rx.type = "ip", NEW k \in DOMAIN wire, wire[k].frame.proto = 6
        PROVE  TcpAnswer(wire[k], rx)
    <2>1. ~ForwardedPacket(wire[k], rx)
      BY <1>1, ForwardedFields
    <2>2. ~ErrorReport(wire[k], rx) /\ ~ExpiredAnswer(wire[k], rx)
      BY <1>1, ErrorFields DEF ErrorReport, ExpiredAnswer, On
    <2>3. ~ArpAnswer(wire[k], rx) /\ ~UserSegment(wire[k], rx)
      BY <1>1 DEF ArpAnswer, UserSegment, NoFrame
    <2>4. QED
      BY <1>1, <2>1, <2>2, <2>3 DEF WireInv, SentFor
  <1>2. ASSUME NEW k \in DOMAIN wire, TcpAnswer(wire[k], rx)
        PROVE  LET out == wire[k].frame IN
               /\ out.dst = rx.src /\ out.src = rx.dst
               /\ out.sip = rx.dip /\ out.dip = rx.sip
               /\ out.sport = rx.dport /\ out.dport = rx.sport
               /\ IfMac[wire[k].iface] = rx.dst
    <2>1. /\ rx \in Frames /\ rx.type = "ip" /\ rx.proto = 6
          /\ rx.dip = TCP_IP /\ rx.dport = HOST_TCP_PORT
      BY <1>2 DEF TcpAnswer, ForTcpEndpoint
    <2>2. PICK n \in Interfaces, r \in SentSegment :
             /\ r.toPeerPort = (rx.bits # ACK)
             /\ IfMac[n] = rx.dst
             /\ wire[k] = On(n, TcpFrame(rx, n, r))
      BY <1>2 DEF TcpAnswer, Receiver
    <2>3. rx.bits # ACK
      <3>1. SegmentOf(rx).len \in UInt16 /\ SegmentOf(rx).bits = rx.bits
        <4>1. SegmentOf(rx) \in Segment
          BY <2>1, FramesAssumption
        <4>2. SegmentOf(rx).len \in UInt16
          BY <4>1 DEF Segment
        <4>3. SegmentOf(rx).bits = rx.bits
          BY DEF SegmentOf
        <4>4. QED
          BY <4>2, <4>3
      <3>2. rx.bits = ACK => Int8(SegmentOf(rx).len) > 0
        BY <1>2, <3>1 DEF TcpAnswer, Answered
      <3>3. rx.bits = ACK => Int8(SegmentOf(rx).len) <= 0
        BY <1>2 DEF TcpAnswer, AcksCarryNothing
      <3>4. Int8(SegmentOf(rx).len) \in Int
        BY <3>1, Int8Type
      <3>5. QED
        BY <3>2, <3>3, <3>4
    <2>4. r.toPeerPort
      BY <2>2, <2>3
    <2>5. wire[k].iface = n /\ wire[k].frame = TcpFrame(rx, n, r)
      BY <2>2 DEF On
    <2>6. QED
      BY <2>1, <2>2, <2>4, <2>5, TcpFrameFields
  <1>3. WireInv => TcpAnswersSender
    BY <1>1, <1>2 DEF TcpAnswersSender
  <1>4. QED
    BY <1>3, StackInvariant, PTL

-----------------------------------------------------------------------------
(* Lengths.                                                                *)

\* The octets an answer leaves out are octets the segment has.
LEMMA OctetsOfAnswered ==
  ASSUME SegmentsFramed, NoLengthIsStatus,
         NEW f \in Frames, f.type = "ip", ForTcpEndpoint(f), Answered(SegmentOf(f))
  PROVE  /\ Octets(f) \in Nat /\ f.len \in Nat /\ f.len <= MaxFrame /\ f.tlen \in Nat
         /\ f.len = 14 + f.tlen
         /\ f.len - Octets(f) >= 54
  <1> DEFINE data == f.len - 34 - f.hlen
  <1>1. /\ f.len \in Nat /\ f.len <= MaxFrame /\ f.tlen \in Nat /\ f.hlen \in Nat /\ f.hlen >= 20
        /\ f.len = 14 + f.tlen /\ f.len >= 34 + f.hlen
    BY FramesAssumption DEF SegmentsFramed, UInt16
  <1>2. SegmentOf(f).bits = f.bits /\ SegmentOf(f).len = data % 65536
    BY DEF SegmentOf
  <1>3. data \in UInt16 /\ data % 65536 = data
    <2>1. data \in UInt16
      BY <1>1 DEF MaxFrame, UInt16
    <2>2. \A d \in UInt16 : d % 65536 = d
      BY DEF UInt16
    <2>3. QED
      BY <2>1, <2>2
  <1>4. CASE f.bits = PSH_ACK
    <2>1. Octets(f) = Int8(data)
      BY <1>2, <1>3, <1>4 DEF Octets
    <2>2. Int8(data) >= 0
      <3>1. Int8(data) \notin {TCP_CLOSED, TCP_FIN_ACK}
        BY <1>2, <1>3, <1>4 DEF NoLengthIsStatus
      <3>2. QED
        BY <1>2, <1>3, <1>4, <3>1 DEF Answered
    <2>3. Int8(data) \in Int /\ (Int8(data) > 0 => data - Int8(data) \in UInt16)
      BY <1>3, Int8Type
    <2> HIDE DEF data
    <2>4. Int8(data) = 0 \/ data - Int8(data) >= 0
      BY <2>2, <2>3 DEF UInt16
    <2>5. QED
      BY <1>1, <2>1, <2>2, <2>3, <2>4 DEF data
  <1>5. CASE f.bits # PSH_ACK
    BY <1>1, <1>2, <1>5 DEF Octets
  <1>6. QED
    BY <1>4, <1>5

\* The length of a frame is that of its packet, with header and FCS, and a
\* forwarded packet keeps its padding, for segments framed as netcat's are.
THEOREM WellFormedLengthHolds ==
  ASSUME SegmentsFramed, NoLengthIsStatus PROVE StackSpec => []WellFormedLength
  <1>1. ASSUME WireInv, NEW k \in DOMAIN wire, wire[k].frame.type = "ip"
        PROVE  Padding(wire[k].frame)
                  = IF InTransit(rx) /\ ~IsIcmp(wire[k].frame) THEN Padding(rx) ELSE 0
    <2>1. CASE ArpAnswer(wire[k], rx)
      BY <1>1, <2>1, ArpReplyFields DEF ArpAnswer, On
    <2>2. CASE ForwardedPacket(wire[k], rx)
      BY <2>2, ForwardedFields DEF Padding
    <2>3. CASE ErrorReport(wire[k], rx) \/ ExpiredAnswer(wire[k], rx)
      <3>1. PICK n, g, code : wire[k] = On(n, IcmpError(g, n, code))
        BY <2>3 DEF ErrorReport, ExpiredAnswer
      <3>2. wire[k].frame = IcmpError(g, n, code)
        BY <3>1 DEF On
      <3>3. QED
        BY <3>2, ErrorFields DEF Padding
    <2>4. CASE TcpAnswer(wire[k], rx)
      <3>1. /\ rx \in Frames /\ rx.type = "ip" /\ rx.proto = 6 /\ ForTcpEndpoint(rx)
            /\ Answered(SegmentOf(rx)) /\ ~InTransit(rx)
        BY <2>4 DEF TcpAnswer, ForTcpEndpoint, InTransit
      <3>2. PICK n, r : wire[k] = On(n, TcpFrame(rx, n, r))
        BY <2>4 DEF TcpAnswer
      <3>3. wire[k].frame = TcpFrame(rx, n, r)
        BY <3>2 DEF On
      <3>4. /\ wire[k].frame.tlen = rx.tlen - Octets(rx)
            /\ wire[k].frame.len = rx.len - (IF Octets(rx) > 0 THEN Octets(rx) ELSE 0) + 4
        BY <3>1, <3>3, TcpFrameFields
      <3>5. /\ Octets(rx) \in Nat /\ rx.len \in Nat /\ rx.len <= MaxFrame /\ rx.tlen \in Nat
            /\ rx.len = 14 + rx.tlen
        BY <3>1, OctetsOfAnswered
      <3>6. QED
        BY <3>1, <3>4, <3>5 DEF Padding, MaxFrame
    <2>5. CASE UserSegment(wire[k], rx)
      <3>1. PICK r : r.len \in Nat /\ r.len <= 1024 /\ wire[k].frame = UserFrame(r)
        BY <2>5 DEF UserSegment, On
      <3>2. ~InTransit(rx)
        BY <2>5 DEF UserSegment, NoFrame, InTransit
      <3>3. QED
        BY <3>1, <3>2, UserFields DEF Padding
    <2>6. QED
      BY <1>1, <2>1, <2>2, <2>3, <2>4, <2>5 DEF WireInv, SentFor
  <1>2. WireInv => WellFormedLength
    BY <1>1 DEF WellFormedLength
  <1>3. QED
    BY <1>2, StackInvariant, PTL

\* What StackTypeOK says of one frame that leaves.
GoodFrame(x) ==
    /\ x.iface \in Interfaces
    /\ x.frame.type \in {"ip", "arp"}
    /\ x.frame.len \in Nat /\ x.frame.len >= 14 /\ x.frame.len <= 1600
    /\ x.frame.type = "ip" =>
          x.frame.ttl \in UInt8 \ {0} /\ x.frame.tlen \in UInt16 /\ x.frame.tlen >= 20

LEMMA ArpFrameGood ==
  ASSUME NEW x, NEW f, ArpAnswer(x, f) PROVE GoodFrame(x)
  <1>1. PICK n \in Interfaces : x = On(n, ArpReply(f, n))
    BY DEF ArpAnswer
  <1>2. x.iface = n /\ x.frame = ArpReply(f, n)
    BY <1>1 DEF On
  <1>3. f \in Frames /\ f.type = "arp" /\ f.len \in Nat /\ f.len <= MaxFrame /\ f.len - 18 >= 46
    BY FramesAssumption DEF ArpAnswer, ValidLength
  <1>4. x.frame.type = "arp" /\ x.frame.len = f.len
    BY <1>2, <1>3, ArpReplyFields
  <1>5. f.len >= 14 /\ f.len <= 1600
    BY <1>3 DEF MaxFrame
  <1>6. QED
    BY <1>2, <1>3, <1>4, <1>5 DEF GoodFrame

LEMMA ForwardedFrameGood ==
  ASSUME NEW x, NEW f, ForwardedPacket(x, f) PROVE GoodFrame(x)
  <1>1. /\ f \in Frames /\ f.type = "ip" /\ ErrorOf(f) = <<>>
        /\ x.iface = Routes[RouteIndex(f.dip)].interface_id
        /\ x.frame.type = "ip" /\ x.frame.len = f.len /\ x.frame.tlen = f.tlen
        /\ x.frame.ttl = f.ttl - 1
    BY ForwardedFields
  <1>2. f.ttl # 1 /\ x.iface \in Interfaces
    BY <1>1, NoErrorMeansRoute
  <1>3. \E n \in Interfaces : IpPacket(f, n)
    BY DEF ForwardedPacket, InTransit
  <1>4. f.len \in Nat /\ f.len <= MaxFrame /\ f.ttl \in UInt8 /\ f.tlen \in UInt16
    BY <1>1, FramesAssumption
  <1>5. f.len - 18 >= 46 /\ f.ttl >= 1 /\ f.tlen > 20
    BY <1>3 DEF IpPacket, ValidLength
  <1>6. f.len >= 14 /\ f.len <= 1600 /\ f.tlen >= 20 /\ f.ttl - 1 \in UInt8 \ {0}
    BY <1>2, <1>4, <1>5 DEF MaxFrame, UInt8, UInt16
  <1>7. QED
    BY <1>1, <1>2, <1>4, <1>6 DEF GoodFrame

LEMMA ErrorFrameGood ==
  ASSUME NEW x, NEW f, ErrorReport(x, f) \/ ExpiredAnswer(x, f) PROVE GoodFrame(x)
  <1>1. \E n \in Interfaces : \E g, code : x = On(n, IcmpError(g, n, code))
    BY DEF ErrorReport, ExpiredAnswer
  <1>2. PICK n, g, code : /\ n \in Interfaces
                          /\ x.iface = n /\ x.frame = IcmpError(g, n, code)
    BY <1>1 DEF On
  <1>3. /\ x.frame.type = "ip" /\ x.frame.len = 74 /\ x.frame.tlen = 56
        /\ x.frame.ttl = 64
    BY <1>2, ErrorFields
  <1>4. 64 \in UInt8 \ {0} /\ 56 \in UInt16
    BY DEF UInt8, UInt16
  <1>5. QED
    BY <1>2, <1>3, <1>4 DEF GoodFrame

LEMMA TcpFrameGood ==
  ASSUME SegmentsFramed, NoLengthIsStatus, NEW x, NEW f, TcpAnswer(x, f)
  PROVE  GoodFrame(x)
  <1>1. /\ f \in Frames /\ f.type = "ip" /\ f.proto = 6 /\ ForTcpEndpoint(f)
        /\ Answered(SegmentOf(f))
    BY DEF TcpAnswer, ForTcpEndpoint
  <1>2. PICK n \in Interfaces : \E r : x = On(n, TcpFrame(f, n, r))
    BY DEF TcpAnswer
  <1>3. PICK r : x.iface = n /\ x.frame = TcpFrame(f, n, r)
    BY <1>2 DEF On
  <1>4. /\ x.frame.type = "ip" /\ x.frame.ttl = 64
        /\ x.frame.tlen = f.tlen - Octets(f)
        /\ x.frame.len = f.len - (IF Octets(f) > 0 THEN Octets(f) ELSE 0) + 4
    BY <1>1, <1>3, TcpFrameFields
  <1>5. /\ Octets(f) \in Nat /\ f.len \in Nat /\ f.len <= MaxFrame /\ f.tlen \in Nat
        /\ f.len = 14 + f.tlen
        /\ f.len - Octets(f) >= 54
    BY <1>1, OctetsOfAnswered
  <1>6. /\ f.tlen - Octets(f) \in UInt16 /\ f.tlen - Octets(f) >= 20
        /\ f.len - Octets(f) + 4 \in Nat
        /\ f.len - Octets(f) + 4 >= 14 /\ f.len - Octets(f) + 4 <= 1600
    BY <1>5 DEF MaxFrame, UInt16
  <1>7. x.frame.len = f.len - Octets(f) + 4
    BY <1>4, <1>5 DEF MaxFrame
  <1>8. 64 \in UInt8 \ {0}
    BY DEF UInt8
  <1>9. QED
    BY <1>3, <1>4, <1>6, <1>7, <1>8 DEF GoodFrame

LEMMA UserFrameGood ==
  ASSUME NEW x, NEW f, UserSegment(x, f) PROVE GoodFrame(x)
  <1>1. PICK r : r.len \in Nat /\ r.len <= 1024 /\ x = On(DEFAULT_TCP_INTERFACE, UserFrame(r))
    BY DEF UserSegment
  <1>2. x.iface = 0 /\ x.frame = UserFrame(r)
    BY <1>1 DEF On, DEFAULT_TCP_INTERFACE
  <1>3. 0 \in Interfaces
    BY InterfacesAssumption DEF Interfaces
  <1>4. /\ 58 + r.len \in Nat /\ 58 + r.len >= 14 /\ 58 + r.len <= 1600
        /\ 40 + r.len \in UInt16 /\ 40 + r.len >= 20 /\ 64 \in UInt8 \ {0}
    BY <1>1 DEF UInt8, UInt16
  <1>5. QED
    BY <1>2, <1>3, <1>4, UserFields DEF GoodFrame

\* Every frame that leaves has an interface, a length that fits the frame buffer
\* and, if it is a packet, a TTL, for segments framed as netcat's are.
THEOREM StackTypeCorrect ==
  ASSUME SegmentsFramed, NoLengthIsStatus PROVE StackSpec => []StackTypeOK
  <1>1. ASSUME WireInv, NEW k \in DOMAIN wire PROVE GoodFrame(wire[k])
    <2>1. SentFor(wire[k], rx)
      BY <1>1 DEF WireInv
    <2>2. QED
      BY <2>1, ArpFrameGood, ForwardedFrameGood, ErrorFrameGood, TcpFrameGood, UserFrameGood
      DEF SentFor
  <1>2. WireInv => StackTypeOK
    BY <1>1 DEF StackTypeOK, GoodFrame
  <1>3. QED
    BY <1>2, StackInvariant, PTL
=============================================================================
