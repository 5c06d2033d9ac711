--------------------------- MODULE VdeLinksProofs ---------------------------
(***************************************************************************)
(* Proofs about VdeLinks, for every number of interfaces, every bound, and *)
(* both kinds of host: whether poll reports the end of a file as POLLIN or *)
(* not, and whichever frames are above PIPE_BUF.                           *)
(***************************************************************************)
EXTENDS VdeLinks, SequenceTheorems, TLAPS

-----------------------------------------------------------------------------
(* The inductive invariant: the pipe of a link that gave frames only holds *)
(* what its plug has written and the stack has not read.                   *)

\* The stack is between the two reads of a frame of link i.
Reading(i) == pc = "octets" /\ fd = i
InFrame(i) == Reading(i) /\ len \notin {0, Stale}

\* Parts of frames the stack has read, and the plug has written.
Taken(i) == IF InFrame(i) THEN 3 * Len(handled[i]) + 1 ELSE 3 * Len(handled[i])
Written(i) == 3 * sent[i] - owed[i]

\* Part number n that crosses a link.
IsPart(part, n) ==
    \A k \in Nat :
        /\ n = 3 * k - 2 => part = LengthOf(k)
        /\ (n = 3 * k - 1 \/ n = 3 * k) => part = OctetsOf(k)

\* A pipe after w writes and t reads.
Piped(q, t, w) ==
    /\ q \in Seq(Parts)
    /\ Len(q) = w - t
    /\ \A n \in 1 .. Len(q) : IsPart(q[n], t + n)

\* A link that gave frames only. A length is nothing the plug wrote only at the
\* end of the file.
Intact(i) ==
    /\ Piped(from[i], Taken(i), Written(i))
    /\ \A n \in 1 .. Len(handled[i]) : handled[i][n] = n
    /\ InFrame(i) => len = Len(handled[i]) + 1
    /\ Reading(i) /\ len = Stale => from[i] = <<>> /\ ~up[i]

PipeInv(i) ==
    /\ owed[i] > 0 => sent[i] >= 1
    /\ owed[i] = 1 => sent[i] \in Long
    /\ i \notin Dead => Intact(i)
    /\ i \in Dead => ~InFrame(i)

\* The descriptors poll reported that the loop has not come to.
Ahead == {j \in revents : j > fd \/ (j = fd /\ pc = "scan")}

\* What is left of poll's answer still holds.
LoopInv ==
    /\ pc \in {"connect", "length", "octets"} => fd \in Links
    /\ pc \in {"scan", "length", "octets", "send"} => Ahead \subseteq Readable
    /\ pc = "length" => Answers(fd)
    /\ pc = "connect" => \A i \in Links : handled[i] = <<>>

LinksInv == LinksTypeOK /\ (\A i \in Links : PipeInv(i)) /\ LoopInv

-----------------------------------------------------------------------------
(* One write and one read of a pipe.                                       *)

\* A write adds the next part at the end.
LEMMA PipeWrite ==
  ASSUME NEW q, NEW t \in Nat, NEW w \in Nat, Piped(q, t, w),
         NEW part \in Parts, IsPart(part, w + 1)
  PROVE  Piped(Append(q, part), t, w + 1)
  <1>1. q \in Seq(Parts) /\ Len(q) = w - t /\ Len(q) \in Nat
    BY DEF Piped
  <1>2. Append(q, part) \in Seq(Parts) /\ Len(Append(q, part)) = Len(q) + 1
    BY <1>1
  <1>3. ASSUME NEW n \in 1 .. Len(Append(q, part))
        PROVE  IsPart(Append(q, part)[n], t + n)
    <2>1. CASE n \in 1 .. Len(q)
      <3>1. Append(q, part)[n] = q[n]
        BY <1>1, <2>1
      <3>2. QED
        BY <2>1, <3>1 DEF Piped
    <2>2. CASE n = Len(q) + 1
      <3>1. Append(q, part)[n] = part
        BY <1>1, <2>2
      <3>2. t + n = w + 1
        BY <1>1, <2>2
      <3>3. QED
        BY <3>1, <3>2
    <2>3. QED
      BY <1>1, <1>2, <2>1, <2>2
  <1>4. QED
    BY <1>1, <1>2, <1>3 DEF Piped

\* A read takes the first part, which is the next one to be read.
LEMMA PipeRead ==
  ASSUME NEW q, NEW t \in Nat, NEW w \in Nat, Piped(q, t, w), q # <<>>
  PROVE  /\ Piped(Tail(q), t + 1, w)
         /\ Head(q) \in Parts
         /\ IsPart(Head(q), t + 1)
  <1>1. q \in Seq(Parts) /\ Len(q) = w - t /\ Len(q) \in Nat \ {0}
    BY DEF Piped
  <1>2. Tail(q) \in Seq(Parts) /\ Len(Tail(q)) = Len(q) - 1
    BY <1>1
  <1>3. ASSUME NEW n \in 1 .. Len(Tail(q)) PROVE IsPart(Tail(q)[n], t + 1 + n)
    <2>1. Tail(q)[n] = q[n + 1] /\ n + 1 \in 1 .. Len(q)
      BY <1>1, <1>2
    <2>2. IsPart(q[n + 1], t + (n + 1))
      BY <2>1 DEF Piped
    <2>3. t + (n + 1) = t + 1 + n
      BY <1>1
    <2>4. QED
      BY <2>1, <2>2, <2>3
  <1>4. Head(q) = q[1] /\ q[1] \in Parts /\ 1 \in 1 .. Len(q)
    BY <1>1
  <1>5. QED
    BY <1>1, <1>2, <1>3, <1>4 DEF Piped

\* What is left when two parts are taken.
LEMMA TwoParts ==
  ASSUME NEW q \in Seq(Parts), Len(q) >= 2
  PROVE  /\ q # <<>> /\ Head(q) \in Parts
         /\ Tail(q) \in Seq(Parts) /\ Tail(q) # <<>>
         /\ Tail(Tail(q)) \in Seq(Parts)
  <1>1. q # <<>> /\ Head(q) \in Parts
    OBVIOUS
  <1>2. Tail(q) \in Seq(Parts) /\ Len(Tail(q)) = Len(q) - 1
    BY <1>1
  <1>3. Tail(q) # <<>>
    <2>1. Len(Tail(q)) # 0
      BY <1>2
    <2>2. Len(<<>>) = 0
      OBVIOUS
    <2>3. QED
      BY <2>1, <2>2, Zenon
  <1>4. QED
    BY <1>1, <1>2, <1>3

\* The length of frame k is part 3k - 2, and its octets are parts 3k - 1 and 3k.
LEMMA FrameParts ==
  ASSUME NEW k \in Nat \ {0}
  PROVE  /\ IsPart(LengthOf(k), 3 * k - 2) /\ LengthOf(k) \in Parts
         /\ IsPart(OctetsOf(k), 3 * k - 1) /\ IsPart(OctetsOf(k), 3 * k)
         /\ OctetsOf(k) \in Parts
  BY DEF IsPart, LengthOf, OctetsOf, Parts

\* The octets of a frame are put in the pipe in one part or in two.
LEMMA PutOctets ==
  ASSUME NEW q \in Seq(Parts), NEW n \in 1 .. 2, NEW part \in Parts
  PROVE  /\ q \o [m \in 1 .. n |-> part] \in Seq(Parts)
         /\ q \o [m \in 1 .. n |-> part] # <<>>
         /\ n = 1 => q \o [m \in 1 .. n |-> part] = Append(q, part)
         /\ n = 2 => q \o [m \in 1 .. n |-> part] = Append(Append(q, part), part)
  <1> DEFINE r == [m \in 1 .. n |-> part]
  <1>1. r \in Seq(Parts) /\ Len(r) = n /\ \A m \in 1 .. n : r[m] = part
    OBVIOUS
  <1>2. q \o r \in Seq(Parts) /\ Len(q \o r) = Len(q) + n
    BY <1>1
  <1>3. q \o r # <<>>
    <2>1. Len(q \o r) # 0
      BY <1>2
    <2>2. QED
      BY <2>1
  <1>4. ASSUME n = 1 PROVE q \o r = Append(q, part)
    <2>1. r = <<part>>
      BY <1>1, <1>4
    <2>2. QED
      BY <2>1
  <1>5. ASSUME n = 2 PROVE q \o r = Append(Append(q, part), part)
    <2>1. Append(Append(q, part), part) \in Seq(Parts)
          /\ Len(Append(Append(q, part), part)) = Len(q) + 2
      OBVIOUS
    <2>2. ASSUME NEW m \in 1 .. Len(q) + 2
          PROVE  (q \o r)[m] = Append(Append(q, part), part)[m]
      <3>1. CASE m <= Len(q)
        BY <1>1, <3>1
      <3>2. CASE m > Len(q)
        <4>1. m - Len(q) \in 1 .. n /\ (q \o r)[m] = r[m - Len(q)]
          BY <1>1, <1>5, <3>2
        <4>2. Append(Append(q, part), part)[m] = part
          BY <3>2
        <4>3. QED
          BY <1>1, <4>1, <4>2
      <3>3. m <= Len(q) \/ m > Len(q)
        <4>1. m \in Int /\ Len(q) \in Int
          OBVIOUS
        <4>2. QED
          BY <4>1
      <3>4. QED
        BY <3>1, <3>2, <3>3, Zenon
    <2>3. QED
      BY <1>2, <1>5, <2>1, <2>2, SeqEqual
  <1>6. QED
    BY <1>2, <1>3, <1>4, <1>5

-----------------------------------------------------------------------------
(* Types.                                                                  *)

\* A handler's replies are links, and what it handled joins the history.
LEMMA HandleTypes ==
  ASSUME LinksTypeOK, fd \in Links, NEW x \in Nat \cup {Stale}, Handle(x)
  PROVE  /\ out' \in Seq(Links) /\ pc' = "send"
         /\ handled' \in [Links -> Seq(Nat \cup {Stale})]
  <1>1. handled \in [Links -> Seq(Nat \cup {Stale})] /\ handled[fd] \in Seq(Nat \cup {Stale})
    BY DEF LinksTypeOK
  <1>2. Append(handled[fd], x) \in Seq(Nat \cup {Stale})
    BY <1>1
  <1>3. handled' \in [Links -> Seq(Nat \cup {Stale})] /\ pc' = "send"
    BY <1>1, <1>2 DEF Handle
  <1>4. \/ out' = <<>>
        \/ \E j \in Links : out' = <<j>>
        \/ \E j \in Links : out' = <<j, j>>
    BY Zenon DEF Handle, Replies
  <1>5. \A j \in Links : <<j>> \in Seq(Links) /\ <<j, j>> \in Seq(Links)
    OBVIOUS
  <1>6. <<>> \in Seq(Links)
    OBVIOUS
  <1>7. QED
    BY <1>3, <1>4, <1>5, <1>6

\* Every step keeps the types, given what the loop knows of fd and of the pipes.
LEMMA TypesKept ==
  ASSUME LinksTypeOK, LoopInv, [Next]_vars
  PROVE  LinksTypeOK'
  <1> USE InterfacesAssumption DEF LinksTypeOK, Links, Fds, STDIN, Ended
  <1>1. ASSUME NEW i \in Links, PlugLength(i) PROVE LinksTypeOK'
    <2>1. LengthOf(sent[i] + 1) \in Parts
      BY DEF LengthOf, Parts
    <2>2. Append(from[i], LengthOf(sent[i] + 1)) \in Seq(Parts)
      BY <2>1
    <2>3. sent' \in [Links -> Nat] /\ owed' \in [Links -> 0 .. 2]
          /\ from' \in [Links -> Seq(Parts)]
      BY <1>1, <2>2 DEF PlugLength
    <2>4. QED
      BY <1>1, <2>3 DEF PlugLength, stackVars, userVars
  <1>2. ASSUME NEW i \in Links, PlugOctets(i) PROVE LinksTypeOK'
    <2>1. OctetsOf(sent[i]) \in Parts
      BY DEF OctetsOf, Parts
    <2>2. PICK n \in 1 .. owed[i] :
             /\ owed' = [owed EXCEPT ![i] = @ - n]
             /\ from' = [from EXCEPT ![i] = @ \o [m \in 1 .. n |-> OctetsOf(sent[i])]]
      BY <1>2 DEF PlugOctets
    <2>3. owed[i] \in 0 .. 2 /\ n \in 1 .. 2 /\ owed[i] - n \in 0 .. 2
      BY <2>2
    <2>4. from[i] \o [m \in 1 .. n |-> OctetsOf(sent[i])] \in Seq(Parts)
      BY <2>1, <2>3, PutOctets
    <2>5. owed' \in [Links -> 0 .. 2] /\ from' \in [Links -> Seq(Parts)]
      BY <2>2, <2>3, <2>4
    <2>6. QED
      BY <1>2, <2>5 DEF PlugOctets, stackVars, userVars
  <1>3. ASSUME NEW i \in Links, PlugExit(i) PROVE LinksTypeOK'
    BY <1>3 DEF PlugExit, stackVars, userVars
  <1>4. CASE Type
    <2>1. stdin' \in {stdin, stdin + 1} /\ eof' \in {eof, TRUE}
      BY <1>4 DEF Type
    <2>2. stdin' \in Nat /\ eof' \in BOOLEAN
      <3>1. eof \in BOOLEAN /\ stdin \in Nat
        OBVIOUS
      <3>2. stdin' \in Nat
        BY <2>1, <3>1
      <3>3. eof' \in BOOLEAN
        BY <2>1, <3>1, Zenon
      <3>4. QED
        BY <3>2, <3>3
    <2>3. UNCHANGED <<up, sent, owed, from, pc, fd, revents, len, out, handled>>
      BY <1>4 DEF Type, stackVars, plugVars
    <2>4. QED
      BY <2>2, <2>3
  <1>5. CASE Connect
    <2>1. fd \in Links /\ up' \in [Links -> BOOLEAN]
      BY <1>5 DEF Connect, LoopInv
    <2>2. fd' \in {fd, fd + 1, 0} /\ (fd' = fd + 1 => fd + 1 < NUMBER_INTERFACES)
      BY <1>5 DEF Connect
    <2>3. fd' \in Fds
      BY <2>1, <2>2
    <2>4. pc' \in {"connect", "poll", "exited"}
      BY <1>5 DEF Connect
    <2>5. UNCHANGED <<sent, owed, from, stdin, eof, revents, len, out, handled>>
      BY <1>5 DEF Connect, userVars
    <2>6. QED
      BY <2>1, <2>3, <2>4, <2>5
  <1>6. CASE Poll
    <2>1. revents' \in SUBSET Fds
      BY <1>6 DEF Poll, Readable
    <2>2. QED
      BY <1>6, <2>1 DEF Poll, plugVars, userVars
  <1>7. ASSUME Skip \/ ReadNothing \/ Return PROVE LinksTypeOK'
    <2>0. AfterFd
      BY <1>7 DEF Skip, ReadNothing, Return
    <2>1. fd' \in Fds /\ pc' \in {"scan", "poll"}
      BY <2>0 DEF AfterFd
    <2>2. UNCHANGED <<up, sent, owed, from, stdin, eof, revents, len, out, handled>>
      BY <1>7 DEF Skip, ReadNothing, Return, plugVars, userVars
    <2>3. QED
      BY <2>1, <2>2
  <1>8. CASE Serve
    BY <1>8 DEF Serve, plugVars, userVars
  <1>9. CASE ReadLength
    <2>1. fd \in Links /\ from[fd] \in Seq(Parts) /\ pc' = "octets"
          /\ UNCHANGED <<up, sent, owed, stdin, eof, fd, revents, out, handled>>
      BY <1>9 DEF ReadLength, LoopInv, plugVars, userVars
    <2>2. CASE from[fd] # <<>>
      <3>1. Head(from[fd]) \in Parts /\ Tail(from[fd]) \in Seq(Parts)
        BY <2>1, <2>2
      <3>2. Head(from[fd])[2] \in Nat
        BY <3>1 DEF Parts
      <3>3. len' \in {Head(from[fd])[2], 0, Stale}
        BY <1>9, <2>2 DEF ReadLength
      <3>4. from' = from \/ from' = [from EXCEPT ![fd] = Tail(@)]
        BY <1>9 DEF ReadLength
      <3>5. from' \in [Links -> Seq(Parts)]
        BY <2>1, <3>1, <3>4
      <3>6. len' \in Nat \cup {Stale}
        <4>1. 0 \in Nat
          OBVIOUS
        <4>2. QED
          BY <3>2, <3>3, <4>1, Zenon
      <3>7. QED
        BY <2>1, <3>5, <3>6
    <2>3. CASE from[fd] = <<>>
      <3>1. len' \in {0, Stale} /\ from' = from
        BY <1>9, <2>3 DEF ReadLength
      <3>2. from' \in [Links -> Seq(Parts)]
        BY <2>1, <3>1, Zenon
      <3>3. len' \in Nat \cup {Stale}
        <4>1. 0 \in Nat
          OBVIOUS
        <4>2. QED
          BY <3>1, <4>1, Zenon
      <3>4. QED
        BY <2>1, <3>2, <3>3
    <2>4. QED
      BY <2>2, <2>3
  <1>10. ASSUME ReadWhole \/ ReadShort \/ ReadGarbage PROVE LinksTypeOK'
    <2>1. fd \in Links /\ from[fd] \in Seq(Parts)
          /\ UNCHANGED <<up, sent, owed, stdin, eof, fd, revents, len>>
      BY <1>10 DEF ReadWhole, ReadShort, ReadGarbage, LoopInv, plugVars, userVars
    <2>2. ASSUME NEW x \in Nat \cup {Stale}, Handle(x), from' \in [Links -> Seq(Parts)]
          PROVE  LinksTypeOK'
      BY <2>1, <2>2, HandleTypes
    <2>3. CASE ReadWhole
      <3>1. Len(from[fd]) >= 2 /\ Handle(Head(from[fd])[2])
            /\ from' = [from EXCEPT ![fd] = Tail(Tail(@))]
        BY <2>3 DEF ReadWhole
      <3>2. Head(from[fd]) \in Parts /\ Tail(Tail(from[fd])) \in Seq(Parts)
        BY <2>1, <3>1, TwoParts
      <3>3. Head(from[fd])[2] \in Nat
        BY <3>2 DEF Parts
      <3>4. from' \in [Links -> Seq(Parts)]
        BY <2>1, <3>1, <3>2
      <3>5. QED
        BY <2>2, <3>1, <3>3, <3>4
    <2>4. CASE ReadShort
      <3>1. from' \in [Links -> Seq(Parts)]
        <4>1. <<>> \in Seq(Parts)
          OBVIOUS
        <4>2. QED
          BY <2>1, <2>4, <4>1 DEF ReadShort
      <3>2. QED
        BY <2>2, <2>4, <3>1 DEF ReadShort
    <2>5. CASE ReadGarbage
      <3>1. PICK n \in 0 .. Len(from[fd]) :
               from' = [from EXCEPT ![fd] = SubSeq(@, n + 1, Len(@))]
        BY <2>5 DEF ReadGarbage
      <3>2. SubSeq(from[fd], n + 1, Len(from[fd])) \in Seq(Parts)
        <4>1. \A m \in (n + 1) .. Len(from[fd]) : from[fd][m] \in Parts
          BY <2>1
        <4>2. n + 1 \in Int /\ Len(from[fd]) \in Int
          BY <2>1
        <4>3. \A m \in 1 .. (Len(from[fd]) + 1 - (n + 1)) :
                 from[fd][(n + 1) + m - 1] \in Parts
          BY <2>1
        <4>4. QED
          BY <4>1, <4>2, <4>3, <2>1
      <3>3. from' \in [Links -> Seq(Parts)]
        BY <2>1, <3>1, <3>2
      <3>4. CASE Handle(Stale)
        BY <2>2, <3>3, <3>4
      <3>5. CASE pc' = "overrun" /\ UNCHANGED <<out, handled>>
        BY <2>1, <3>3, <3>5
      <3>6. QED
        BY <2>5, <3>4, <3>5 DEF ReadGarbage
    <2>6. QED
      BY <1>10, <2>3, <2>4, <2>5
  <1>11. CASE UserLine
    <2>1. 0 \in Links /\ <<>> \in Seq(Links) /\ <<0>> \in Seq(Links)
      BY DEF Links
    <2>2. stdin' \in Nat
      BY <1>11 DEF UserLine
    <2>3. QED
      BY <1>11, <2>1, <2>2 DEF UserLine, plugVars
  <1>12. CASE Send
    <2>1. out \in Seq(Links) /\ out # <<>>
      BY <1>12 DEF Send
    <2>2. Tail(out) \in Seq(Links)
      BY <2>1
    <2>3. out' \in {out, Tail(out)} /\ pc' \in {pc, "killed"}
          /\ UNCHANGED <<up, sent, owed, from, stdin, eof, fd, revents, len, handled>>
      BY <1>12 DEF Send, plugVars, userVars
    <2>4. QED
      BY <2>1, <2>2, <2>3
  <1>13. CASE UNCHANGED vars
    BY <1>13 DEF vars, plugVars, userVars, stackVars
  <1>14. QED
    BY <1>1, <1>2, <1>3, <1>4, <1>5, <1>6, <1>7, <1>8, <1>9, <1>10, <1>11, <1>12,
       <1>13 DEF Next, StackStep

-----------------------------------------------------------------------------
(* The loop.                                                               *)

\* What can be read without blocking stays so while nobody reads it.
LEMMA ReadableKept ==
  ASSUME LinksTypeOK, LinksTypeOK', NEW S \in SUBSET Links,
         \A j \in Links \ S : from[j] # <<>> => from'[j] # <<>>,
         \A j \in Links : ~up[j] => ~up'[j],
         stdin' >= stdin, eof => eof'
  PROVE  /\ \A j \in Readable \ S : j \in Readable'
         /\ \A j \in Links \ S : Answers(j) => Answers(j)'
  <1>1. \A j \in Links \ S : j \in Readable => j \in Readable'
    BY InterfacesAssumption DEF Readable, Links, STDIN
  <1>2. STDIN \in Readable => STDIN \in Readable'
    <2>1. STDIN \notin Links
      BY InterfacesAssumption DEF Links, STDIN
    <2>2. stdin \in Nat
      BY DEF LinksTypeOK
    <2>3. stdin > 0 \/ eof => stdin' > 0 \/ eof'
      <3>1. stdin > 0 => stdin' > 0
        <4>1. stdin' \in Nat
          BY DEF LinksTypeOK
        <4>2. QED
          BY <2>2, <4>1
      <3>2. QED
        BY <3>1, Zenon
    <2>4. QED
      BY <2>1, <2>3, Zenon DEF Readable
  <1>3. \A j \in Readable : j \in Links \/ j = STDIN
    BY DEF Readable
  <1>4. \A j \in Links \ S : Answers(j) => Answers(j)'
    BY Zenon DEF Answers
  <1>5. QED
    BY <1>1, <1>2, <1>3, <1>4, Zenon

\* Every step keeps what poll reported true of the descriptors still ahead.
LEMMA LoopKept ==
  ASSUME LinksInv, LinksTypeOK', [Next]_vars
  PROVE  LoopInv'
  <1> USE DEF LinksInv
  <1>0. /\ fd \in 0 .. NUMBER_INTERFACES /\ NUMBER_INTERFACES \in Nat
        /\ \A j \in revents : j \in 0 .. NUMBER_INTERFACES
        /\ stdin \in Nat
        /\ STDIN = NUMBER_INTERFACES /\ STDIN \notin Links
        /\ Links' = Links /\ STDIN' = STDIN
    BY InterfacesAssumption DEF LinksTypeOK, Fds, Links, STDIN
  <1>1. ASSUME NEW S \in SUBSET Links,
               \A j \in Links \ S : from[j] # <<>> => from'[j] # <<>>,
               \A j \in Links : ~up[j] => ~up'[j],
               stdin' >= stdin, eof => eof'
        PROVE  /\ \A j \in Readable \ S : j \in Readable'
               /\ \A j \in Links \ S : Answers(j) => Answers(j)'
    BY <1>1, ReadableKept
  <1>2. ASSUME \A j \in Links : from[j] # <<>> => from'[j] # <<>>,
               \A j \in Links : ~up[j] => ~up'[j],
               stdin' >= stdin, eof => eof',
               UNCHANGED <<pc, fd, revents, handled>>
        PROVE  LoopInv'
    <2>1. Readable \subseteq Readable' /\ (\A j \in Links : Answers(j) => Answers(j)')
      BY <1>1, <1>2
    <2>2. Ahead' = Ahead
      BY <1>2 DEF Ahead
    <2>3. QED
      BY <1>0, <1>2, <2>1, <2>2 DEF LoopInv, Answers
  <1>3. ASSUME NEW i \in Links, PlugLength(i) PROVE LoopInv'
    <2>1. UNCHANGED <<up, stdin, eof, pc, fd, revents, handled>>
          /\ from' = [from EXCEPT ![i] = Append(@, LengthOf(sent[i] + 1))]
      BY <1>3 DEF PlugLength, stackVars, userVars
    <2>2. \A j \in Links : from[j] # <<>> => from'[j] # <<>>
      <3>1. from \in [Links -> Seq(Parts)]
        BY DEF LinksTypeOK
      <3>2. Append(from[i], LengthOf(sent[i] + 1)) # <<>>
        <4>1. LengthOf(sent[i] + 1) \in Parts /\ from[i] \in Seq(Parts)
          BY <3>1 DEF LengthOf, Parts, LinksTypeOK
        <4>2. Len(Append(from[i], LengthOf(sent[i] + 1))) # 0
          BY <4>1
        <4>3. Len(<<>>) = 0
          OBVIOUS
        <4>4. QED
          BY <4>2, <4>3, Zenon
      <3>3. QED
        BY <2>1, <3>1, <3>2
    <2>3. stdin' >= stdin
      BY <1>0, <2>1
    <2>4. QED
      BY <1>2, <2>1, <2>2, <2>3
  <1>4. ASSUME NEW i \in Links, PlugOctets(i) PROVE LoopInv'
    <2>1. UNCHANGED <<up, stdin, eof, pc, fd, revents, handled>>
      BY <1>4 DEF PlugOctets, stackVars, userVars
    <2>2. PICK n \in 1 .. owed[i] :
             from' = [from EXCEPT ![i] = @ \o [m \in 1 .. n |-> OctetsOf(sent[i])]]
      BY <1>4 DEF PlugOctets
    <2>3. \A j \in Links : from[j] # <<>> => from'[j] # <<>>
      <3>1. from \in [Links -> Seq(Parts)] /\ owed[i] \in 0 .. 2 /\ sent[i] \in Nat
        BY DEF LinksTypeOK
      <3>2. from[i] \o [m \in 1 .. n |-> OctetsOf(sent[i])] # <<>>
        <4>1. OctetsOf(sent[i]) \in Parts /\ from[i] \in Seq(Parts) /\ n \in 1 .. 2
          BY <3>1 DEF OctetsOf, Parts
        <4>2. QED
          BY <4>1, PutOctets
      <3>3. QED
        BY <2>2, <3>1, <3>2
    <2>4. stdin' >= stdin
      BY <1>0, <2>1
    <2>5. QED
      BY <1>2, <2>1, <2>3, <2>4
  <1>5. ASSUME NEW i \in Links, PlugExit(i) PROVE LoopInv'
    <2>1. UNCHANGED <<from, stdin, eof, pc, fd, revents, handled>>
          /\ up' = [up EXCEPT ![i] = FALSE] /\ up \in [Links -> BOOLEAN]
      BY <1>5 DEF PlugExit, stackVars, userVars, LinksTypeOK
    <2>2. stdin' >= stdin /\ \A j \in Links : ~up[j] => ~up'[j]
      BY <1>0, <2>1
    <2>3. QED
      BY <1>2, <2>1, <2>2
  <1>6. CASE Type
    <2>1. UNCHANGED <<up, from, pc, fd, revents, handled>>
      BY <1>6 DEF Type, stackVars, plugVars
    <2>2. stdin' >= stdin
      BY <1>0, <1>6 DEF Type
    <2>3. eof => eof'
      BY <1>6 DEF Type
    <2>4. QED
      BY <1>2, <2>1, <2>2, <2>3
  <1>7. CASE Connect
    <2>1. /\ pc = "connect" /\ fd \in Links /\ UNCHANGED handled
          /\ \/ pc' = pc /\ fd' = fd + 1 /\ fd + 1 < NUMBER_INTERFACES
             \/ pc' \in {"poll", "exited"}
      BY <1>7 DEF Connect, LoopInv
    <2>2. QED
      BY <1>0, <2>1 DEF LoopInv, Links
  <1>8. CASE Poll
    <2>1. /\ pc' = "scan" /\ fd' = 0 /\ revents' = Readable
          /\ UNCHANGED <<up, from, stdin, eof>>
      BY <1>8 DEF Poll, plugVars, userVars
    <2>2. Readable' = Readable /\ Ahead' \subseteq Readable
      BY <2>1 DEF Readable, Ahead
    <2>3. QED
      BY <2>1, <2>2 DEF LoopInv
  <1>9. ASSUME Skip \/ ReadNothing \/ Return PROVE LoopInv'
    <2>1. /\ pc \in {"scan", "octets", "send"} /\ AfterFd
          /\ UNCHANGED <<up, from, stdin, eof, revents, handled>>
      BY <1>9 DEF Skip, ReadNothing, Return, plugVars, userVars
    <2>2. Readable' = Readable
      BY <2>1 DEF Readable
    <2>3. pc' = "poll" \/ (pc' = "scan" /\ fd' = fd + 1)
      BY <2>1 DEF AfterFd
    <2>4. CASE pc' = "scan" /\ fd' = fd + 1
      <3>1. Ahead' \subseteq Ahead
        BY <1>0, <2>1, <2>4 DEF Ahead
      <3>2. QED
        BY <2>1, <2>2, <2>4, <3>1 DEF LoopInv
    <2>5. QED
      BY <2>1, <2>3, <2>4 DEF LoopInv
  <1>10. CASE Serve
    <2>1. /\ pc = "scan" /\ fd \in Links /\ fd \in Ahead /\ pc' = "length"
          /\ UNCHANGED <<up, from, stdin, eof, revents, fd, handled>>
      BY <1>10 DEF Serve, Ahead, plugVars, userVars
    <2>2. Readable' = Readable /\ Ahead' \subseteq Ahead
      BY <2>1 DEF Readable, Ahead
    <2>3. Answers(fd)'
      <3>1. fd \in Readable /\ fd # STDIN
        BY <1>0, <2>1 DEF LoopInv
      <3>2. from[fd] # <<>> \/ ~up[fd]
        BY <3>1, Zenon DEF Readable
      <3>3. QED
        BY <2>1, <3>2 DEF Answers
    <2>4. QED
      BY <2>1, <2>2, <2>3 DEF LoopInv
  <1>11. ASSUME ReadLength \/ ReadWhole \/ ReadShort \/ ReadGarbage PROVE LoopInv'
    <2>1. /\ fd \in Links /\ pc \in {"length", "octets"}
          /\ UNCHANGED <<up, stdin, eof, revents, fd>>
      BY <1>11 DEF ReadLength, ReadWhole, ReadShort, ReadGarbage, LoopInv, plugVars, userVars
    <2>2. pc' \in {"octets", "send", "overrun"}
      BY <1>11 DEF ReadLength, ReadWhole, ReadShort, ReadGarbage, Handle
    <2>3. \A j \in Links \ {fd} : from'[j] = from[j]
      BY <1>11 DEF ReadLength, ReadWhole, ReadShort, ReadGarbage, LinksTypeOK
    <2>4. Ahead' \subseteq Ahead /\ fd \notin Ahead
      BY <1>0, <2>1, <2>2 DEF Ahead
    <2>5. \A j \in Readable \ {fd} : j \in Readable'
      <3>1. {fd} \in SUBSET Links /\ stdin' >= stdin /\ (eof => eof')
        BY <1>0, <2>1
      <3>2. \A j \in Links \ {fd} : from[j] # <<>> => from'[j] # <<>>
        BY <2>3
      <3>3. \A j \in Links : ~up[j] => ~up'[j]
        BY <2>1
      <3>4. QED
        BY <1>1, <3>1, <3>2, <3>3
    <2>6. QED
      BY <2>1, <2>2, <2>4, <2>5 DEF LoopInv
  <1>12. CASE UserLine
    <2>1. fd = STDIN /\ pc' = "send" /\ UNCHANGED <<fd, revents>>
      BY <1>12 DEF UserLine
    <2>2. Ahead' = {}
      BY <1>0, <2>1 DEF Ahead
    <2>3. QED
      BY <2>1, <2>2 DEF LoopInv
  <1>13. CASE Send
    <2>1. /\ pc = "send" /\ pc' \in {"send", "killed"}
          /\ UNCHANGED <<up, from, stdin, eof, fd, revents, handled>>
      BY <1>13 DEF Send, plugVars, userVars
    <2>2. Readable' = Readable /\ (pc' = "send" => Ahead' = Ahead)
      BY <2>1 DEF Readable, Ahead
    <2>3. QED
      BY <2>1, <2>2 DEF LoopInv
  <1>14. CASE UNCHANGED vars
    <2>1. UNCHANGED <<up, from, stdin, eof, pc, fd, revents, handled>>
      BY <1>14 DEF vars, plugVars, userVars, stackVars
    <2>2. stdin' >= stdin
      BY <1>0, <2>1
    <2>3. QED
      BY <1>2, <2>1, <2>2
  <1>15. QED
    BY <1>3, <1>4, <1>5, <1>6, <1>7, <1>8, <1>9, <1>10, <1>11, <1>12, <1>13, <1>14
       DEF Next, StackStep

-----------------------------------------------------------------------------
(* The pipes.                                                              *)

\* The counts are numbers.
LEMMA PipeTypes ==
  ASSUME LinksTypeOK, NEW i \in Links, PipeInv(i)
  PROVE  /\ handled[i] \in Seq(Nat \cup {Stale}) /\ Len(handled[i]) \in Nat
         /\ sent[i] \in Nat /\ owed[i] \in 0 .. 2 /\ from[i] \in Seq(Parts)
         /\ Taken(i) \in Nat /\ Written(i) \in Nat /\ Whole(i) \in Nat
  <1>1. /\ handled[i] \in Seq(Nat \cup {Stale}) /\ sent[i] \in Nat /\ owed[i] \in 0 .. 2
        /\ from[i] \in Seq(Parts)
    BY DEF LinksTypeOK
  <1>2. Len(handled[i]) \in Nat
    BY <1>1
  <1>3. QED
    BY <1>1, <1>2 DEF PipeInv, Taken, Written, Whole

\* The counts of a link that gave frames only.
LEMMA IntactCounts ==
  ASSUME LinksTypeOK, NEW i \in Links, PipeInv(i), Intact(i)
  PROVE  /\ Len(from[i]) \in Nat
         /\ Len(from[i]) = 3 * sent[i] - owed[i] - Taken(i)
         /\ Len(handled[i]) <= Whole(i)
         /\ i \notin Dead
  <1>1. /\ Len(handled[i]) \in Nat /\ sent[i] \in Nat /\ owed[i] \in 0 .. 2
        /\ Taken(i) \in Nat /\ from[i] \in Seq(Parts)
        /\ handled[i] \in Seq(Nat \cup {Stale})
    BY PipeTypes
  <1>2. Len(from[i]) \in Nat /\ Len(from[i]) = 3 * sent[i] - owed[i] - Taken(i)
    <2>1. Len(from[i]) = Written(i) - Taken(i)
      BY DEF Intact, Piped
    <2>2. QED
      BY <1>1, <2>1 DEF Written
  <1>3. 3 * Len(handled[i]) <= Taken(i)
    BY <1>1 DEF Taken
  <1>4. Len(handled[i]) <= Whole(i)
    BY <1>1, <1>2, <1>3 DEF Whole
  <1>5. i \notin Dead
    <2>1. DOMAIN handled[i] = 1 .. Len(handled[i])
      BY <1>1
    <2>2. \A n \in 1 .. Len(handled[i]) : handled[i][n] = n /\ n \in Nat
      BY <1>1 DEF Intact
    <2>3. \A n \in DOMAIN handled[i] : handled[i][n] # Stale
      BY <2>1, <2>2, StaleAssumption
    <2>4. QED
      BY <2>3, Zenon DEF Dead, Holds
  <1>6. QED
    BY <1>2, <1>4, <1>5

\* A step that leaves a link alone keeps its invariant.
LEMMA PipeKept ==
  ASSUME NEW i \in Links, PipeInv(i),
         owed'[i] = owed[i], sent'[i] = sent[i], from'[i] = from[i],
         handled'[i] = handled[i], Reading(i)' /\ ~up[i] => ~up'[i],
         Reading(i)' => Reading(i) /\ len' = len,
         InFrame(i) => InFrame(i)'
  PROVE  PipeInv(i)'
  <1>1. (i \in Dead)' <=> i \in Dead
    BY DEF Dead, Holds, Links
  <1>2. InFrame(i)' <=> InFrame(i)
    BY DEF InFrame
  <1>3. Taken(i)' = Taken(i) /\ Written(i)' = Written(i)
    BY <1>2 DEF Taken, Written
  <1>4. InFrame(i)' => len' = len
    BY DEF InFrame
  <1>5. Intact(i) => Intact(i)'
    BY <1>2, <1>3, <1>4 DEF Intact
  <1>6. QED
    BY <1>1, <1>2, <1>5 DEF PipeInv

\* What is handled as a frame keeps a link intact if it is the next one.
LEMMA HandleOne ==
  ASSUME LinksTypeOK, fd \in Links, fd \notin Dead, NEW x \in Nat \cup {Stale}, Handle(x)
  PROVE  /\ handled' = [handled EXCEPT ![fd] = Append(@, x)]
         /\ handled'[fd] = Append(handled[fd], x)
         /\ Len(handled'[fd]) = Len(handled[fd]) + 1
         /\ \A n \in 1 .. Len(handled[fd]) : handled'[fd][n] = handled[fd][n]
         /\ handled'[fd][Len(handled[fd]) + 1] = x
         /\ Dead' = IF x = Stale THEN Dead \cup {fd} ELSE Dead
  <1>1. handled \in [Links -> Seq(Nat \cup {Stale})] /\ handled[fd] \in Seq(Nat \cup {Stale})
    BY DEF LinksTypeOK
  <1>2. handled' = [handled EXCEPT ![fd] = Append(@, x)]
    BY DEF Handle
  <1>3. handled'[fd] = Append(handled[fd], x)
    BY <1>1, <1>2
  <1>4. /\ Len(handled[fd]) \in Nat
        /\ Len(handled'[fd]) = Len(handled[fd]) + 1
        /\ DOMAIN handled[fd] = 1 .. Len(handled[fd])
        /\ DOMAIN handled'[fd] = 1 .. Len(handled[fd]) + 1
        /\ \A n \in 1 .. Len(handled[fd]) : handled'[fd][n] = handled[fd][n]
        /\ handled'[fd][Len(handled[fd]) + 1] = x
    BY <1>1, <1>3
  <1>5. Holds(handled'[fd], Stale) <=> x = Stale
    <2>1. \A n \in 1 .. Len(handled[fd]) : handled[fd][n] # Stale
      BY <1>4 DEF Dead, Holds
    <2>2. QED
      BY <1>4, <2>1 DEF Holds
  <1>6. \A j \in Links \ {fd} : handled'[j] = handled[j]
    BY <1>1, <1>2
  <1>7. Dead' = IF x = Stale THEN Dead \cup {fd} ELSE Dead
    BY <1>5, <1>6 DEF Dead, Links
  <1>8. QED
    BY <1>2, <1>3, <1>4, <1>7

\* The first part in the pipe of a link that gave frames only: the length of the
\* next frame when the stack is between frames, and its octets when it has read
\* the length; a second part is then those octets too.
LEMMA NextParts ==
  ASSUME LinksTypeOK, NEW i \in Links, PipeInv(i), Intact(i), from[i] # <<>>
  PROVE  /\ ~InFrame(i) => Head(from[i]) = LengthOf(Len(handled[i]) + 1)
         /\ InFrame(i) => Head(from[i]) = OctetsOf(Len(handled[i]) + 1)
         /\ Piped(Tail(from[i]), Taken(i) + 1, Written(i))
  <1> DEFINE L == Len(handled[i])
  <1>1. L \in Nat /\ Taken(i) \in Nat /\ Written(i) \in Nat /\ L + 1 \in Nat
    BY PipeTypes
  <1>2. /\ IsPart(Head(from[i]), Taken(i) + 1)
        /\ Piped(Tail(from[i]), Taken(i) + 1, Written(i))
    BY <1>1, PipeRead DEF Intact
  <1>3. ~InFrame(i) => Head(from[i]) = LengthOf(L + 1)
    <2>1. ~InFrame(i) => Taken(i) + 1 = 3 * (L + 1) - 2
      BY <1>1 DEF Taken
    <2>2. QED
      BY <1>1, <1>2, <2>1 DEF IsPart
  <1>4. InFrame(i) => Head(from[i]) = OctetsOf(L + 1)
    <2>1. InFrame(i) => Taken(i) + 1 = 3 * (L + 1) - 1
      BY <1>1 DEF Taken
    <2>2. QED
      BY <1>1, <1>2, <2>1 DEF IsPart
  <1>5. QED
    BY <1>2, <1>3, <1>4

\* The plug writes the length of its next frame.
LEMMA LengthKept ==
  ASSUME LinksInv, NEW i \in Links, PlugLength(i)
  PROVE  PipeInv(i)'
  <1>1. /\ UNCHANGED <<up, pc, fd, len, handled>> /\ owed[i] = 0
        /\ owed'[i] = 2 /\ sent'[i] = sent[i] + 1
        /\ from'[i] = Append(from[i], LengthOf(sent[i] + 1)) /\ up[i]
    BY DEF PlugLength, stackVars, LinksInv, LinksTypeOK
  <1>2. /\ PipeInv(i) /\ LinksTypeOK
        /\ sent[i] \in Nat /\ Taken(i) \in Nat /\ Written(i) \in Nat
    BY PipeTypes DEF LinksInv
  <1>3. /\ InFrame(i)' <=> InFrame(i)
        /\ Reading(i)' <=> Reading(i)
        /\ (i \in Dead)' <=> i \in Dead
    BY <1>1 DEF InFrame, Reading, Dead, Links
  <1>4. /\ Taken(i)' = Taken(i) /\ Written(i)' = Written(i) + 1
        /\ Written(i) + 1 = 3 * (sent[i] + 1) - 2
    BY <1>1, <1>2, <1>3 DEF Taken, Written
  <1>5. ASSUME Intact(i) PROVE Intact(i)'
    <2>1. Piped(from[i], Taken(i), Written(i))
      BY <1>5 DEF Intact
    <2>2. sent[i] + 1 \in Nat \ {0}
      BY <1>2
    <2>3. LengthOf(sent[i] + 1) \in Parts /\ IsPart(LengthOf(sent[i] + 1), Written(i) + 1)
      BY <1>4, <2>2, FrameParts
    <2>4. Piped(from'[i], Taken(i)', Written(i)')
      BY <1>1, <1>2, <1>4, <2>1, <2>3, PipeWrite
    <2>5. QED
      BY <1>1, <1>3, <1>5, <2>4 DEF Intact
  <1>6. owed'[i] > 0 => sent'[i] >= 1
    BY <1>1, <1>2
  <1>7. QED
    BY <1>1, <1>2, <1>3, <1>5, <1>6 DEF PipeInv

\* The plug writes octets of its frame.
LEMMA OctetsKept ==
  ASSUME LinksInv, NEW i \in Links, PlugOctets(i)
  PROVE  PipeInv(i)'
  <1>1. UNCHANGED <<up, sent, pc, fd, len, handled>> /\ owed[i] > 0 /\ up[i]
    BY DEF PlugOctets, stackVars
  <1>2. /\ PipeInv(i) /\ LinksTypeOK /\ owed[i] \in 0 .. 2 /\ from[i] \in Seq(Parts)
        /\ sent[i] \in Nat /\ Taken(i) \in Nat /\ Written(i) \in Nat
    BY PipeTypes DEF LinksInv
  <1>3. PICK n \in 1 .. owed[i] :
           /\ n = owed[i] \/ sent[i] \in Long
           /\ owed' = [owed EXCEPT ![i] = @ - n]
           /\ from' = [from EXCEPT ![i] = @ \o [m \in 1 .. n |-> OctetsOf(sent[i])]]
    BY DEF PlugOctets
  <1>4. /\ owed'[i] = owed[i] - n
        /\ from'[i] = from[i] \o [m \in 1 .. n |-> OctetsOf(sent[i])]
    BY <1>2, <1>3 DEF LinksTypeOK
  <1>5. n \in 1 .. 2 /\ sent[i] \in Nat \ {0}
    BY <1>1, <1>2, <1>3 DEF PipeInv
  <1>6. /\ InFrame(i)' <=> InFrame(i)
        /\ Reading(i)' <=> Reading(i)
        /\ (i \in Dead)' <=> i \in Dead
    BY <1>1 DEF InFrame, Reading, Dead, Links
  <1>7. /\ Taken(i)' = Taken(i) /\ Written(i)' = Written(i) + n
        /\ Written(i) = 3 * sent[i] - owed[i]
    BY <1>1, <1>2, <1>4, <1>5, <1>6 DEF Taken, Written
  <1>8. ASSUME Intact(i) PROVE Intact(i)'
    <2> DEFINE part == OctetsOf(sent[i])
    <2>1. Piped(from[i], Taken(i), Written(i))
      BY <1>8 DEF Intact
    <2>2. part \in Parts /\ IsPart(part, 3 * sent[i] - 1) /\ IsPart(part, 3 * sent[i])
      BY <1>5, FrameParts
    <2>3. IsPart(part, Written(i) + 1)
      <3>1. Written(i) + 1 = 3 * sent[i] - 1 \/ Written(i) + 1 = 3 * sent[i]
        BY <1>1, <1>2, <1>7
      <3>2. QED
        BY <2>2, <3>1
    <2>4. Piped(Append(from[i], part), Taken(i), Written(i) + 1)
      BY <1>2, <2>1, <2>2, <2>3, PipeWrite
    <2>5. CASE n = 1
      <3>1. from'[i] = Append(from[i], part) /\ Written(i)' = Written(i) + 1
        BY <1>2, <1>4, <1>7, <2>2, <2>5, PutOctets
      <3>2. QED
        BY <1>1, <1>6, <1>7, <1>8, <2>4, <3>1 DEF Intact
    <2>6. CASE n = 2
      <3>1. from'[i] = Append(Append(from[i], part), part)
        BY <1>2, <1>4, <2>2, <2>6, PutOctets
      <3>2. Written(i) + 1 \in Nat /\ Written(i) + 1 + 1 = 3 * sent[i]
            /\ Written(i)' = Written(i) + 1 + 1
        BY <1>2, <1>3, <1>7, <2>6
      <3>3. IsPart(part, Written(i) + 1 + 1)
        BY <2>2, <3>2
      <3>4. Piped(Append(Append(from[i], part), part), Taken(i), Written(i) + 1 + 1)
        BY <1>2, <2>2, <2>4, <3>2, <3>3, PipeWrite
      <3>5. QED
        BY <1>1, <1>6, <1>7, <1>8, <3>1, <3>2, <3>4 DEF Intact
    <2>7. QED
      BY <1>5, <2>5, <2>6
  <1>9. owed'[i] > 0 => sent'[i] >= 1
    BY <1>1, <1>5
  <1>10. owed'[i] = 1 => sent'[i] \in Long
    BY <1>1, <1>2, <1>3, <1>4, <1>5
  <1>11. QED
    BY <1>2, <1>6, <1>8, <1>9, <1>10 DEF PipeInv

\* The stack reads a length.
LEMMA ReadLengthKept ==
  ASSUME LinksInv, ReadLength
  PROVE  PipeInv(fd)'
  <1> DEFINE i == fd
             L == Len(handled[fd])
  <1>1. /\ fd \in Links /\ PipeInv(fd) /\ LinksTypeOK /\ pc = "length" /\ pc' = "octets"
        /\ UNCHANGED <<up, sent, owed, fd, handled>>
    BY DEF ReadLength, LinksInv, LoopInv, plugVars
  <1>2. /\ L \in Nat /\ Taken(fd) \in Nat /\ Written(fd) \in Nat /\ from[fd] \in Seq(Parts)
    BY <1>1, PipeTypes
  <1>3. /\ ~InFrame(fd) /\ Reading(fd)' /\ Written(fd)' = Written(fd)
        /\ Taken(fd) = 3 * L
        /\ (fd \in Dead)' <=> fd \in Dead
    BY <1>1 DEF InFrame, Reading, Dead, Links, Written, Taken
  <1>4. CASE fd \in Dead
    <2>1. len' \in {0, Stale}
      BY <1>4 DEF ReadLength
    <2>2. ~InFrame(fd)'
      BY <2>1 DEF InFrame
    <2>3. QED
      BY <1>1, <1>3, <1>4, <2>2 DEF PipeInv
  <1>5. CASE fd \notin Dead /\ from[fd] # <<>>
    <2>1. len' = Head(from[fd])[2] /\ from' = [from EXCEPT ![fd] = Tail(@)]
      BY <1>5 DEF ReadLength
    <2>2. Intact(fd)
      BY <1>1, <1>5 DEF PipeInv
    <2>3. Head(from[fd]) = LengthOf(L + 1) /\ Piped(Tail(from[fd]), Taken(fd) + 1, Written(fd))
      BY <1>1, <1>3, <1>5, <2>2, NextParts
    <2>4. len' = L + 1
      BY <2>1, <2>3 DEF LengthOf
    <2>5. len' \notin {0, Stale}
      BY <1>2, <2>4, StaleAssumption
    <2>6. InFrame(fd)' /\ Taken(fd)' = Taken(fd) + 1
      BY <1>1, <1>2, <1>3, <2>5 DEF InFrame, Taken
    <2>7. from'[fd] = Tail(from[fd])
      BY <1>1, <2>1 DEF LinksTypeOK
    <2>8. Intact(fd)'
      BY <1>1, <1>3, <2>2, <2>3, <2>4, <2>5, <2>6, <2>7 DEF Intact
    <2>9. QED
      BY <1>1, <1>3, <1>5, <2>8 DEF PipeInv
  <1>6. CASE fd \notin Dead /\ from[fd] = <<>>
    <2>1. len' \in {0, Stale} /\ UNCHANGED from /\ ~up[fd]
      BY <1>6 DEF ReadLength, Answers
    <2>2. ~InFrame(fd)' /\ Taken(fd)' = Taken(fd)
      <3>1. ~InFrame(fd)'
        BY <2>1 DEF InFrame
      <3>2. QED
        BY <1>1, <1>3, <3>1 DEF Taken
    <2>3. Intact(fd)
      BY <1>1, <1>6 DEF PipeInv
    <2>4. Intact(fd)'
      BY <1>1, <1>3, <1>6, <2>1, <2>2, <2>3 DEF Intact
    <2>5. QED
      BY <1>1, <1>3, <1>6, <2>4 DEF PipeInv
  <1>7. QED
    BY <1>4, <1>5, <1>6

\* The stack reads all octets of a frame.
LEMMA ReadWholeKept ==
  ASSUME LinksInv, ReadWhole
  PROVE  /\ PipeInv(fd)'
         /\ fd \in Links /\ fd \notin Dead
         /\ Handle(Len(handled[fd]) + 1)
         /\ Len(handled[fd]) + 1 <= Whole(fd)
  <1> DEFINE L == Len(handled[fd])
  <1>1. /\ fd \in Links /\ PipeInv(fd) /\ LinksTypeOK /\ pc = "octets" /\ pc' = "send"
        /\ UNCHANGED <<up, sent, owed, fd, len>> /\ len \notin {0, Stale}
        /\ Len(from[fd]) >= 2 /\ Handle(Head(from[fd])[2])
        /\ from' = [from EXCEPT ![fd] = Tail(Tail(@))]
    BY DEF ReadWhole, LinksInv, LoopInv, plugVars, Handle
  <1>2. /\ L \in Nat /\ Taken(fd) \in Nat /\ Written(fd) \in Nat /\ from[fd] \in Seq(Parts)
        /\ sent[fd] \in Nat /\ owed[fd] \in 0 .. 2
    BY <1>1, PipeTypes
  <1>3. /\ InFrame(fd) /\ ~InFrame(fd)' /\ ~Reading(fd)' /\ Written(fd)' = Written(fd)
        /\ Taken(fd) = 3 * L + 1 /\ fd \notin Dead
    BY <1>1 DEF InFrame, Reading, Written, Taken, PipeInv
  <1>4. Intact(fd)
    BY <1>1, <1>3 DEF PipeInv
  <1>5. from[fd] # <<>> /\ Tail(from[fd]) # <<>>
    BY <1>1, <1>2, TwoParts
  <1>6. Head(from[fd]) = OctetsOf(L + 1) /\ Piped(Tail(from[fd]), Taken(fd) + 1, Written(fd))
    BY <1>1, <1>3, <1>4, <1>5, NextParts
  <1>7. Piped(Tail(Tail(from[fd])), Taken(fd) + 1 + 1, Written(fd))
    <2>1. Taken(fd) + 1 \in Nat
      BY <1>2
    <2>2. QED
      BY <1>2, <1>5, <1>6, <2>1, PipeRead
  <1>8. Handle(L + 1) /\ L + 1 \in Nat /\ L + 1 # Stale
    BY <1>1, <1>2, <1>6, StaleAssumption DEF OctetsOf
  <1>9. /\ Len(handled'[fd]) = L + 1
        /\ \A n \in 1 .. L : handled'[fd][n] = handled[fd][n]
        /\ handled'[fd][L + 1] = L + 1
        /\ Dead' = Dead
    BY <1>1, <1>3, <1>8, HandleOne
  <1>10. Taken(fd)' = Taken(fd) + 1 + 1
    BY <1>1, <1>2, <1>3, <1>9 DEF Taken
  <1>11. from'[fd] = Tail(Tail(from[fd]))
    BY <1>1 DEF LinksTypeOK
  <1>12. \A n \in 1 .. Len(handled'[fd]) : handled'[fd][n] = n
    <2>1. ASSUME NEW n \in 1 .. L + 1 PROVE handled'[fd][n] = n
      <3>1. CASE n = L + 1
        BY <1>9, <3>1
      <3>2. CASE n \in 1 .. L
        BY <1>4, <1>9, <3>2 DEF Intact
      <3>3. QED
        BY <1>2, <3>1, <3>2
    <2>2. QED
      BY <1>9, <2>1
  <1>13. Intact(fd)'
    BY <1>1, <1>3, <1>7, <1>10, <1>11, <1>12 DEF Intact
  <1>14. Len(handled[fd]) + 1 <= Whole(fd)
    <2>1. Len(from[fd]) = 3 * sent[fd] - owed[fd] - Taken(fd)
      BY <1>1, <1>4, IntactCounts
    <2>2. 3 * L + 3 <= 3 * sent[fd] - owed[fd]
      <3>1. Len(from[fd]) \in Nat /\ Len(from[fd]) >= 2 /\ Taken(fd) = 3 * L + 1
        BY <1>1, <1>2, <1>3
      <3>2. L \in Nat /\ sent[fd] \in Nat /\ owed[fd] \in 0 .. 2
        BY <1>2
      <3> DEFINE s == sent[fd]
                 o == owed[fd]
                 c == Len(from[fd])
      <3>3. L \in Nat /\ s \in Nat /\ o \in 0 .. 2 /\ c \in Nat /\ c >= 2 /\ c = 3 * s - o - (3 * L + 1)
        BY <2>1, <3>1, <3>2
      <3>4. 3 * L + 3 <= 3 * s - o
        <4>. HIDE DEF s, o, c, L
        <4>1. QED
          BY <3>3
      <3>5. QED
        BY <3>4
    <2>3. QED
      BY <1>2, <2>2 DEF Whole
  <1>15. PipeInv(fd)'
    BY <1>1, <1>3, <1>9, <1>13 DEF PipeInv
  <1>16. QED
    BY <1>1, <1>3, <1>8, <1>14, <1>15

\* A link handled as no frame is dead, and the stack is not in a frame of its.
LEMMA HandleStale ==
  ASSUME LinksTypeOK, fd \in Links, PipeInv(fd), Handle(Stale), UNCHANGED <<sent, owed, fd>>
  PROVE  PipeInv(fd)'
  <1>1. ~InFrame(fd)'
    BY DEF Handle, InFrame, Reading
  <1>2. fd \in Dead'
    <2>1. CASE fd \in Dead
      <3>1. handled'[fd] = handled[fd]
        BY <2>1 DEF Handle, LinksTypeOK
      <3>2. QED
        BY <2>1, <3>1 DEF Dead, Links
    <2>2. CASE fd \notin Dead
      BY <2>2, HandleOne
    <2>3. QED
      BY <2>1, <2>2
  <1>3. QED
    BY <1>1, <1>2 DEF PipeInv

\* Every step keeps what is in the pipes and what has been handled.
LEMMA PipesKept ==
  ASSUME LinksInv, [Next]_vars, NEW i \in Links
  PROVE  PipeInv(i)'
  <1>0. PipeInv(i) /\ LinksTypeOK /\ LoopInv
    BY DEF LinksInv
  <1>1. ASSUME NEW j \in Links, PlugLength(j) PROVE PipeInv(i)'
    <2>1. CASE i # j
      <3>1. /\ owed'[i] = owed[i] /\ sent'[i] = sent[i] /\ from'[i] = from[i]
            /\ UNCHANGED <<up, pc, fd, len, handled>>
        BY <1>0, <1>1, <2>1 DEF PlugLength, LinksTypeOK, stackVars
      <3>2. QED
        BY <1>0, <3>1, PipeKept DEF InFrame, Reading
    <2>2. QED
      BY <1>1, <2>1, LengthKept
  <1>2. ASSUME NEW j \in Links, PlugOctets(j) PROVE PipeInv(i)'
    <2>1. CASE i # j
      <3>1. /\ owed'[i] = owed[i] /\ sent'[i] = sent[i] /\ from'[i] = from[i]
            /\ UNCHANGED <<up, pc, fd, len, handled>>
        BY <1>0, <1>2, <2>1 DEF PlugOctets, LinksTypeOK, stackVars
      <3>2. QED
        BY <1>0, <3>1, PipeKept DEF InFrame, Reading
    <2>2. QED
      BY <1>2, <2>1, OctetsKept
  <1>3. ASSUME NEW j \in Links, PlugExit(j) PROVE PipeInv(i)'
    <2>1. UNCHANGED <<sent, owed, from, pc, fd, len, handled>> /\ (~up[i] => ~up'[i])
      BY <1>0, <1>3 DEF PlugExit, stackVars, LinksTypeOK
    <2>2. QED
      BY <1>0, <2>1, PipeKept DEF InFrame, Reading
  <1>4. CASE Type \/ UNCHANGED vars
    <2>1. UNCHANGED <<up, sent, owed, from, pc, fd, len, handled>>
      BY <1>4 DEF Type, vars, stackVars, plugVars
    <2>2. QED
      BY <1>0, <2>1, PipeKept DEF InFrame, Reading
  <1>5. CASE Connect \/ Poll \/ Skip \/ Serve \/ UserLine \/ Send \/ Return
    <2>1. /\ UNCHANGED <<sent, owed, from, handled>>
          /\ pc # "octets" /\ pc' # "octets"
      BY <1>5 DEF Connect, Poll, Skip, Serve, UserLine, Send, Return, AfterFd, plugVars
    <2>2. QED
      BY <1>0, <2>1, PipeKept DEF InFrame, Reading
  <1>6. CASE ReadNothing
    <2>1. /\ UNCHANGED <<sent, owed, from, handled>>
          /\ len = 0 /\ pc' # "octets"
      BY <1>6 DEF ReadNothing, AfterFd, plugVars
    <2>2. QED
      BY <1>0, <2>1, PipeKept DEF InFrame, Reading
  <1>7. CASE ReadLength \/ ReadWhole \/ ReadShort \/ ReadGarbage
    <2>1. CASE i # fd
      <3>1. /\ owed'[i] = owed[i] /\ sent'[i] = sent[i] /\ fd' = fd
            /\ fd \in Links /\ up' = up
        BY <1>0, <1>7 DEF ReadLength, ReadWhole, ReadShort, ReadGarbage, plugVars, LoopInv
      <3>2. handled'[i] = handled[i] /\ from'[i] = from[i]
        BY <1>0, <1>7, <2>1 DEF ReadLength, ReadWhole, ReadShort, ReadGarbage, Handle, LinksTypeOK
      <3>3. QED
        BY <1>0, <2>1, <3>1, <3>2, PipeKept DEF InFrame, Reading
    <2>2. CASE i = fd
      <3>1. CASE ReadLength
        BY <2>2, <3>1, ReadLengthKept DEF ReadLength
      <3>2. CASE ReadWhole
        BY <2>2, <3>2, ReadWholeKept DEF ReadWhole
      <3>3. CASE ReadShort \/ (ReadGarbage /\ Handle(Stale))
        <4>1. Handle(Stale) /\ UNCHANGED <<sent, owed, fd>>
          BY <3>3 DEF ReadShort, ReadGarbage, plugVars
        <4>2. QED
          BY <1>0, <2>2, <4>1, HandleStale
      <3>4. CASE ReadGarbage /\ pc' = "overrun" /\ UNCHANGED <<out, handled>>
        <4>1. /\ len = Stale /\ pc' # "octets" /\ pc = "octets"
              /\ UNCHANGED <<sent, owed, fd, handled, up>>
          BY <3>4 DEF ReadGarbage, plugVars
        <4>2. CASE i \in Dead
          <5>1. (i \in Dead)' /\ ~InFrame(i)'
            BY <4>1, <4>2 DEF InFrame, Reading, Dead, Links
          <5>2. QED
            BY <1>0, <4>1, <5>1 DEF PipeInv
        <4>3. CASE i \notin Dead
          <5>1. from[i] = <<>>
            BY <1>0, <2>2, <4>1, <4>3 DEF PipeInv, Intact, Reading
          <5>2. from'[i] = from[i]
            <6>1. PICK n \in 0 .. Len(from[fd]) :
                     from' = [from EXCEPT ![fd] = SubSeq(@, n + 1, Len(@))]
              BY <3>4 DEF ReadGarbage
            <6>2. n = 0 /\ SubSeq(from[fd], n + 1, Len(from[fd])) = <<>>
              BY <2>2, <5>1, <6>1
            <6>3. QED
              BY <1>0, <2>2, <5>1, <6>1, <6>2 DEF LinksTypeOK
          <5>3. QED
            BY <1>0, <2>2, <4>1, <5>2, PipeKept DEF InFrame, Reading
        <4>4. QED
          BY <4>2, <4>3
      <3>5. QED
        BY <1>7, <3>1, <3>2, <3>3, <3>4 DEF ReadGarbage
    <2>3. QED
      BY <2>1, <2>2
  <1>8. QED
    BY <1>1, <1>2, <1>3, <1>4, <1>5, <1>6, <1>7 DEF Next, StackStep

LEMMA InitInv ==
  Init => LinksInv
  <1> SUFFICES ASSUME Init PROVE LinksInv
    OBVIOUS
  <1> USE InterfacesAssumption
  <1>1. LinksTypeOK
    <2>1. <<>> \in Seq(Parts) /\ <<>> \in Seq(Links) /\ <<>> \in Seq(Nat \cup {Stale})
      OBVIOUS
    <2>2. 0 \in Fds
      BY DEF Fds
    <2>3. /\ up \in [Links -> BOOLEAN] /\ sent \in [Links -> Nat]
          /\ owed \in [Links -> 0 .. 2] /\ from \in [Links -> Seq(Parts)]
          /\ handled \in [Links -> Seq(Nat \cup {Stale})]
      BY <2>1 DEF Init
    <2>4. /\ stdin \in Nat /\ eof \in BOOLEAN /\ fd \in Fds /\ revents \in SUBSET Fds
          /\ len \in Nat \cup {Stale} /\ out \in Seq(Links)
      BY <2>1, <2>2 DEF Init
    <2>5. pc = "connect"
      BY DEF Init
    <2>6. QED
      BY <2>3, <2>4, <2>5 DEF LinksTypeOK
  <1>2. ASSUME NEW i \in Links PROVE PipeInv(i)
    <2>1. /\ owed[i] = 0 /\ sent[i] = 0 /\ from[i] = <<>> /\ handled[i] = <<>>
          /\ Len(handled[i]) = 0 /\ ~Reading(i)
      BY DEF Init, Reading
    <2>2. Taken(i) = 0 /\ Written(i) = 0
      BY <2>1 DEF Taken, Written, InFrame
    <2>3. Piped(from[i], Taken(i), Written(i))
      BY <2>1, <2>2 DEF Piped
    <2>4. i \notin Dead
      BY <2>1 DEF Dead, Holds
    <2>5. QED
      BY <2>1, <2>3, <2>4 DEF PipeInv, Intact, InFrame
  <1>3. LoopInv
    BY DEF Init, LoopInv, Links
  <1>4. QED
    BY <1>1, <1>2, <1>3 DEF LinksInv

\* Every step keeps the inductive invariant.
LEMMA InvKept ==
  ASSUME LinksInv, [Next]_vars
  PROVE  LinksInv'
  <1>1. LinksTypeOK'
    BY TypesKept DEF LinksInv
  <1>2. LoopInv'
    BY <1>1, LoopKept
  <1>3. \A i \in Links : PipeInv(i)'
    BY PipesKept
  <1>4. QED
    BY <1>1, <1>2, <1>3 DEF LinksInv, Links

\* The pipe of a link that gave frames only holds what its plug has written and
\* the stack has not read, and what poll reported holds for every descriptor the
\* loop has not come to (cs431vde.c, and the loop of stack.c), on a host whose
\* poll reports the end of a file as POLLIN and on one whose does not.
THEOREM LinksInvariant == Spec => []LinksInv
  <1>1. LinksInv /\ [Next]_vars => LinksInv'
    BY InvKept
  <1>2. QED
    BY InitInv, <1>1, PTL DEF Spec

\* The types, and with them that the loop indexes pfds inside its bounds.
THEOREM LinksTypeCorrect == Spec => []LinksTypeOK
  <1>1. LinksInv => LinksTypeOK
    BY DEF LinksInv
  <1>2. QED
    BY LinksInvariant, <1>1, PTL

\* The read of a length never blocks. On a link that gave frames only, both ends
\* of the pipe agree where a frame begins, at every point between the writes of
\* the plug and the two reads of receive_ethernet_frame: what is read as a length
\* is one, and the octets read after it are those of its frame.
THEOREM FramingIsKept == Spec => []FramingKept
  <1>1. LinksInv => FramingKept
    <2> SUFFICES ASSUME LinksInv, pc \in {"length", "octets"}
                 PROVE  FramingKept
      BY DEF FramingKept
    <2> DEFINE L == Len(handled[fd])
    <2>1. fd \in Links /\ LinksTypeOK /\ PipeInv(fd)
      BY DEF LinksInv, LoopInv
    <2>2. /\ L \in Nat /\ Taken(fd) \in Nat /\ sent[fd] \in Nat /\ owed[fd] \in 0 .. 2
      BY <2>1, PipeTypes
    <2>3. CASE pc = "length"
      <3>1. Answers(fd) /\ ~InFrame(fd)
        BY <2>3 DEF LinksInv, LoopInv, InFrame, Reading
      <3>2. ASSUME fd \notin Dead, from[fd] # <<>> PROVE Head(from[fd])[1] = "length"
        <4>1. Head(from[fd]) = LengthOf(L + 1)
          BY <2>1, <3>1, <3>2, NextParts DEF PipeInv
        <4>2. QED
          BY <4>1 DEF LengthOf
      <3>3. QED
        BY <2>3, <3>1, <3>2 DEF FramingKept
    <2>4. CASE pc = "octets"
      <3>1. ASSUME fd \notin Dead, len \notin {0, Stale}
            PROVE  \/ from[fd] # <<>> /\ Head(from[fd]) = OctetsOf(len)
                   \/ from[fd] = <<>> /\ owed[fd] = 2
        <4>1. InFrame(fd) /\ Intact(fd) /\ len = L + 1 /\ Taken(fd) = 3 * L + 1
          BY <2>1, <2>4, <3>1 DEF InFrame, Reading, PipeInv, Intact, Taken
        <4>2. CASE from[fd] # <<>>
          BY <2>1, <4>1, <4>2, NextParts
        <4>3. CASE from[fd] = <<>>
          <5>1. Len(from[fd]) = 0 /\ Len(from[fd]) = 3 * sent[fd] - owed[fd] - Taken(fd)
            BY <2>1, <4>1, <4>3, IntactCounts
          <5>2. owed[fd] = 2
            BY <2>2, <4>1, <5>1
          <5>3. QED
            BY <4>3, <5>2
        <4>4. QED
          BY <4>2, <4>3
      <3>2. QED
        BY <2>4, <3>1 DEF FramingKept
    <2>5. QED
      BY <2>3, <2>4
  <1>2. QED
    BY LinksInvariant, <1>1, PTL

-----------------------------------------------------------------------------
(* The refinement.                                                         *)

LEMMA FramesAppend ==
  ASSUME NEW l \in Nat, NEW m \in Nat
  PROVE  /\ Len(Frames(l, m)) = m
         /\ Frames(l, m + 1) = Append(Frames(l, m), m + l + 1)
  <1>1. Frames(l, m) \in Seq(Nat) /\ Len(Frames(l, m)) = m
    BY DEF Frames
  <1>2. /\ Append(Frames(l, m), m + l + 1) \in Seq(Nat)
        /\ Len(Append(Frames(l, m), m + l + 1)) = m + 1
    BY <1>1
  <1>3. Frames(l, m + 1) \in Seq(Nat) /\ Len(Frames(l, m + 1)) = m + 1
    BY DEF Frames
  <1>4. \A n \in 1 .. m + 1 : Frames(l, m + 1)[n] = Append(Frames(l, m), m + l + 1)[n]
    BY <1>1 DEF Frames
  <1>5. QED
    BY <1>1, <1>2, <1>3, <1>4, SeqEqual

LEMMA FramesTail ==
  ASSUME NEW l \in Nat, NEW m \in Nat \ {0}
  PROVE  /\ Frames(l, m) # <<>>
         /\ Head(Frames(l, m)) = l + 1
         /\ Frames(l + 1, m - 1) = Tail(Frames(l, m))
  <1>1. Frames(l, m) \in Seq(Nat) /\ Len(Frames(l, m)) = m /\ Frames(l, m)[1] = l + 1
    BY DEF Frames
  <1>2. Tail(Frames(l, m)) \in Seq(Nat) /\ Len(Tail(Frames(l, m))) = m - 1
    BY <1>1
  <1>3. m - 1 \in Nat
    OBVIOUS
  <1>4. Frames(l + 1, m - 1) \in Seq(Nat) /\ Len(Frames(l + 1, m - 1)) = m - 1
    BY <1>3 DEF Frames
  <1>5. ASSUME NEW n \in 1 .. m - 1
        PROVE  Frames(l + 1, m - 1)[n] = Tail(Frames(l, m))[n]
    <2>1. Tail(Frames(l, m))[n] = Frames(l, m)[n + 1] /\ n + 1 \in 1 .. m
      BY <1>1
    <2>2. Frames(l, m)[n + 1] = l + (n + 1) /\ Frames(l + 1, m - 1)[n] = (l + 1) + n
      BY <2>1 DEF Frames
    <2>3. l + (n + 1) = (l + 1) + n
      OBVIOUS
    <2>4. QED
      BY <2>1, <2>2, <2>3
  <1>6. Frames(l + 1, m - 1) = Tail(Frames(l, m))
    BY <1>2, <1>4, <1>5, SeqEqual
  <1>7. QED
    BY <1>1, <1>6

\* A step that handles nothing and writes no whole frame changes no link's frames.
LEMMA Stutters ==
  ASSUME UNCHANGED handled, \A i \in Links : i \in Dead \/ Whole(i)' = Whole(i)
  PROVE  UNCHANGED <<Transit, handled, Dead>>
  <1>1. Dead' = Dead
    BY DEF Dead, Links
  <1>2. \A i \in Links : Whole(i)' = Whole(i) \/ i \in Dead
    OBVIOUS
  <1>3. Transit' = Transit
    BY <1>1, <1>2 DEF Transit, Links
  <1>4. QED
    BY <1>1, <1>3

\* The write that completes a frame puts it in transit, unless the link is dead.
LEMMA OctetsEnter ==
  ASSUME LinksInv, NEW i \in Links, PlugOctets(i)
  PROVE  \/ /\ i \notin Dead
            /\ Transit' = [Transit EXCEPT ![i] =
                               Append(@, Len(Transit[i]) + Len(handled[i]) + 1)]
            /\ UNCHANGED <<handled, Dead>>
         \/ UNCHANGED <<Transit, handled, Dead>>
  <1> DEFINE L == Len(handled[i])
             M == Whole(i) - L
  <1>1. LinksTypeOK /\ PipeInv(i)
    BY DEF LinksInv
  <1>2. UNCHANGED <<sent, handled>> /\ owed[i] > 0 /\ up[i]
    BY DEF PlugOctets, stackVars
  <1>3. PICK n \in 1 .. owed[i] : owed' = [owed EXCEPT ![i] = @ - n]
    BY DEF PlugOctets
  <1>4. L \in Nat /\ Whole(i) \in Nat /\ sent[i] \in Nat /\ owed[i] \in 0 .. 2
    BY <1>1, PipeTypes
  <1>5. owed'[i] = owed[i] - n
    BY <1>1, <1>3 DEF LinksTypeOK
  <1>6. \A j \in Links \ {i} : Whole(j)' = Whole(j)
    BY <1>1, <1>2, <1>3 DEF Whole, LinksTypeOK
  <1>7. CASE i \notin Dead /\ n = owed[i]
    <2>1. L <= Whole(i)
      BY <1>1, <1>7, IntactCounts DEF PipeInv
    <2>2. M \in Nat
      BY <1>4, <2>1
    <2>3. owed'[i] = 0 /\ sent'[i] = sent[i]
      BY <1>2, <1>4, <1>5, <1>7
    <2>4. Whole(i)' = Whole(i) + 1
      BY <1>2, <1>4, <2>3 DEF Whole
    <2>5. Whole(i)' - Len(handled'[i]) = M + 1
      BY <1>2, <1>4, <2>4
    <2>6. Frames(L, M + 1) = Append(Frames(L, M), Len(Frames(L, M)) + L + 1)
      BY <1>4, <2>2, FramesAppend
    <2>7. Transit[i] = Frames(L, M)
      BY <1>7 DEF Transit
    <2>8. Dead' = Dead
      BY <1>2 DEF Dead, Links
    <2>9. Transit' = [Transit EXCEPT ![i] = Frames(L, M + 1)]
      BY <1>2, <1>6, <1>7, <2>5, <2>8 DEF Transit, Links
    <2>10. QED
      BY <1>2, <1>7, <2>6, <2>7, <2>8, <2>9
  <1>8. CASE i \in Dead \/ n # owed[i]
    <2>1. i \in Dead \/ Whole(i)' = Whole(i)
      <3>1. n # owed[i] => owed'[i] > 0
        BY <1>4, <1>5
      <3>2. QED
        BY <1>2, <1>8, <3>1 DEF Whole
    <2>2. QED
      BY <1>2, <1>6, <2>1, Stutters
  <1>9. QED
    BY <1>7, <1>8

\* The read of all octets of a frame delivers the first frame in transit.
LEMMA ReadDelivers ==
  ASSUME LinksInv, ReadWhole
  PROVE  /\ fd \in Links /\ fd \notin Dead
         /\ Transit[fd] # <<>>
         /\ handled' = [handled EXCEPT ![fd] = Append(@, Head(Transit[fd]))]
         /\ Transit' = [Transit EXCEPT ![fd] = Tail(@)]
         /\ UNCHANGED Dead
  <1> DEFINE L == Len(handled[fd])
             M == Whole(fd) - L
  <1>1. /\ fd \in Links /\ fd \notin Dead /\ Handle(L + 1) /\ L + 1 <= Whole(fd)
        /\ UNCHANGED <<fd, owed, sent>> /\ LinksTypeOK /\ PipeInv(fd)
    BY ReadWholeKept DEF ReadWhole, plugVars, LinksInv
  <1>2. L \in Nat /\ Whole(fd) \in Nat /\ handled \in [Links -> Seq(Nat \cup {Stale})]
    BY <1>1, PipeTypes DEF LinksTypeOK
  <1>3. L + 1 \in Nat /\ L + 1 # Stale
    BY <1>2, StaleAssumption
  <1>4. /\ handled' = [handled EXCEPT ![fd] = Append(@, L + 1)]
        /\ Len(handled'[fd]) = L + 1 /\ Dead' = Dead
    BY <1>1, <1>3, HandleOne
  <1>5. \A j \in Links : Whole(j)' = Whole(j)
    BY <1>1 DEF Whole
  <1>6. Transit[fd] = Frames(L, M)
    BY <1>1 DEF Transit
  <1>7. M \in Nat \ {0} /\ Whole(fd)' - Len(handled'[fd]) = M - 1
    BY <1>1, <1>2, <1>4, <1>5
  <1>8. Transit[fd] # <<>> /\ Head(Transit[fd]) = L + 1 /\ Frames(L + 1, M - 1) = Tail(Transit[fd])
    BY <1>2, <1>6, <1>7, FramesTail
  <1>9. \A j \in Links \ {fd} : handled'[j] = handled[j]
    BY <1>2, <1>4
  <1>10. Transit' = [Transit EXCEPT ![fd] = Tail(@)]
    <2>1. (Transit[fd])' = Tail(Transit[fd])
      BY <1>1, <1>4, <1>7, <1>8 DEF Transit
    <2>2. \A j \in Links \ {fd} : (Transit[j])' = Transit[j]
      BY <1>4, <1>5, <1>9 DEF Transit, Links
    <2>3. QED
      BY <1>1, <2>1, <2>2 DEF Transit, Links
  <1>11. QED
    BY <1>1, <1>4, <1>8, <1>10

\* Where the pipe of a frame that is not all there ends.
LEMMA InsideFrame ==
  ASSUME NEW s \in Nat, NEW l \in Nat, NEW o \in 0 .. 2, NEW c \in {0, 1},
         c = 3 * s - o - (3 * l + 1)
  PROVE  o \in {1, 2} /\ s = l + 1 /\ (o = 2 => c = 0)
  <1>1. ~(s <= l)
    <2>1. s <= l => 3 * s <= 3 * l
      OBVIOUS
    <2>2. QED
      BY <2>1
  <1>2. ~(s >= l + 2)
    <2>1. s >= l + 2 => 3 * s >= 3 * l + 6
      OBVIOUS
    <2>2. QED
      BY <2>1
  <1>3. s = l + 1
    BY <1>1, <1>2
  <1>4. QED
    BY <1>3

\* What is no frame is handled only when every whole frame has been, and only of a
\* link whose plug has exited or in place of a long frame. It is the last thing.
LEMMA StaleCuts ==
  ASSUME LinksInv, ReadShort \/ (ReadGarbage /\ Handle(Stale)), fd \notin Dead
  PROVE  /\ Transit[fd] = <<>>
         /\ ~up[fd] \/ Len(handled[fd]) + 1 \in Long
         /\ handled' = [handled EXCEPT ![fd] = Append(@, Stale)]
         /\ Dead' = Dead \cup {fd}
         /\ UNCHANGED Transit
  <1> DEFINE L == Len(handled[fd])
  <1>1. /\ fd \in Links /\ LinksTypeOK /\ PipeInv(fd) /\ Handle(Stale) /\ pc = "octets"
        /\ UNCHANGED <<fd, owed, sent>>
    BY DEF LinksInv, LoopInv, ReadShort, ReadGarbage, plugVars
  <1>2. /\ L \in Nat /\ Whole(fd) \in Nat /\ handled \in [Links -> Seq(Nat \cup {Stale})]
        /\ sent[fd] \in Nat /\ owed[fd] \in 0 .. 2 /\ Taken(fd) \in Nat
    BY <1>1, PipeTypes DEF LinksTypeOK
  <1>3. /\ Intact(fd) /\ Len(from[fd]) \in Nat
        /\ Len(from[fd]) = 3 * sent[fd] - owed[fd] - Taken(fd)
    BY <1>1, IntactCounts DEF PipeInv
  <1>4. Whole(fd) = L /\ (~up[fd] \/ L + 1 \in Long)
    <2>1. CASE ReadShort
      <3>1. /\ Len(from[fd]) < 2 /\ (from[fd] # <<>> \/ ~up[fd]) /\ InFrame(fd)
        BY <1>1, <2>1 DEF ReadShort, Answers, InFrame, Reading
      <3>2. Taken(fd) = 3 * L + 1
        BY <3>1 DEF Taken
      <3>3. /\ owed[fd] \in {1, 2} /\ sent[fd] = L + 1
            /\ owed[fd] = 2 => Len(from[fd]) = 0
        <4> DEFINE s == sent[fd]
                   o == owed[fd]
                   c == Len(from[fd])
        <4>1. s \in Nat /\ L \in Nat /\ o \in 0 .. 2 /\ c \in {0, 1}
          BY <1>2, <1>3, <3>1
        <4>2. c = 3 * s - o - (3 * L + 1)
          BY <1>3, <3>2
        <4>3. o \in {1, 2} /\ s = L + 1 /\ (o = 2 => c = 0)
          <5>. HIDE DEF s, o, c, L
          <5>1. QED
            BY <4>1, <4>2, InsideFrame
        <4>4. QED
          BY <4>3
      <3>4. from[fd] = <<>> \/ owed[fd] = 1
        <4>1. from[fd] \in Seq(Parts)
          BY <1>3 DEF Intact, Piped
        <4>2. QED
          BY <3>3, <4>1
      <3>5. owed[fd] = 1 => L + 1 \in Long
        BY <1>1, <3>3 DEF PipeInv
      <3>6. Whole(fd) = L
        BY <1>2, <3>3 DEF Whole
      <3>7. QED
        BY <3>1, <3>4, <3>5, <3>6
    <2>2. CASE ReadGarbage
      <3>1. /\ from[fd] = <<>> /\ ~up[fd] /\ ~InFrame(fd)
        BY <1>1, <1>3, <2>2 DEF ReadGarbage, Intact, InFrame, Reading
      <3>2. Taken(fd) = 3 * L /\ Len(from[fd]) = 0
        BY <3>1 DEF Taken
      <3>3. owed[fd] = 0 /\ sent[fd] = L
        BY <1>2, <1>3, <3>2
      <3>4. QED
        BY <3>1, <3>3 DEF Whole
    <2>3. QED
      BY <2>1, <2>2
  <1>5. Transit[fd] = <<>>
    <2>1. Transit[fd] = Frames(L, 0)
      BY <1>1, <1>2, <1>4 DEF Transit
    <2>2. QED
      BY <2>1 DEF Frames
  <1>6. /\ handled' = [handled EXCEPT ![fd] = Append(@, Stale)]
        /\ Dead' = Dead \cup {fd}
    BY <1>1, HandleOne
  <1>7. UNCHANGED Transit
    <2>1. (Transit[fd])' = <<>>
      BY <1>1, <1>6 DEF Transit
    <2>2. \A j \in Links \ {fd} : handled'[j] = handled[j] /\ Whole(j)' = Whole(j)
      BY <1>1, <1>2, <1>6 DEF Whole
    <2>3. \A j \in Links \ {fd} : (Transit[j])' = Transit[j]
      BY <1>6, <2>2 DEF Transit, Links
    <2>4. \A j \in Links : (Transit[j])' = Transit[j]
      BY <1>1, <1>5, <2>1, <2>3
    <2>5. QED
      BY <2>4 DEF Transit, Links
  <1>8. QED
    BY <1>4, <1>5, <1>6, <1>7

\* The loop implements FrameDelivery: every frame of a link is handled whole, once
\* and in order, whatever is served in between, until the plug has exited or a
\* frame above PIPE_BUF was cut; and only then is anything else handled.
THEOREM LinksImplementDelivery == Spec => ImplementsDelivery
  <1>1. Init => Delivery!FDInit
    <2> SUFFICES ASSUME Init PROVE Delivery!FDInit
      OBVIOUS
    <2>1. \A i \in Links : handled[i] = <<>> /\ Whole(i) = 0 /\ ~up[i]
      BY DEF Init, Whole
    <2>2. Dead = {}
      BY <2>1 DEF Dead, Holds
    <2>3. \A i \in Links : Frames(Len(handled[i]), Whole(i) - Len(handled[i])) = <<>>
      BY <2>1 DEF Frames
    <2>4. Transit = [i \in Links |-> <<>>]
      BY <2>2, <2>3 DEF Transit
    <2>5. QED
      BY <2>1, <2>2, <2>4 DEF Init, Delivery!FDInit
  <1>2. LinksInv /\ [Next]_vars => [Delivery!FDNext]_(Delivery!fdVars)
    <2> SUFFICES ASSUME LinksInv, [Next]_vars
                 PROVE  Delivery!FDNext \/ UNCHANGED Delivery!fdVars
      OBVIOUS
    <2> DEFINE Up == {i \in Links : up[i]}
    <2>0. LinksTypeOK /\ LoopInv
      BY DEF LinksInv
    <2>1. ASSUME NEW i \in Links, PlugOctets(i)
          PROVE  Delivery!FDNext \/ UNCHANGED Delivery!fdVars
      <3>1. UNCHANGED up /\ up[i]
        BY <2>1 DEF PlugOctets
      <3>2. CASE UNCHANGED <<Transit, handled, Dead>>
        BY <3>1, <3>2 DEF Delivery!fdVars
      <3>3. CASE /\ i \notin Dead
                 /\ Transit' = [Transit EXCEPT ![i] =
                                    Append(@, Len(Transit[i]) + Len(handled[i]) + 1)]
                 /\ UNCHANGED <<handled, Dead>>
        <4>1. Delivery!Enter(i)
          BY <3>1, <3>3 DEF Delivery!Enter
        <4>2. QED
          BY <4>1 DEF Delivery!FDNext
      <3>4. QED
        BY <2>1, <3>2, <3>3, OctetsEnter
    <2>2. CASE ReadWhole
      <3>1. UNCHANGED up
        BY <2>2 DEF ReadWhole, plugVars
      <3>2. PICK i \in Links : i = fd
        BY <2>2, ReadDelivers
      <3>3. Delivery!Deliver(i)
        BY <2>2, <3>1, <3>2, ReadDelivers DEF Delivery!Deliver
      <3>4. QED
        BY <3>3 DEF Delivery!FDNext
    <2>3. CASE ReadShort \/ (ReadGarbage /\ Handle(Stale))
      <3>1. UNCHANGED <<up, sent, owed>> /\ fd \in Links /\ Handle(Stale)
        BY <2>0, <2>3 DEF ReadShort, ReadGarbage, plugVars, LoopInv
      <3>2. CASE fd \notin Dead
        <4>1. PICK i \in Links : i = fd
          BY <3>1
        <4>2. i \notin Up \/ Len(handled[i]) + 1 \in Long
          BY <2>3, <3>2, <4>1, StaleCuts
        <4>3. Delivery!Cut(i)
          BY <2>3, <3>1, <3>2, <4>1, <4>2, StaleCuts DEF Delivery!Cut
        <4>4. QED
          BY <4>3 DEF Delivery!FDNext
      <3>3. CASE fd \in Dead
        <4>1. UNCHANGED handled
          BY <2>0, <3>1, <3>3 DEF Handle, LinksTypeOK
        <4>2. \A j \in Links : Whole(j)' = Whole(j)
          BY <3>1 DEF Whole
        <4>3. QED
          BY <3>1, <4>1, <4>2, Stutters DEF Delivery!fdVars
      <3>4. QED
        BY <3>2, <3>3
    <2>4. ASSUME UNCHANGED handled, \A j \in Links : Whole(j)' = Whole(j), UNCHANGED up
          PROVE  UNCHANGED Delivery!fdVars
      BY <2>4, Stutters DEF Delivery!fdVars
    <2>5. ASSUME NEW i \in Links, PlugLength(i) PROVE UNCHANGED Delivery!fdVars
      <3>1. UNCHANGED <<handled, up>> /\ owed[i] = 0
            /\ sent' = [sent EXCEPT ![i] = @ + 1] /\ owed' = [owed EXCEPT ![i] = 2]
        BY <2>5 DEF PlugLength, stackVars
      <3>2. \A j \in Links : Whole(j)' = Whole(j)
        BY <2>0, <3>1 DEF Whole, LinksTypeOK
      <3>3. QED
        BY <2>4, <3>1, <3>2
    <2>6. CASE \/ Poll \/ Skip \/ Serve \/ ReadLength \/ ReadNothing \/ UserLine \/ Send
               \/ Return \/ Type \/ UNCHANGED vars
               \/ (ReadGarbage /\ pc' = "overrun" /\ UNCHANGED <<out, handled>>)
      <3>1. UNCHANGED <<handled, sent, owed, up>>
        BY <2>6 DEF Poll, Skip, Serve, ReadLength, ReadNothing, UserLine, Send, Return,
                    Type, ReadGarbage, vars, plugVars, stackVars
      <3>2. \A j \in Links : Whole(j)' = Whole(j)
        BY <3>1 DEF Whole
      <3>3. QED
        BY <2>4, <3>1, <3>2
    <2>7. ASSUME NEW i \in Links, PlugExit(i) PROVE Delivery!FDNext
      <3>1. /\ up[i] /\ up' = [up EXCEPT ![i] = FALSE] /\ up \in [Links -> BOOLEAN]
            /\ UNCHANGED <<handled, sent, owed>>
        BY <2>0, <2>7 DEF PlugExit, stackVars, LinksTypeOK
      <3>2. i \in Up /\ Up' = Up \ {i}
        BY <3>1 DEF Links
      <3>3. UNCHANGED <<Transit, handled, Dead>>
        <4>1. \A j \in Links : Whole(j)' = Whole(j)
          BY <3>1 DEF Whole
        <4>2. QED
          BY <3>1, <4>1, Stutters
      <3>4. Delivery!Close(i)
        BY <3>2, <3>3 DEF Delivery!Close
      <3>5. QED
        BY <3>4 DEF Delivery!FDNext
    <2>8. CASE Connect
      <3>1. /\ fd \in Links /\ UNCHANGED <<handled, sent, owed>> /\ handled[fd] = <<>>
            /\ up' = [up EXCEPT ![fd] = TRUE] \/ UNCHANGED up
        BY <2>0, <2>8 DEF Connect, LoopInv
      <3>2. UNCHANGED <<Transit, handled, Dead>>
        <4>1. \A j \in Links : Whole(j)' = Whole(j)
          BY <3>1 DEF Whole
        <4>2. QED
          BY <3>1, <4>1, Stutters
      <3>3. CASE UNCHANGED up
        BY <3>2, <3>3 DEF Delivery!fdVars
      <3>4. CASE up' = [up EXCEPT ![fd] = TRUE] /\ ~up[fd]
        <4>1. PICK i \in Links : i = fd
          BY <3>1
        <4>2. i \notin Up /\ Up' = Up \cup {i}
          BY <2>0, <3>4, <4>1 DEF LinksTypeOK, Links
        <4>3. i \notin Dead
          BY <3>1, <4>1 DEF Dead, Holds
        <4>4. Delivery!Open(i)
          BY <3>2, <4>2, <4>3 DEF Delivery!Open
        <4>5. QED
          BY <4>4 DEF Delivery!FDNext
      <3>5. CASE up' = [up EXCEPT ![fd] = TRUE] /\ up[fd]
        <4>1. UNCHANGED Up
          BY <2>0, <3>1, <3>5 DEF LinksTypeOK, Links
        <4>2. QED
          BY <3>2, <4>1 DEF Delivery!fdVars
      <3>6. QED
        BY <3>1, <3>3, <3>4, <3>5
    <2>9. QED
      BY <2>1, <2>2, <2>3, <2>5, <2>6, <2>7, <2>8 DEF Next, StackStep, ReadGarbage
  <1>3. QED
    BY <1>1, <1>2, LinksInvariant, PTL DEF Spec, ImplementsDelivery, Delivery!FDSpec
=============================================================================
