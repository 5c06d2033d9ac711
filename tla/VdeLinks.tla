------------------------------ MODULE VdeLinks ------------------------------
(***************************************************************************)
(* The poll loop of src/stack.c over the pipes of src/cs431vde.c. A link   *)
(* is a vde_plug process, external to the repository, with a pipe in each  *)
(* direction; a frame crosses a pipe as its length and then its octets,    *)
(* here in two parts, which the stack takes with one read of the length    *)
(* and one of the octets. What the handlers do with a frame is in Stack;   *)
(* here they send some frames and return.                                  *)
(*                                                                         *)
(* Two things depend on the host. configuration.md names FreeBSD, where    *)
(* poll(2) reports POLLIN for a pipe at its end of file (Linux reports     *)
(* POLLHUP alone), and where PIPE_BUF is 512, so that the write of a       *)
(* longer frame may be cut when the pipe has no room for all of it (on     *)
(* Linux PIPE_BUF is 4096, more than any frame).                           *)
(*                                                                         *)
(* Pipes towards the plugs never fill: a round of the loop writes a few    *)
(* frames to a link, and a plug reads its pipe between the frames it       *)
(* writes.                                                                 *)
(***************************************************************************)
EXTENDS Naturals, Sequences

CONSTANTS
    NUMBER_INTERFACES,
    POLLIN_AT_EOF,  \* whether poll reports POLLIN at the end of a file
    Long,           \* the frames of a link longer than PIPE_BUF, by number
    Stale,          \* what read(2) left as it was, where it was to put something
    PipeRoom,       \* parts of frames a pipe has room for
    MaxFrames,      \* bound: frames a switch sends on a link
    MaxLines        \* bound: lines the user types

ASSUME InterfacesAssumption == NUMBER_INTERFACES \in Nat \ {0}
ASSUME HostAssumption == POLLIN_AT_EOF \in BOOLEAN /\ Long \subseteq Nat
ASSUME StaleAssumption == Stale \notin Nat
ASSUME RoomAssumption == PipeRoom \in Nat \ {0, 1}      \* octets of PIPE_BUF fit

Links == 0 .. (NUMBER_INTERFACES - 1)
STDIN == NUMBER_INTERFACES          \* its index in pfds
Fds   == 0 .. NUMBER_INTERFACES

VARIABLES
    up,         \* whether the plug of each link runs
    sent,       \* frames each plug has begun to write
    owed,       \* parts of the last one's octets it has still to write
    from,       \* the pipe from each plug: parts of frames
    stdin,      \* lines that wait on standard input
    eof,        \* whether standard input ends after them
    pc,         \* where the stack is
    fd,         \* the loop's index into pfds
    revents,    \* indices poll reported POLLIN for
    len,        \* what nbo_len holds: the frame whose length it is, or 0, or Stale
    out,        \* links the handler still has to send a frame on
    handled     \* history: what was handled from each link, to the first Stale

plugVars == <<up, sent, owed>>
userVars == <<stdin, eof>>
stackVars == <<pc, fd, revents, len, out, handled>>
vars == <<plugVars, from, userVars, stackVars>>

LengthOf(k) == <<"length", k>>
OctetsOf(k) == <<"octets", k>>

Holds(seq, x) == \E n \in DOMAIN seq : seq[n] = x

\* Links that gave the stack what was no frame.
Dead == {i \in Links : Holds(handled[i], Stale)}

Init ==
    /\ up = [i \in Links |-> FALSE]
    /\ sent = [i \in Links |-> 0]
    /\ owed = [i \in Links |-> 0]
    /\ from = [i \in Links |-> <<>>]
    /\ stdin = 0 /\ eof = FALSE
    /\ pc = "connect" /\ fd = 0 /\ revents = {} /\ len = 0 /\ out = <<>>
    /\ handled = [i \in Links |-> <<>>]

-----------------------------------------------------------------------------
(* The plugs and the user.                                                 *)

Room(i) == PipeRoom - Len(from[i])

PlugLength(i) ==
    /\ up[i] /\ owed[i] = 0 /\ sent[i] < MaxFrames
    /\ Room(i) >= 1
    /\ sent' = [sent EXCEPT ![i] = @ + 1]
    /\ owed' = [owed EXCEPT ![i] = 2]
    /\ from' = [from EXCEPT ![i] = Append(@, LengthOf(sent[i] + 1))]
    /\ UNCHANGED <<up, userVars, stackVars>>

\* The octets go in at once, when there is room for all of them; of a long frame,
\* as many as there is room for.
PlugOctets(i) ==
    /\ up[i] /\ owed[i] > 0
    /\ \E n \in 1 .. owed[i] :
          /\ n <= Room(i)
          /\ n = owed[i] \/ (sent[i] \in Long /\ n = Room(i))
          /\ owed' = [owed EXCEPT ![i] = @ - n]
          /\ from' = [from EXCEPT ![i] = @ \o [m \in 1 .. n |-> OctetsOf(sent[i])]]
    /\ UNCHANGED <<up, sent, userVars, stackVars>>

\* The plug ends, by execvp's failure or later; both its pipes are closed.
PlugExit(i) ==
    /\ up[i]
    /\ up' = [up EXCEPT ![i] = FALSE]
    /\ UNCHANGED <<sent, owed, from, userVars, stackVars>>

\* The user types a line, or ends standard input.
Type ==
    /\ ~eof
    /\ \/ stdin < MaxLines /\ stdin' = stdin + 1 /\ UNCHANGED eof
       \/ eof' = TRUE /\ UNCHANGED stdin
    /\ UNCHANGED <<plugVars, from, stackVars>>

-----------------------------------------------------------------------------
(* The stack.                                                              *)

\* connect_to_vde_switch starts the plug of one link after the other; when a
\* pipe or a process is not to be had, the stack exits. execvp's failure is seen
\* by the child only: it is an early PlugExit.
Connect ==
    /\ pc = "connect"
    /\ \/ /\ up' = [up EXCEPT ![fd] = TRUE]
          /\ IF fd + 1 < NUMBER_INTERFACES THEN fd' = fd + 1 /\ UNCHANGED pc
                                           ELSE fd' = 0 /\ pc' = "poll"
       \/ pc' = "exited" /\ UNCHANGED <<up, fd>>
    /\ UNCHANGED <<sent, owed, from, userVars, revents, len, out, handled>>

\* A read of the pipe does not block: there is something, or nobody to wait for.
Answers(i) == from[i] # <<>> \/ ~up[i]

\* What poll(2) reports POLLIN for.
Readable ==
    {i \in Links : from[i] # <<>> \/ (POLLIN_AT_EOF /\ ~up[i])}
        \cup (IF stdin > 0 \/ eof THEN {STDIN} ELSE {})

\* An empty pipe whose plug has gone wakes it on every host, with POLLHUP, which
\* the loop does not look at.
Poll ==
    /\ pc = "poll"
    /\ Readable # {} \/ \E i \in Links : ~up[i]
    /\ revents' = Readable
    /\ pc' = "scan" /\ fd' = 0
    /\ UNCHANGED <<plugVars, from, userVars, len, out, handled>>

\* Mutants of AfterFd: the link loop ends one short of NUMBER_INTERFACES; the
\* round does not end after standard input.
AfterFdShort == IF fd + 1 < STDIN - 1 THEN pc' = "scan" /\ fd' = fd + 1
                ELSE IF fd < STDIN    THEN pc' = "scan" /\ fd' = STDIN
                ELSE pc' = "poll" /\ fd' = 0
AfterFdEndless == pc' = "scan" /\ fd' = fd + 1

\* The rest of the round: the links in their order, then standard input.
AfterFd == IF fd < STDIN THEN pc' = "scan" /\ fd' = fd + 1
           ELSE pc' = "poll" /\ fd' = 0

Skip ==
    /\ pc = "scan" /\ fd \notin revents
    /\ AfterFd
    /\ UNCHANGED <<plugVars, from, userVars, revents, len, out, handled>>

\* Mutant of Serve: revents is not tested.
ServeUnpolled ==
    /\ pc = "scan" /\ fd \in Links
    /\ pc' = "length"
    /\ UNCHANGED <<plugVars, from, userVars, fd, revents, len, out, handled>>

\* interface_receiver is called.
Serve ==
    /\ pc = "scan" /\ fd \in revents \cap Links
    /\ pc' = "length"
    /\ UNCHANGED <<plugVars, from, userVars, fd, revents, len, out, handled>>

\* receive_ethernet_frame reads nbo_len, whatever read(2) returns. At the end of
\* the file nbo_len keeps what its place on the stack held. On a link that has
\* lost its framing, two octets of the pipe are taken for a length. In both cases
\* it is 0 or anything.
ReadLength ==
    /\ pc = "length" /\ Answers(fd)
    /\ \/ /\ from[fd] # <<>> /\ fd \notin Dead
          /\ len' = Head(from[fd])[2]
          /\ from' = [from EXCEPT ![fd] = Tail(@)]
       \/ /\ from[fd] # <<>> /\ fd \in Dead
          /\ len' \in {0, Stale}
          /\ \/ from' = [from EXCEPT ![fd] = Tail(@)]
             \/ UNCHANGED from              \* more of the part is left
       \/ /\ from[fd] = <<>>
          /\ len' \in {0, Stale}
          /\ UNCHANGED from
    /\ pc' = "octets"
    /\ UNCHANGED <<plugVars, userVars, fd, revents, out, handled>>

\* A length of 0: interface_receiver does nothing.
ReadNothing ==
    /\ pc = "octets" /\ len = 0
    /\ AfterFd
    /\ UNCHANGED <<plugVars, from, userVars, revents, len, out, handled>>

\* A handler sends at most two frames, both on one link; or none.
Replies == {<<>>} \cup {<<j>> : j \in Links} \cup {<<j, j>> : j \in Links}

\* interface_receiver handles x as a frame of link fd.
Handle(x) ==
    /\ handled' = [handled EXCEPT ![fd] = IF fd \in Dead THEN @ ELSE Append(@, x)]
    /\ out' \in Replies
    /\ pc' = "send"

\* All octets of the frame are there.
ReadWhole ==
    /\ pc = "octets" /\ len \notin {0, Stale}
    /\ Len(from[fd]) >= 2
    /\ Handle(Head(from[fd])[2])
    /\ from' = [from EXCEPT ![fd] = Tail(Tail(@))]
    /\ UNCHANGED <<plugVars, userVars, fd, revents, len>>

\* Mutant of ReadShort: what is not there is taken for read.
ReadShortTrusting ==
    /\ pc = "octets" /\ len \notin {0, Stale}
    /\ Len(from[fd]) < 2 /\ Answers(fd)
    /\ Handle(len)
    /\ from' = [from EXCEPT ![fd] = <<>>]
    /\ UNCHANGED <<plugVars, userVars, fd, revents, len>>

\* They are not: of a long frame the first of them may be in the pipe alone, and
\* at the end of the file there is nothing more. The read is not repeated and the
\* length is returned all the same, so the handlers see a frame whose rest is what
\* the buffer held. (The stack's frame array was last used by an earlier call:
\* whatever it holds is no frame of this link's that is still to come.)
ReadShort ==
    /\ pc = "octets" /\ len \notin {0, Stale}
    /\ Len(from[fd]) < 2 /\ Answers(fd)
    /\ Handle(Stale)
    /\ from' = [from EXCEPT ![fd] = <<>>]
    /\ UNCHANGED <<plugVars, userVars, fd, revents, len>>

\* The length is no length: any of what is in the pipe is taken. The array has
\* 1600 octets and the length may be more, which read or binary_to_hex oversteps.
ReadGarbage ==
    /\ pc = "octets" /\ len = Stale
    /\ Answers(fd)
    /\ \E n \in 0 .. Len(from[fd]) :
          from' = [from EXCEPT ![fd] = SubSeq(@, n + 1, Len(@))]
    /\ \/ Handle(Stale)
       \/ pc' = "overrun" /\ UNCHANGED <<out, handled>>
    /\ UNCHANGED <<plugVars, userVars, fd, revents, len>>

\* interaction_handler: one line, at most one frame, on interface 0. At the end
\* of standard input the line is what its buffer held.
UserLine ==
    /\ pc = "scan" /\ fd = STDIN /\ fd \in revents
    /\ stdin' = IF stdin > 0 THEN stdin - 1 ELSE 0
    /\ out' \in {<<>>, <<0>>}
    /\ pc' = "send"
    /\ UNCHANGED <<plugVars, from, eof, fd, revents, len, handled>>

\* send_ethernet_frame: a write to a pipe nobody reads raises SIGPIPE, which
\* nobody handles.
Send ==
    /\ pc = "send" /\ out # <<>>
    /\ IF up[Head(out)] THEN out' = Tail(out) /\ UNCHANGED pc
                        ELSE pc' = "killed" /\ UNCHANGED out
    /\ UNCHANGED <<plugVars, from, userVars, fd, revents, len, handled>>

Return ==
    /\ pc = "send" /\ out = <<>>
    /\ AfterFd
    /\ UNCHANGED <<plugVars, from, userVars, revents, len, out, handled>>

StackStep == \/ Connect \/ Poll \/ Skip \/ Serve
             \/ ReadLength \/ ReadNothing \/ ReadWhole \/ ReadShort \/ ReadGarbage
             \/ UserLine \/ Send \/ Return

Next == \/ StackStep
        \/ \E i \in Links : PlugLength(i) \/ PlugOctets(i) \/ PlugExit(i)
        \/ Type

Spec == Init /\ [][Next]_vars

\* The stack runs. A plug that runs finishes the frame it began: one that stopped
\* between two writes without exiting would hold the stack in a blocking read, for
\* all links. No switch has to send, no user to type, and no plug has to exit.
FairSpec == Spec /\ WF_vars(StackStep) /\ \A i \in Links : WF_vars(PlugOctets(i))

-----------------------------------------------------------------------------
(* Properties.                                                             *)

Parts == {"length", "octets"} \X Nat
Ended == {"exited", "killed", "overrun"}

LinksTypeOK ==
    /\ up \in [Links -> BOOLEAN]
    /\ sent \in [Links -> Nat]
    /\ owed \in [Links -> 0 .. 2]
    /\ from \in [Links -> Seq(Parts)]
    /\ stdin \in Nat /\ eof \in BOOLEAN
    /\ pc \in {"connect", "poll", "scan", "length", "octets", "send"} \cup Ended
    /\ fd \in Fds /\ revents \in SUBSET Fds
    /\ len \in Nat \cup {Stale}
    /\ out \in Seq(Links)
    /\ handled \in [Links -> Seq(Nat \cup {Stale})]

\* What poll reported is still so when the loop comes to it, however long the
\* handlers before it took: no read of a length blocks the loop. On a link that
\* has given frames only, both ends of the pipe agree on where a frame begins, at
\* every point between the writes and the reads: what is taken for a length is
\* one, and the octets read after it are those of its frame.
FramingKept ==
    /\ pc = "length" => Answers(fd)
    /\ pc = "length" /\ fd \notin Dead /\ from[fd] # <<>> => Head(from[fd])[1] = "length"
    /\ pc = "octets" /\ fd \notin Dead /\ len \notin {0, Stale} =>
          \/ from[fd] # <<>> /\ Head(from[fd]) = OctetsOf(len)
          \/ from[fd] = <<>> /\ owed[fd] = 2

\* Frames the plug has written whole; those not yet handled are in transit.
Whole(i) == IF owed[i] > 0 THEN sent[i] - 1 ELSE sent[i]

\* Frames l + 1 to l + m.
Frames(l, m) == [n \in 1 .. m |-> l + n]
Transit == [i \in Links |->
               IF i \in Dead THEN <<>>
               ELSE Frames(Len(handled[i]), Whole(i) - Len(handled[i]))]

Delivery == INSTANCE FrameDelivery WITH
    open      <- {i \in Links : up[i]},
    transit   <- Transit,
    delivered <- handled,
    dead      <- Dead

\* The loop delivers each link's frames whole, once and in order, whatever it
\* serves in between, until it takes for a frame what is none: after the plug has
\* exited, or a frame above PIPE_BUF was cut. It never does so while the plug
\* runs and the next frame is no longer than PIPE_BUF.
ImplementsDelivery == Delivery!FDSpec

\* A link that lost its framing, and whose plug runs: the stack may wait in the
\* middle of what it takes for a frame until a switch sends again.
Torn == \E i \in Dead : up[i]

\* No link and no user starves, also while links at their end of file are served
\* in every round: octets in a pipe are handled as the frame they are or as the
\* last thing of the link, and a line is read, unless the stack has ended or a
\* link is torn.
WhatWaitsIsServed ==
    /\ \A i \in Links, k \in 1 .. MaxFrames :
          Holds(from[i], OctetsOf(k)) ~>
              Holds(handled[i], k) \/ i \in Dead \/ pc \in Ended \/ Torn
    /\ \A n \in 1 .. MaxLines : stdin = n ~> stdin # n \/ pc \in Ended \/ Torn
=============================================================================
