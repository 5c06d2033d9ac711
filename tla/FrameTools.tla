----------------------------- MODULE FrameTools -----------------------------
(***************************************************************************)
(* src/receiver.c and src/sender.c (sender2.c): one link, its plug external*)
(* to the repository, frames numbered as the switch sends them. A frame    *)
(* crosses the pipe as its length and then its octets, each written at     *)
(* once: a frame above PIPE_BUF, whose write may be split, is in VdeLinks. *)
(* A sender sends one frame of its own and then does what a receiver does. *)
(***************************************************************************)
EXTENDS Naturals, Sequences

CONSTANTS
    Old,            \* a buffer that read(2) left as it was
    FrameLimit      \* bound: frames from the switch

ASSUME OldAssumption == Old \notin Nat

VARIABLES
    program,        \* "sender" or "receiver"
    plug,           \* whether the plug runs
    pipe,           \* parts of frames, from the plug
    begun,          \* frames of which the plug has written the length
    whole,          \* and the octets
    at,             \* where the program is
    frame_len,      \* the frame whose length was read, or Old
    printed         \* history: frames printed; Old once for any number of times

frameVars == <<program, plug, pipe, begun, whole, at, frame_len, printed>>

FrameInit(name) ==
    /\ program = name
    /\ plug = TRUE /\ pipe = <<>> /\ begun = 0 /\ whole = 0
    /\ at = IF name = "sender" THEN "send" ELSE "length"
    /\ frame_len = Old
    /\ printed = <<>>

-----------------------------------------------------------------------------
(* The plug.                                                               *)

SwitchLength ==
    /\ plug /\ begun = whole /\ begun < FrameLimit
    /\ begun' = begun + 1
    /\ pipe' = Append(pipe, <<"length", begun + 1>>)
    /\ UNCHANGED <<program, plug, whole, at, frame_len, printed>>

SwitchOctets ==
    /\ plug /\ whole < begun
    /\ whole' = begun
    /\ pipe' = Append(pipe, <<"octets", begun>>)
    /\ UNCHANGED <<program, plug, begun, at, frame_len, printed>>

SwitchExit ==
    /\ plug
    /\ plug' = FALSE
    /\ UNCHANGED <<program, pipe, begun, whole, at, frame_len, printed>>

-----------------------------------------------------------------------------
(* The program.                                                            *)

\* send_ethernet_frame; SIGPIPE ends the program when the plug has gone.
SendFrame ==
    /\ at = "send"
    /\ at' = IF plug THEN "length" ELSE "killed"
    /\ UNCHANGED <<program, plug, pipe, begun, whole, frame_len, printed>>

\* Mutant of ReceiveLength: a read that finds nothing yet does not wait.
ReceiveLengthAtOnce ==
    /\ at = "length"
    /\ \/ /\ pipe # <<>>
          /\ frame_len' = Head(pipe)[2] /\ pipe' = Tail(pipe)
          /\ at' = "octets"
       \/ /\ pipe = <<>>
          /\ frame_len' = Old /\ at' = "octets"
          /\ UNCHANGED pipe
    /\ UNCHANGED <<program, plug, begun, whole, printed>>

\* The first read of receive_ethernet_frame. At the end of the file nbo_len keeps what
\* the stack held: zero, which ends the program, or anything.
ReceiveLength ==
    /\ at = "length"
    /\ \/ /\ pipe # <<>>
          /\ frame_len' = Head(pipe)[2] /\ pipe' = Tail(pipe)
          /\ at' = "octets"
       \/ /\ pipe = <<>> /\ ~plug
          /\ frame_len' = Old /\ at' \in {"octets", "ended"}
          /\ UNCHANGED pipe
    /\ UNCHANGED <<program, plug, begun, whole, printed>>

\* The second read, and what the loop prints.
ReceiveOctets ==
    /\ at = "octets"
    /\ \/ /\ pipe # <<>>
          /\ printed' = Append(printed, Head(pipe)[2]) /\ pipe' = Tail(pipe)
       \/ /\ pipe = <<>> /\ ~plug
          /\ printed' = IF printed # <<>> /\ printed[Len(printed)] = Old THEN printed
                                                                  ELSE Append(printed, Old)
          /\ UNCHANGED pipe
    /\ at' = "length"
    /\ UNCHANGED <<program, plug, begun, whole, frame_len>>

FrameStep == \/ SwitchLength \/ SwitchOctets \/ SwitchExit
             \/ SendFrame \/ ReceiveLength \/ ReceiveOctets

FrameSpec(name) == FrameInit(name) /\ [][FrameStep]_frameVars

-----------------------------------------------------------------------------
(* Properties.                                                             *)

\* How many frames have been printed before the old buffer.
Fresh == IF printed # <<>> /\ printed[Len(printed)] = Old THEN Len(printed) - 1
                                                          ELSE Len(printed)

\* The frames the switch has sent are printed in their order, each after its own
\* length. What is printed beyond them is the old buffer, after the plug has gone
\* and when all it sent whole has been printed; the program ends no earlier.
PrintsWhatWasSent ==
    /\ \A n \in 1 .. Fresh : printed[n] = n
    /\ at = "octets" /\ pipe # <<>> => Head(pipe) = <<"octets", frame_len>>
    /\ at = "ended" \/ Fresh < Len(printed) => ~plug /\ Fresh = whole
=============================================================================
