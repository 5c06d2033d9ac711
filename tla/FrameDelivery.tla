--------------------------- MODULE FrameDelivery ---------------------------
(***************************************************************************)
(* What the links promise the stack: every frame a switch sends on a link  *)
(* is delivered whole, once and in order, for as long as the link is       *)
(* neither closed nor cut in a frame above PIPE_BUF. Then the link may     *)
(* deliver what is no frame of its, and nothing is promised any more.      *)
(***************************************************************************)
EXTENDS Naturals, Sequences

CONSTANTS Links, Long, Stale

VARIABLES open,         \* links whose plug runs
          transit,      \* frames sent on each link and not yet delivered
          delivered,    \* what each link delivered, to the first that is no frame
          dead          \* links that delivered what was no frame

fdVars == <<open, transit, delivered, dead>>

FDInit == /\ open = {}
          /\ transit = [i \in Links |-> <<>>]
          /\ delivered = [i \in Links |-> <<>>]
          /\ dead = {}

Open(i) ==
    /\ i \notin open \cup dead
    /\ open' = open \cup {i}
    /\ UNCHANGED <<transit, delivered, dead>>

Close(i) ==
    /\ i \in open
    /\ open' = open \ {i}
    /\ UNCHANGED <<transit, delivered, dead>>

\* Frames of a link are numbered.
Enter(i) ==
    /\ i \in open \ dead
    /\ transit' = [transit EXCEPT ![i] =
                       Append(@, Len(transit[i]) + Len(delivered[i]) + 1)]
    /\ UNCHANGED <<open, delivered, dead>>

Deliver(i) ==
    /\ i \notin dead
    /\ transit[i] # <<>>
    /\ delivered' = [delivered EXCEPT ![i] = Append(@, Head(transit[i]))]
    /\ transit' = [transit EXCEPT ![i] = Tail(@)]
    /\ UNCHANGED <<open, dead>>

\* Only when every frame sent has been delivered, and only on a closed link or
\* in place of a long frame.
Cut(i) ==
    /\ i \notin dead
    /\ transit[i] = <<>>
    /\ i \notin open \/ Len(delivered[i]) + 1 \in Long
    /\ delivered' = [delivered EXCEPT ![i] = Append(@, Stale)]
    /\ dead' = dead \cup {i}
    /\ UNCHANGED <<open, transit>>

FDNext == \E i \in Links : Open(i) \/ Close(i) \/ Enter(i) \/ Deliver(i) \/ Cut(i)

FDSpec == FDInit /\ [][FDNext]_fdVars
=============================================================================
