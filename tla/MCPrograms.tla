----------------------------- MODULE MCPrograms -----------------------------
(***************************************************************************)
(* The stand-alone programs of the repository and the checksum, one at a   *)
(* time: program names the one that runs, and the others stay where they   *)
(* start, on a trivial input.                                              *)
(***************************************************************************)
EXTENDS Backoff, EthernetStudy, HexTools, Checksum, FrameTools

CONSTANTS
    Programs,       \* which of them the run is about
    Texts,          \* what hexread may be given
    Dumped,         \* what hexdump may be given
    Headers         \* what a checksum may be computed of

VARIABLE chosen

MCVars == <<chosen, backoffVars, studyVars, hexVars, checksumVars, frameVars>>

-----------------------------------------------------------------------------
(* Inputs.                                                                 *)

BoundedSeqs(S, n) == UNION {[1 .. k -> S] : k \in 0 .. n}

\* Octets whose digits are figures and letters.
MCDumped == BoundedSeqs({7, 27, 160}, 2 * LINE + 1)

\* Every short text over digits of either case, another letter and a blank; texts
\* with the blanks that fill temp_buffer and more; and what hexdump writes.
Blanks(n) == [i \in 1 .. n |-> " "]
MCDumpTexts == {BinaryToHex(data) : data \in BoundedSeqs({7, 27}, 2 * LINE + 1) \ {<<>>}}
MCTexts == BoundedSeqs({"1", "a", "g", " "}, 5)
           \cup [1 .. 6 -> {"A", " "}]
           \cup {Blanks(m) \o <<"B", "0">> \o Blanks(n) : m, n \in 0 .. 3 * LINE}
           \cup MCDumpTexts

\* Three words can carry twice.
MCHeaders == BoundedSeqs(0 .. (Octet - 1), 6)

MCStdinMax == [hexdump |-> LINE, hexread |-> 3 * LINE]

-----------------------------------------------------------------------------
\* The inputs of a program that is not chosen are reduced to one.
Of(name, inputs, one) == IF chosen = name THEN inputs ELSE {one}

Sources == {"terminal", "pipe", "file"}

MCInit ==
    /\ chosen \in Programs
    /\ \E n \in Of("backoff", 1 .. 3, 1) : BackoffInit(n)
    /\ \E kind \in Of("study", {"hub", "switch"}, "hub"), n \in Of("study", 1 .. 3, 1) :
          StudyInit(kind, n)
    /\ chosen # "study" => dst_port = [i \in {0} |-> 0]
    /\ \E from \in Sources :
          \/ chosen = "hexread" /\ \E text \in Texts : HexInit("hexread", from, text)
          \/ chosen = "hexdump" /\ \E data \in Dumped : HexInit("hexdump", from, data)
          \/ /\ chosen \notin {"hexread", "hexdump"} /\ from = "file"
             /\ HexInit("hexdump", from, <<>>)
    /\ \E data \in Of("checksum", Headers, <<>>) : ChecksumInit(data)
    /\ \E name \in Of("frames", {"sender", "receiver"}, "receiver") : FrameInit(name)

MCNext ==
    \/ /\ chosen = "backoff" /\ Slot
       /\ UNCHANGED <<studyVars, hexVars, checksumVars, frameVars>>
    \/ /\ chosen = "study" /\ StudySlot
       /\ UNCHANGED <<backoffVars, hexVars, checksumVars, frameVars>>
    \/ /\ chosen \in {"hexread", "hexdump"} /\ HexStep
       /\ UNCHANGED <<backoffVars, studyVars, checksumVars, frameVars>>
    \/ /\ chosen = "checksum" /\ ChecksumStep
       /\ UNCHANGED <<backoffVars, studyVars, hexVars, frameVars>>
    \/ /\ chosen = "frames" /\ FrameStep
       /\ UNCHANGED <<backoffVars, studyVars, hexVars, checksumVars>>

MCSpec == MCInit /\ [][MCNext /\ UNCHANGED chosen]_MCVars
=============================================================================
