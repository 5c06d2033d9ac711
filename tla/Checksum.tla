------------------------------ MODULE Checksum ------------------------------
(***************************************************************************)
(* The Internet checksum of src/crc32.c, from where it is put into a       *)
(* header (sender.c, icmp.c, ip-encapsulation.c, tcp.c) to where one is    *)
(* examined (ip.c). One action is one turn of a loop of ip_checksum, or    *)
(* its return. On the way an octet may change.                             *)
(***************************************************************************)
EXTENDS Naturals, Sequences

CONSTANT Octet          \* values of an octet: 256

ASSUME OctetAssumption == Octet \in Nat /\ Octet > 1

Word == Octet * Octet

VARIABLES
    header,             \* the octets; the first two are the checksum's place
    count,              \* octets still to be added
    sum,
    stage,              \* "insert", "transit", "examine" or "over"
    altered,            \* history: whether an octet changed on the way
    ip_checksum         \* what the examination returned

checksumVars == <<header, count, sum, stage, altered, ip_checksum>>

ChecksumInit(data) ==
    /\ header = <<0, 0>> \o data
    /\ count = Len(header)
    /\ sum = 0
    /\ stage = "insert"
    /\ altered = FALSE
    /\ ip_checksum = 0

Summing == stage \in {"insert", "examine"}

At == Len(header) - count + 1

AddWord ==
    /\ Summing /\ count > 1
    /\ sum' = sum + header[At] * Octet + header[At + 1]
    /\ count' = count - 2
    /\ UNCHANGED <<header, stage, altered, ip_checksum>>

AddLeftOver ==
    /\ Summing /\ count = 1
    /\ sum' = sum + header[At] * Octet
    /\ count' = 0
    /\ UNCHANGED <<header, stage, altered, ip_checksum>>

\* Mutant of Fold: one turn, whose carry is cut off.
FoldOnce ==
    /\ Summing /\ count = 0 /\ sum >= Word
    /\ sum' = ((sum % Word) + (sum \div Word)) % Word
    /\ UNCHANGED <<header, count, stage, altered, ip_checksum>>

Fold ==
    /\ Summing /\ count = 0 /\ sum >= Word
    /\ sum' = (sum % Word) + (sum \div Word)
    /\ UNCHANGED <<header, count, stage, altered, ip_checksum>>

Complement == Word - 1 - sum

\* The caller stores the high octet and then the low one.
Insert ==
    /\ stage = "insert" /\ count = 0 /\ sum < Word
    /\ header' = [header EXCEPT ![1] = Complement \div Octet, ![2] = Complement % Octet]
    /\ stage' = "transit"
    /\ UNCHANGED <<count, sum, altered, ip_checksum>>

\* An octet of the header changes, or none, and the header is examined.
Transit ==
    /\ stage = "transit"
    /\ \/ \E n \in DOMAIN header, octet \in 0 .. (Octet - 1) :
             /\ octet # header[n]
             /\ header' = [header EXCEPT ![n] = octet]
             /\ altered' = TRUE
       \/ UNCHANGED <<header, altered>>
    /\ count' = Len(header)
    /\ sum' = 0
    /\ stage' = "examine"
    /\ UNCHANGED ip_checksum

Examine ==
    /\ stage = "examine" /\ count = 0 /\ sum < Word
    /\ ip_checksum' = Complement
    /\ stage' = "over"
    /\ UNCHANGED <<header, count, sum, altered>>

ChecksumStep == \/ AddWord \/ AddLeftOver \/ Fold
                \/ Insert \/ Transit \/ Examine

\* A header with the octets data behind its checksum.
ChecksumSpec(data) == ChecksumInit(data) /\ [][ChecksumStep]_checksumVars

-----------------------------------------------------------------------------
(* Properties.                                                             *)

\* The sum over a header with its checksum is 0 if and only if it arrives as it was
\* sent, for odd and even lengths and however often the sum is folded.
ChecksumTells == stage = "over" => (ip_checksum = 0 <=> ~altered)
=============================================================================
