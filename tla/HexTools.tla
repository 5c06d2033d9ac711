------------------------------ MODULE HexTools ------------------------------
(***************************************************************************)
(* src/hexdump.c and src/hexread.c: each collects what read(2) returns,    *)
(* however much that is, in a buffer of one line, converts and writes the  *)
(* buffer when a line is complete, and the remainder at the end of the     *)
(* input. read(2) and write(2) do not fail, except where hexread hands an  *)
(* undefined length to write(2). No text holds a NUL.                      *)
(***************************************************************************)
EXTENDS Hex, Integers

CONSTANTS
    STDIN_MAX,      \* octets of a read from standard input: 16 and 48
    STDIN_ROOM,     \* octets hexdump reserves for one: sizeof(int)
    FILE_MAX,       \* octets of a read from a file: 1024
    Stray           \* an octet of the heap

ASSUME ReadAssumption == /\ STDIN_MAX \in [{"hexdump", "hexread"} -> Nat]
                         /\ {STDIN_ROOM, FILE_MAX} \subseteq Nat \ {0}
ASSUME StrayAssumption == Null \notin Seq({Stray})

VARIABLES
    tool,           \* "hexdump" or "hexread"
    source,         \* "terminal", "pipe" or "file"
    input,          \* history: all of the input
    rest,           \* what is not yet read
    temp_buffer,
    bin_bytes,      \* hexread's count of converted octets, not initialised
    stdout,
    status          \* running, done, failed (exit code 1), or overrun

hexVars == <<tool, source, input, rest, temp_buffer, bin_bytes, stdout, status>>

HexInit(name, from, data) ==
    /\ tool = name /\ source = from
    /\ input = data /\ rest = data
    /\ temp_buffer = <<>>
    /\ bin_bytes \in IF name = "hexread" THEN -1 .. LINE ELSE {0}
    /\ stdout = <<>>
    /\ status = "running"

-----------------------------------------------------------------------------
(* hexread.                                                                *)

\* Converting and writing the buffer: a blank one leaves bin_bytes as it was, and as
\* many octets are written of a buffer that has none.
WriteBinary(s) ==
    LET data == IF GetSize(s.buffer) > 0 THEN HexToBinary(s.buffer)
                ELSE IF s.bytes < 0 THEN Null
                ELSE [n \in 1 .. s.bytes |-> Stray]
    IN  IF data = Null THEN [s EXCEPT !.status = "failed"]
        ELSE [s EXCEPT !.out = @ \o data, !.bytes = Len(data)]

\* Mutant of LineRead: blanks count as digits.
LineReadBlanks(buffer) == Len(buffer) = 2 * LINE

LineRead(buffer) == GetSize(buffer) = 2 * LINE

\* One turn of the for loop. temp_buffer has room for three octets for every octet
\* of a line, and nothing keeps further blanks from being stored behind it.
HexChar(s, c) ==
    LET stored == [s EXCEPT !.buffer = Append(@, c)]
        written == WriteBinary(stored)
    IN  IF s.status # "running" THEN s
        ELSE IF Len(s.buffer) = 3 * LINE THEN [s EXCEPT !.status = "overrun"]
        ELSE IF ~LineRead(stored.buffer) THEN stored
        ELSE [written EXCEPT !.buffer = <<>>]

\* At the end of the input; a newline follows when it came from a terminal.
HexEnd(s) ==
    LET written == IF s.buffer = <<>> THEN s ELSE WriteBinary(s)
    IN  IF written.status = "failed" THEN written
        ELSE [written EXCEPT !.status = "done",
                             !.out = IF source = "terminal" THEN Append(@, 10) ELSE @]

-----------------------------------------------------------------------------
(* hexdump.                                                                *)

DumpOctet(s, octet) ==
    LET buffer == Append(s.buffer, octet)
    IN  IF Len(buffer) < LINE THEN [s EXCEPT !.buffer = buffer]
        ELSE [s EXCEPT !.buffer = <<>>, !.out = @ \o BinaryToHex(buffer)]

\* Mutant of DumpEnd: an empty remainder is written too.
DumpEndAlways(s) ==
    [s EXCEPT !.status = "done", !.out = @ \o BinaryToHex(s.buffer)]

DumpEnd(s) ==
    [s EXCEPT !.status = "done",
              !.out = IF s.buffer = <<>> THEN @ ELSE @ \o BinaryToHex(s.buffer)]

-----------------------------------------------------------------------------
Current == [buffer |-> temp_buffer, bytes |-> bin_bytes, out |-> stdout, status |-> status]

Become(s) ==
    /\ temp_buffer' = s.buffer
    /\ bin_bytes' = s.bytes
    /\ stdout' = s.out
    /\ status' = s.status
    /\ UNCHANGED <<tool, source, input>>

Turn(s, c) == IF tool = "hexread" THEN HexChar(s, c) ELSE DumpOctet(s, c)

\* The for loop over the octets a read returned.
Take(count) ==
    LET turn[n \in 0 .. count] == IF n = 0 THEN Current ELSE Turn(turn[n - 1], rest[n])
    IN  /\ Become(turn[count])
        /\ rest' = SubSeq(rest, count + 1, Len(rest))

\* A terminal or a pipe yields what is there, up to a limit.
ReadStdin ==
    /\ status = "running" /\ source # "file"
    /\ \E count \in 1 .. STDIN_MAX[tool] : count <= Len(rest) /\ Take(count)

\* hexdump asks for more than it has reserved. When it gets that much, it writes
\* behind its memory: anything may follow, also what ReadStdin does.
ReadOverrun ==
    /\ status = "running" /\ source # "file" /\ tool = "hexdump"
    /\ Len(rest) > STDIN_ROOM /\ STDIN_MAX[tool] > STDIN_ROOM
    /\ status' = "overrun"
    /\ UNCHANGED <<tool, source, input, rest, temp_buffer, bin_bytes, stdout>>

ReadFile ==
    /\ status = "running" /\ source = "file" /\ rest # <<>>
    /\ Take(IF Len(rest) < FILE_MAX THEN Len(rest) ELSE FILE_MAX)

EndOfInput ==
    /\ status = "running" /\ rest = <<>>
    /\ Become(IF tool = "hexread" THEN HexEnd(Current) ELSE DumpEnd(Current))
    /\ UNCHANGED rest

HexStep == ReadStdin \/ ReadOverrun \/ ReadFile \/ EndOfInput

HexSpec(name, from, data) == HexInit(name, from, data) /\ [][HexStep]_hexVars

-----------------------------------------------------------------------------
(* Properties.                                                             *)

Newline == IF source = "terminal" THEN <<10>> ELSE <<>>

\* Cutting the input into lines of digits, at whatever places reads end and
\* blanks stand, changes nothing: hexread writes the octets of the whole text
\* and succeeds if it has a meaning. Two defects are left out: the stray octets
\* of a blank remainder, written behind all others, and a buffer that overflows
\* with blanks.
DecodesText ==
    LET n == GetSize(input) \div 2
    IN  tool = "hexread" =>
            /\ status = "done" =>
                  /\ StandsFor(input, SubSeq(stdout, 1, n))
                  /\ \E strays \in 0 .. LINE :
                        SubSeq(stdout, n + 1, Len(stdout))
                            = [k \in 1 .. strays |-> Stray] \o Newline
            /\ status = "failed" => ~Legible(input) \/ GetSize(input) = 0

\* What hexdump writes line by line is what binary_to_hex makes of the whole input,
\* and fits the memory binary_to_hex reserves for it, with its NUL. (Not when a read
\* was longer than STDIN_ROOM and what it overwrote mattered.)
DumpsAll ==
    tool = "hexdump" /\ status = "done" =>
        /\ stdout = IF input = <<>> THEN <<>> ELSE BinaryToHex(input)
        /\ Len(BinaryToHex(input)) + 1 <= 3 * Len(input) + Len(input) \div LINE + 2

\* The comment before the last write: "flush buffer to stdout". What hexread writes
\* at the end is then part of what it has read.
FlushWritesBuffer ==
    tool = "hexread" /\ status = "done" => Stray \notin Range(stdout)
=============================================================================
