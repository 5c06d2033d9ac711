-------------------------------- MODULE Hex --------------------------------
(***************************************************************************)
(* src/util.c: octets to text and back. A text is a sequence of one-letter *)
(* strings.                                                                *)
(***************************************************************************)
EXTENDS Naturals, Sequences, FiniteSets, Functions

CONSTANTS
    LINE,   \* octets on a line of hexdump: 16
    Null    \* hex_to_binary's NULL

Byte == 0 .. 255

ASSUME LineAssumption == LINE \in Nat \ {0}
ASSUME NullAssumption == Null \notin Seq(Byte)

Digits == <<"0", "1", "2", "3", "4", "5", "6", "7", "8", "9", "A", "B", "C", "D", "E", "F">>
Lower  == <<"a", "b", "c", "d", "e", "f">>
Space  == {" ", "\t", "\n", "\f", "\r"}

Pair(octet) == <<Digits[1 + octet \div 16], Digits[1 + (octet % 16)]>>

\* binary_to_hex: a pair is followed by a blank, except the last and the last of a line;
\* a line feed goes before every pair that begins a line, and after the last pair.
BinaryToHex(data) ==
    LET before(i) == IF i > 1 /\ (i - 1) % LINE = 0 THEN <<"\n">> ELSE <<>>
        after(i) == IF i = Len(data) \/ i % LINE = 0 THEN <<>> ELSE <<" ">>
        text[i \in 0 .. Len(data)] ==
            IF i = 0 THEN <<>> ELSE text[i - 1] \o before(i) \o Pair(data[i]) \o after(i)
    IN  text[Len(data)] \o <<"\n">>

\* The places of a text that are not blank.
Signs(text) == {p \in DOMAIN text : text[p] \notin Space}

GetSize(text) == Cardinality(Signs(text))

NonHex(c) == c \notin Range(Digits) \cup Range(Lower)

Nibble(c) == IF c \in Range(Lower) THEN 9 + CHOOSE i \in DOMAIN Lower : Lower[i] = c
             ELSE (CHOOSE i \in DOMAIN Digits : Digits[i] = c) - 1

ValueOf(c, d) == 16 * Nibble(c) + Nibble(d)

\* hex_to_binary, for a text that is not blank throughout: blanks are skipped before
\* a pair, and not inside one.
HexToBinary(text) ==
    LET from[p \in 1 .. (Len(text) + 1)] ==
            IF p > Len(text) THEN <<>>
            ELSE IF text[p] \in Space THEN from[p + 1]
            ELSE IF p = Len(text) \/ NonHex(text[p]) \/ NonHex(text[p + 1]) THEN Null
            ELSE IF from[p + 2] = Null THEN Null
            ELSE <<ValueOf(text[p], text[p + 1])>> \o from[p + 2]
    IN  from[1]

-----------------------------------------------------------------------------
(* What a text stands for, line by line or not: its octets are the digits  *)
(* that are not blank, two by two, and the two of a pair are adjacent.     *)

Before(text, p) == Cardinality({q \in Signs(text) : q < p})

\* The places where a pair begins.
Pairs(text) == {p \in Signs(text) : Before(text, p) % 2 = 0}

Legible(text) ==
    /\ \A p \in Signs(text) : ~NonHex(text[p])
    /\ \A p \in Pairs(text) : p + 1 \in Signs(text)

StandsFor(text, data) ==
    /\ Legible(text)
    /\ 2 * Len(data) = GetSize(text)
    /\ \A p \in Pairs(text) :
          data[1 + Before(text, p) \div 2] = ValueOf(text[p], text[p + 1])
=============================================================================
