------------------------------ MODULE JsonText ------------------------------
(***************************************************************************)
(* Strings of library/jsoncpp between bytes and JSON text: the quoting of  *)
(* json_writer.cpp, the decoding of json_reader.cpp and codePointToUTF8 of *)
(* json_tool.h.                                                            *)
(*                                                                         *)
(* A byte is a number; JSON text is a sequence of units: a raw byte, a     *)
(* backslash with one character, or \u with the number that its four       *)
(* digits write.                                                           *)
(***************************************************************************)
EXTENDS Integers, SequencesExt

CONSTANTS CodePoints,   \* the characters of a text
          StrayBytes,   \* bytes that may stand where no character is
          MaxText       \* bound: characters and stray bytes of a text

Byte == 0 .. 255

\* The halves of a surrogate pair are not characters.
Surrogate(cp) == 55296 <= cp /\ cp <= 57343
Character(cp) == cp \in Nat /\ cp <= 1114111 /\ ~Surrogate(cp)

ASSUME CodePointsAssumption == /\ \A cp \in CodePoints : Character(cp)
                               /\ StrayBytes \subseteq Byte

VARIABLES bytes,        \* a C++ string
          written,      \* the characters and stray bytes it was made of
          stray         \* there is a stray byte in it

textVars == <<bytes, written, stray>>

Replacement == 65533
ShortEscaped == {34, 92, 8, 12, 10, 13, 9}      \* " \ \b \f \n \r \t

Raw(b) == [kind |-> "raw", code |-> b]
Escape(b) == [kind |-> "escape", code |-> b]
Hex(n) == [kind |-> "hex", code |-> n % 65536]
Unit == [kind : {"raw", "escape", "hex"}, code : Nat]

-----------------------------------------------------------------------------
(* Code points and bytes.                                                  *)

\* n >> 6, and the byte for the bits below.
High(n) == n \div 64
Continuation(n) == 128 + (n % 64)

CodePointToUTF8(cp) ==
    IF cp < 128 THEN <<cp>>
    ELSE IF cp < 2048 THEN <<192 + High(cp), Continuation(cp)>>
    ELSE IF cp < 65536 THEN <<224 + High(High(cp)), Continuation(High(cp)), Continuation(cp)>>
    ELSE IF cp <= 1114111
    THEN <<240 + High(High(High(cp))), Continuation(High(High(cp))), Continuation(High(cp)),
           Continuation(cp)>>
    ELSE <<>>

\* How many bytes the first byte asks for; a byte of the middle counts as a
\* first byte of two.
Width(first) == IF first < 128 THEN 1 ELSE IF first < 224 THEN 2 ELSE IF first < 240 THEN 3
                ELSE IF first < 248 THEN 4 ELSE 1

\* The payload of n bytes, for a width of two or more.
Payload(s, n) ==
    IF n = 2 THEN (s[1] % 32) * 64 + (s[2] % 64)
    ELSE IF n = 3 THEN ((s[1] % 16) * 64 + (s[2] % 64)) * 64 + (s[3] % 64)
    ELSE (((s[1] % 8) * 64 + (s[2] % 64)) * 64 + (s[3] % 64)) * 64 + (s[4] % 64)

\* The first code point that needs n bytes.
Least(n) == IF n = 2 THEN 128 ELSE IF n = 3 THEN 2048 ELSE 65536

\* utf8ToCodepoint: the code point at the beginning of s, and how many bytes it
\* takes there.  A character that is cut off takes its first byte, one that is
\* not well formed takes them all.
Utf8ToCodepoint(s) ==
    LET n == Width(s[1])
        cp == Payload(s, n)
    IN  IF s[1] < 128 THEN [code |-> s[1], width |-> 1]
        ELSE IF s[1] >= 248 \/ Len(s) < n THEN [code |-> Replacement, width |-> 1]
        ELSE [code |-> IF cp < Least(n) \/ Surrogate(cp) THEN Replacement ELSE cp, width |-> n]

-----------------------------------------------------------------------------
(* Writing and reading a string.                                           *)

\* A change of Pair: the code point is not moved down before it is cut in two.
PairUnmoved(cp) == <<Hex(55296 + ((cp \div 1024) % 1024)), Hex(56320 + (cp % 1024))>>
Pair(cp) == <<Hex(55296 + (((cp - 65536) \div 1024) % 1024)), Hex(56320 + ((cp - 65536) % 1024))>>

Units(cp) == IF cp < 32 THEN <<Hex(cp)>>
             ELSE IF cp < 128 THEN <<Raw(cp)>>
             ELSE IF cp < 65536 THEN <<Hex(cp)>>
             ELSE Pair(cp)

\* What is written for the beginning of s, and how many bytes that was.
QuotedFirst(s) ==
    IF s[1] \in ShortEscaped THEN [units |-> <<Escape(s[1])>>, width |-> 1]
    ELSE LET cp == Utf8ToCodepoint(s) IN [units |-> Units(cp.code), width |-> cp.width]

\* valueToQuotedStringN, between its quotation marks.
Quoted[s \in Seq(Byte)] ==
    IF s = <<>> THEN <<>>
    ELSE LET first == QuotedFirst(s)
         IN  first.units \o Quoted[SubSeq(s, first.width + 1, Len(s))]

\* readString: the token ends before the first quotation mark that is raw.
StringToken(u) == LET q == SelectInSeq(u, LAMBDA x : x = Raw(34))
                  IN  IF q = 0 THEN u ELSE SubSeq(u, 1, q - 1)

\* decodeUnicodeCodePoint: the code point at the beginning of u, and how many
\* units it takes; a first half of a pair needs six more characters.
FirstHalf(n) == 55296 <= n /\ n <= 56319
CodePointAt(u) ==
    IF ~FirstHalf(u[1].code) THEN [code |-> u[1].code, width |-> 1]
    ELSE IF Len(u) >= 2 /\ u[2].kind = "hex"
    THEN [code |-> 65536 + (u[1].code % 1024) * 1024 + (u[2].code % 1024), width |-> 2]
    ELSE [code |-> -1, width |-> 1]

\* The bytes of the beginning of u, and how many units that was: all that are
\* left when decoding fails.
DecodedFirst(u) ==
    IF u[1].kind # "hex" THEN [bytes |-> <<u[1].code>>, width |-> 1]
    ELSE LET cp == CodePointAt(u)
         IN  IF cp.code = -1 THEN [bytes |-> <<-1>>, width |-> Len(u)]
             ELSE [bytes |-> CodePointToUTF8(cp.code), width |-> cp.width]

\* decodeString: the bytes, or <<-1>> at the end of them when it fails.
Decoded[u \in Seq(Unit)] ==
    IF u = <<>> THEN <<>>
    ELSE LET first == DecodedFirst(u)
         IN  first.bytes \o Decoded[SubSeq(u, first.width + 1, Len(u))]

-----------------------------------------------------------------------------

TextInit == bytes = <<>> /\ written = <<>> /\ stray = FALSE

AddCharacter(cp) == /\ Len(written) < MaxText
                    /\ bytes' = bytes \o CodePointToUTF8(cp)
                    /\ written' = Append(written, cp)
                    /\ UNCHANGED stray

AddStray(b) == /\ Len(written) < MaxText
               /\ bytes' = Append(bytes, b)
               /\ written' = Append(written, b)
               /\ stray' = TRUE

TextNext == \/ \E cp \in CodePoints : AddCharacter(cp)
            \/ \E b \in StrayBytes : AddStray(b)

TextSpec == TextInit /\ [][TextNext]_textVars

-----------------------------------------------------------------------------
(* Properties.                                                             *)

TextTypeOK == /\ bytes \in Seq(Byte)
              /\ written \in Seq(CodePoints \cup StrayBytes)
              /\ stray \in BOOLEAN

\* A string that is written and read again is the same, byte for byte, for every
\* character of one to four bytes, next to any other; with bytes that are not
\* UTF-8 the text is still one that can be read, and it is pure ASCII
\* (json_writer.cpp:176,244; json_reader.cpp:677).
QuotingRoundTrips ==
    LET text == Quoted[bytes]
    IN  /\ StringToken(text) = text
        /\ \A i \in DOMAIN text : text[i].kind = "raw" => text[i].code \in 32 .. 127
        /\ ~Contains(Decoded[text], -1)
        /\ ~stray => Decoded[text] = bytes
=============================================================================
