------------------------------ MODULE ArmorText ------------------------------
(***************************************************************************)
(* The text that Obuf writes and Ibuf reads: raw bytes, or the armor of    *)
(* src/agec/io.c and base64.c, a BEGIN line, lines of characters and an    *)
(* END line.  A character carries its place in the text, so losing,        *)
(* repeating or reordering one shows.  An armor character stands for a     *)
(* byte (Base64 has the bits); the line layout, which decides what a block *)
(* holds, is kept.                                                         *)
(***************************************************************************)
EXTENDS Naturals, Sequences, SequencesExt

CONSTANTS
    ProbeLen,    \* length of the BEGIN line, armorfirst (35 in the code)
    EndLen,      \* length of the END line, armorlast (33)
    LineLen,     \* characters of an armor line before its newline (64)
    BlockLines,  \* armor lines read at a time (126, IOABUFREADSIZE)
    ABufLines,   \* armor lines written at a time (256, IOABUFRAWSIZE)
    BufSize      \* IOBUFSIZE (8192)

\* The BEGIN line fits the buffer (asserted at compile time in io.c); a whole
\* armor line is longer than the END line.
ASSUME LayoutAssumption ==
    /\ {ProbeLen, EndLen, LineLen, BlockLines, ABufLines, BufSize}
          \subseteq Nat \ {0}
    /\ ProbeLen < BufSize /\ EndLen <= LineLen

BlockLen == BlockLines * (LineLen + 1)
ABufSize == ABufLines * LineLen

NL == <<"newline", 0>>
Bytes(n) == [i \in 1..n |-> <<"byte", i>>]
\* The bytes in a text (a recursive function: the proofs follow it step by step).
OnlyBytes(s) ==
    LET f[k \in 0..Len(s)] ==
            IF k = 0 THEN <<>>
            ELSE IF s[k][1] = "byte" THEN Append(f[k - 1], s[k]) ELSE f[k - 1]
    IN  f[Len(s)]
BeginLine == [i \in 1..ProbeLen |-> <<"begin", i>>]
EndLine == [i \in 1..EndLen |-> <<"end", i>>]

TextLen(n) == n + (n + LineLen - 1) \div LineLen
\* base64encode(.., pad = 1): lines of LineLen, the last one may be shorter.
Encode(s) ==
    [j \in 1..TextLen(Len(s)) |->
        IF j % (LineLen + 1) = 0 \/ j = TextLen(Len(s)) THEN NL
        ELSE s[j - (j - 1) \div (LineLen + 1)]]

\* The one text of n bytes.
Armored(n) == BeginLine \o Encode(Bytes(n)) \o EndLine

\* The END line begins in one block of the reader and ends in the next.
Straddles(n) == (TextLen(n) % BlockLen) + EndLen > BlockLen

Least(x, y) == IF x < y THEN x ELSE y
=============================================================================
