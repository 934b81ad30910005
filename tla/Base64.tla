------------------------------- MODULE Base64 --------------------------------
(***************************************************************************)
(* base64.c: the encoder and the decoder, with lines (pad = TRUE, the      *)
(* armor) and without (the header's fields and bodies).  A base64          *)
(* character is its value, etable and dtable being inverse; PAD, NL and    *)
(* BAD are '=', a newline and any other character.  Bytes and characters *)
(* have their real widths; only the line is short.                         *)
(***************************************************************************)
EXTENDS Digits, SequencesExt

CONSTANT LineLen   \* LINELEN (64)

ASSUME LineAssumption == LineLen \in Nat \ {0} /\ LineLen % 4 = 0

Octet == 0..255
Symbol == 0..63
PAD == 64
NL == 65
BAD == 66
Character == Symbol \cup {PAD, NL, BAD}

LineEnd(n) == n % (LineLen + 1) = 0   \* the n-th character ends a line

----------------------------------------------------------------------------
\* Mutant of EncodeByte: a line of one character too many.
EncodeByteLate(e, c, pad) ==
    LET brk == IF pad /\ e.out # <<>> /\ LineEnd(Len(e.out))
               THEN <<NL>> ELSE <<>>
        new == CASE e.s = 0 -> <<c \div 4>>
                 [] e.s = 1 -> <<(e.l % 4) * 16 + c \div 16>>
                 [] e.s = 2 -> <<(e.l % 16) * 4 + c \div 64, c % 64>>
    IN [s |-> (e.s + 1) % 3, l |-> c, out |-> e.out \o brk \o new]

EncodeByte(e, c, pad) ==
    LET brk == IF pad /\ e.out # <<>> /\ LineEnd(Len(e.out) + 1)
               THEN <<NL>> ELSE <<>>
        new == CASE e.s = 0 -> <<c \div 4>>
                 [] e.s = 1 -> <<(e.l % 4) * 16 + c \div 16>>
                 [] e.s = 2 -> <<(e.l % 16) * 4 + c \div 64, c % 64>>
    IN [s |-> (e.s + 1) % 3, l |-> c, out |-> e.out \o brk \o new]

base64encode(in, pad) ==
    LET e == FoldLeft(LAMBDA x, c : EncodeByte(x, c, pad),
                      [s |-> 0, l |-> 0, out |-> <<>>], in)
        tail == CASE e.s = 0 -> <<>>
                  [] e.s = 1 -> <<(e.l % 4) * 16>>
                  [] e.s = 2 -> <<(e.l % 16) * 4>>
        fill == CASE ~pad -> <<>>
                  [] pad /\ e.s = 0 -> <<NL>>
                  [] pad /\ e.s = 1 -> <<PAD, PAD, NL>>
                  [] pad /\ e.s = 2 -> <<PAD, NL>>
    IN e.out \o tail \o fill

----------------------------------------------------------------------------
\* cur is the byte out[j] being put together; next holds its first bits, and is
\* not cleared by the fourth symbol of a group.
DecodeSymbol(d, c) ==
    CASE d.k = 0 -> [d EXCEPT !.k = 1, !.cur = (c * 4) % 256]
      [] d.k = 1 -> [d EXCEPT !.k = 2, !.out = Append(@, d.cur + c \div 16),
                              !.next = (c % 16) * 16]
      [] d.k = 2 -> [d EXCEPT !.k = 3, !.out = Append(@, d.next + c \div 4),
                              !.next = (c % 4) * 64]
      [] d.k = 3 -> [d EXCEPT !.k = 0, !.out = Append(@, d.next + c)]
DecodeCharacter(d, c) == IF c = NL THEN d ELSE DecodeSymbol(d, c)

\* Whether the loop goes past the i-th character, and whether it may end there.
Consumed(in, i, pad) ==
    IF pad /\ LineEnd(i) THEN in[i] = NL ELSE in[i] \in Symbol
Breaks(in, i, lastlen, pad) ==
    /\ ~(pad /\ LineEnd(i))
    /\ \/ pad /\ in[i] = PAD
       \/ lastlen > 0 /\ i = Len(in) /\ in[i] = NL

base64decode(in, pad) ==
    LET n == Len(in)
        lastlen == IF pad THEN n % (LineLen + 1) ELSE 0
        stop == CHOOSE i \in 1..(n + 1) :
                  /\ i = n + 1 \/ ~Consumed(in, i, pad)
                  /\ \A k \in 1..(i - 1) : Consumed(in, k, pad)
        d == FoldLeft(DecodeCharacter, [k |-> 0, cur |-> 0, out |-> <<>>, next |-> 0],
                      SubSeq(in, 1, stop - 1))
    IN IF \/ lastlen > 0 /\ (lastlen - 1) % 4 # 0
          \/ stop <= n /\ ~Breaks(in, stop, lastlen, pad)
          \/ pad /\ (stop + 2 < n \/ \E i \in stop..(n - 1) : in[i] # PAD)
          \/ d.k # 0 /\ d.next # 0          \* non-canonical
       THEN Refused ELSE [ok |-> TRUE, out |-> d.out]

----------------------------------------------------------------------------
(***************************************************************************)
(* The reference.  A datum has one text: its symbols by Digits, filled to  *)
(* groups of four, a newline after every line and at the end.              *)
(***************************************************************************)
Text(data, pad) ==
    LET sym == Filled(data, 8, 6)
        chr == sym \o [i \in 1 .. (4 - (Len(sym) % 4)) % 4 |-> PAD]
        n == Len(chr)
    IN IF ~pad THEN sym
       ELSE [i \in 1 .. n + IF n = 0 THEN 1 ELSE (n + LineLen - 1) \div LineLen |->
               IF LineEnd(i) \/ i > n + (n - 1) \div LineLen THEN NL
               ELSE chr[i - i \div (LineLen + 1)]]

SymbolIn(s, c) == IF c \in Symbol THEN Append(s, c) ELSE s
SymbolsOf(text) == FoldLeft(SymbolIn, <<>>, text)
\* A symbol alone in its group carries no byte; the decoder lets it through
\* when the bits left by the last group's third symbol are 0.
LoneSymbolPasses(sym) ==
    /\ Len(sym) % 4 = 1
    /\ Len(sym) > 1 => sym[Len(sym) - 2] % 4 = 0

\* What the decoder accepts: without lines the text of the data, or that and a
\* lone symbol.  With lines it trusts the last character to be the newline: only
\* at the end of a full line does it look, and elsewhere, when no '=' came
\* before, that it is no stray character.  So a full last line may be followed
\* by one more character, and '==' may end a line short of one symbol.
Accepts(text, pad) ==
    LET body == IF pad /\ text # <<>> THEN Front(text) ELSE text
        sym == SymbolsOf(body)
        canon == Text(Whole(sym, 6, 8), TRUE)
    IN IF ~pad
       THEN /\ \A i \in DOMAIN text : text[i] \in Symbol
            /\ text = Text(Whole(sym, 6, 8), FALSE) \/ LoneSymbolPasses(text)
       ELSE \/ text = <<>>
            \/ /\ PAD \in ToSet(body)
               /\ \/ body = Front(canon)
                  \/ /\ body = Append(Front(canon), PAD)
                     /\ LineEnd(Len(body)) /\ Len(sym) % 4 = 3
            \/ /\ PAD \notin ToSet(body)
               /\ body = Front(canon) \/ (LineEnd(Len(canon)) /\ body = canon)
               /\ \/ Last(text) = NL
                  \/ /\ ~LineEnd(Len(text))
                     /\ \/ Last(text) = PAD
                        \/ LoneSymbolPasses(SymbolsOf(text))
=============================================================================
