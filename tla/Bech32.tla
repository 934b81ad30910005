------------------------------- MODULE Bech32 --------------------------------
(***************************************************************************)
(* bech32.c and the key texts of x25519.c and binding.c: a recipient       *)
(* "age1..." and an identity "AGE-SECRET-KEY-1...".  Characters are their  *)
(* codes; the 30-bit checksum code is its six digits of five bits, the     *)
(* last the lowest.  Only the key is shorter than the 32 bytes of the code.*)
(***************************************************************************)
EXTENDS Digits, SequencesExt

CONSTANT KeyLen   \* bytes of a key (32)

ASSUME KeyAssumption == KeyLen \in Nat \ {0}

Lower == 97..122
Upper == 65..90
ToLower(c) == IF c \in Upper THEN c + 32 ELSE c
ToUpper(c) == IF c \in Lower THEN c - 32 ELSE c
One == 49   \* '1'

\* qpzry9x8gf2tvdw0s3jn54khce6mua7l
dictionary ==
    <<113, 112, 122, 114, 121, 57, 120, 56, 103, 102, 50, 116, 118, 100, 119, 48,
      115, 51, 106, 110, 53, 52, 107, 104, 99, 101, 54, 109, 117, 97, 55, 108>>
\* Tables are tuples, which TLC evaluates once.
Table(n, f(_)) == <<>> \o [i \in 1..n |-> f(i)]

Reverse1(c) == IF c \in ToSet(dictionary)
               THEN (CHOOSE v \in 0..31 : dictionary[v + 1] = c) ELSE 99
chartab == Table(255, Reverse1)   \* of the characters 1 to 255

\* Sum and product in GF(32) = GF(2)[a]/(a^5 + a^3 + 1); a digit is a polynomial.
XorBits(a, b) ==
    LET x[i \in 0..5] == IF i = 0 THEN 0
                         ELSE 2 * x[i - 1]
                              + ((Bit(<<a>>, 5, i - 1) + Bit(<<b>>, 5, i - 1)) % 2)
    IN x[5]
Xor5 == Table(1024, LAMBDA i : XorBits((i - 1) \div 32, (i - 1) % 32))
Plus(a, b) == Xor5[32 * a + b + 1]
Xor(x, y) == [i \in 1..6 |-> Plus(x[i], y[i])]

----------------------------------------------------------------------------
\* The constants of check5bits, for bits 0 to 4 of the digit shifted out.
Generator == << <<29, 22, 20, 21, 29, 18>>, <<19,  5,  1,  3, 19, 13>>,
                <<15, 10,  2,  6, 15, 26>>, <<30, 20,  4, 12, 30, 29>>,
                <<21,  1,  8, 24, 21, 19>> >>
Feedback ==
    Table(32, LAMBDA b : FoldLeft(LAMBDA x, i : IF Bit(<<b - 1>>, 5, 5 - i) = 1
                                                THEN Xor(x, Generator[i]) ELSE x,
                                  <<0, 0, 0, 0, 0, 0>>, <<1, 2, 3, 4, 5>>))
\* Mutant of check5bits: the fifth constant is forgotten.
check4bits(code, v) == Xor(Append(Tail(code), v), Feedback[(code[1] % 16) + 1])
check5bits(code, v) == Xor(Append(Tail(code), v), Feedback[code[1] + 1])

\* Feed the digits to the code, one after the other.
Checked(code, vs) ==
    LET at[i \in 0..Len(vs)] ==
          IF i = 0 THEN code ELSE check5bits(at[i - 1], vs[i])
    IN at[Len(vs)]

LabelOk(label) == \A i \in DOMAIN label : label[i] \in 33..126
labelcheck(label) ==
    Checked(<<0, 0, 0, 0, 0, 1>>,
            [i \in 1 .. 2 * Len(label) + 1 |->
                CASE i <= Len(label) -> label[i] \div 32
                  [] i = Len(label) + 1 -> 0
                  [] i > Len(label) + 1 -> label[i - Len(label) - 1] % 32])

----------------------------------------------------------------------------
\* acc keeps the bits not yet put out: the rest of the 32 are never read.
TakeDigit(d, v) ==
    LET acc == d.acc * 32 + v
        bits == d.bits + 5
    IN IF bits >= 8
       THEN [acc |-> acc % 2^(bits - 8), bits |-> bits - 8,
             out |-> Append(d.out, (acc \div 2^(bits - 8)) % 256)]
       ELSE [d EXCEPT !.acc = acc, !.bits = bits]

bech32decode(text) ==
    LET s == [i \in DOMAIN text |-> ToLower(text[i])]
        slen == Len(s)
        last1 == SelectLastInSeq(s, LAMBDA c : c = One) - 1
        label == SubSeq(s, 1, last1)
        vs == [i \in 1 .. slen - last1 - 1 |-> chartab[s[last1 + 1 + i]]]
        d == FoldLeft(TakeDigit, [acc |-> 0, bits |-> 0, out |-> <<>>],
                      SubSeq(vs, 1, Len(vs) - 6))
    IN IF \/ \E i, k \in DOMAIN text : text[i] \in Lower /\ text[k] \in Upper
          \/ slen > 90
          \/ last1 = 0
          \/ last1 = -1   \* no '1': labelcheck runs into the final NUL
          \/ slen - last1 < 7
          \/ ~LabelOk(label)
          \/ \E i \in DOMAIN vs : vs[i] > 31
          \/ Checked(labelcheck(label), vs) # <<0, 0, 0, 0, 0, 1>>
       THEN Refused ELSE [ok |-> TRUE, out |-> d.out]

PutByte(e, b) ==
    LET shift == 3 + e.nbits
        two == shift > 5
        nbits == IF two THEN shift - 5 ELSE shift
    IN [acc |-> ((b * 2^(8 - nbits)) % 256) \div 8,
        nbits |-> nbits,
        out |-> e.out \o <<e.acc + b \div 2^shift>>
                      \o IF two THEN <<(b % 2^shift) \div 2^nbits>> ELSE <<>>]
encode(data) ==
    LET e == FoldLeft(PutByte, [acc |-> 0, nbits |-> 0, out |-> <<>>], data)
    IN IF e.nbits > 0 THEN Append(e.out, e.acc) ELSE e.out
encodesum(code) ==
    Xor(Checked(code, <<0, 0, 0, 0, 0, 0>>), <<0, 0, 0, 0, 0, 1>>)

bech32encode(label, data) ==
    LET vs == encode(data)
        all == vs \o encodesum(Checked(labelcheck(label), vs))
    IN IF 7 + Len(label) + (8 * Len(data) + 4) \div 5 > 90 \/ ~LabelOk(label)
       THEN Refused
       ELSE [ok |-> TRUE,
             out |-> label \o <<One>> \o [i \in DOMAIN all |-> dictionary[all[i] + 1]]]

----------------------------------------------------------------------------
(***************************************************************************)
(* The key texts.  A recipient is lower case; an identity is encoded in    *)
(* lower case and raised by the writer of the file.                        *)
(***************************************************************************)
PubLabel == <<97, 103, 101>>   \* age
PrivLabel ==                   \* age-secret-key-
    <<97, 103, 101, 45, 115, 101, 99, 114, 101, 116, 45, 107, 101, 121, 45>>
Raised(s) == [i \in DOMAIN s |-> ToUpper(s[i])]
PubLen == Len(PubLabel) + 7 + (8 * KeyLen + 4) \div 5      \* PUBKEYLEN
PrivLen == Len(PrivLabel) + 7 + (8 * KeyLen + 4) \div 5    \* PRIVKEYLEN

PubText(key) == bech32encode(PubLabel, key).out
PrivText(key) == Raised(bech32encode(PrivLabel, key).out)

KeyOf(text, len, prefix) ==
    LET r == bech32decode(text)
    IN IF Len(text) = len /\ IsPrefix(prefix, text) /\ r.ok /\ Len(r.out) = KeyLen
       THEN r ELSE Refused
x25519pubkey(text) == KeyOf(text, PubLen, Append(PubLabel, One))
x25519privkey(text) == KeyOf(text, PrivLen, Append(Raised(PrivLabel), One))

----------------------------------------------------------------------------
(***************************************************************************)
(* The reference: BIP 173.  The checksum makes the digits a polynomial     *)
(* over GF(32) that leaves 1 when divided by                               *)
(* x^6 + 29x^5 + 22x^4 + 20x^3 + 21x^2 + 29x + 18.                         *)
(***************************************************************************)
Twice(a) == IF a >= 16 THEN Plus(2 * (a - 16), 9) ELSE 2 * a
Product(a, b) ==
    LET p[i \in 0..5] ==
          IF i = 0 THEN 0
          ELSE Plus(Twice(p[i - 1]), a * Bit(<<b>>, 5, i - 1))
    IN p[5]
Times == Table(1024, LAMBDA i : Product((i - 1) \div 32, (i - 1) % 32))
Divisor == <<29, 22, 20, 21, 29, 18>>
Divided(r, v) ==
    Xor(Append(Tail(r), v), [k \in 1..6 |-> Times[32 * r[1] + Divisor[k] + 1]])
Residue(vs) ==
    LET at[i \in 0..Len(vs)] ==
          IF i = 0 THEN <<0, 0, 0, 0, 0, 1>> ELSE Divided(at[i - 1], vs[i])
    IN at[Len(vs)]

\* The texts of a key: its digits, the four bits left in the last one free.
\* (The encoder leaves them 0 and the decoder does not look.)
IsKeyText(text, label, upper, key) ==
    LET n == Len(label)
        low == [i \in DOMAIN text |-> ToLower(text[i])]
        chr == [i \in 1 .. Len(low) - n - 1 |-> low[n + 1 + i]]
        vs == [i \in DOMAIN chr |-> chartab[chr[i]]]
    IN /\ Len(text) = n + 7 + (8 * KeyLen + 4) \div 5
       /\ text = IF upper THEN Raised(text) ELSE low
       /\ SubSeq(low, 1, n + 1) = Append(label, One)
       /\ \A i \in DOMAIN vs : vs[i] \in 0..31
       /\ Whole(SubSeq(vs, 1, Len(vs) - 6), 5, 8) = key
       /\ Residue([i \in DOMAIN label |-> label[i] \div 32] \o <<0>> \o
                    [i \in DOMAIN label |-> label[i] % 32] \o vs)
            = <<0, 0, 0, 0, 0, 1>>
=============================================================================
