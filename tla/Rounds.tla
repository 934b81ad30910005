------------------------------- MODULE Rounds --------------------------------
(***************************************************************************)
(* The three functions that the modules Sha256, Kdf and Aead leave free,   *)
(* at their real size: the compression function of sha256.c, salsa of      *)
(* scrypt.c and the rounds of chacha20poly1305.c.  A uint32 is the set of  *)
(* its bits that are 1.                                                    *)
(***************************************************************************)
EXTENDS Integers, Sequences, SequencesExt

Word(hi, lo) == {i \in 0..31 : ((IF i < 16 THEN lo ELSE hi) \div 2^(i % 16)) % 2 = 1}
BigWord(s) == Word(256 * s[1] + s[2], 256 * s[3] + s[4])
LittleWord(s) == BigWord(Reverse(s))
\* A table of words, two numbers of 16 bits each.
Words(s) == <<>> \o [i \in 1 .. Len(s) \div 2 |-> Word(s[2 * i - 1], s[2 * i])]
WordsOf(bytes, f(_)) ==
    <<>> \o [i \in 1 .. Len(bytes) \div 4 |-> f(SubSeq(bytes, 4 * i - 3, 4 * i))]

XorWord(x, y) == (x \ y) \cup (y \ x)
rotl32(x, n) == {(i + n) % 32 : i \in x}
ror(x, n) == {(i + 32 - n) % 32 : i \in x}
ShiftRight(x, n) == {i - n : i \in x \cap (n..31)}
\* A carry comes into bit i from a bit j below, past bits of which one is 1.
Add(x, y) ==
    LET made == x \cap y
        passed == x \cup y
        CarryInto(i) == \E j \in made : j < i /\ (j + 1)..(i - 1) \subseteq passed
    IN {i \in 0..31 : ((i \in x) # (i \in y)) # CarryInto(i)}
Sum(s) == FoldLeft(Add, {}, s)
Added(s, t) == <<>> \o [i \in DOMAIN s |-> Add(s[i], t[i])]

\* turn(state, 1), turn of that and 2, ..., n of them: halves, one after the other.
Turned(turn(_, _), state, n) ==
    LET Run[s \in Seq(SUBSET Nat), i \in Nat, m \in Nat] ==
          IF m = 1 THEN turn(s, i)
          ELSE Run[Run[s, i, m \div 2], i + m \div 2, m - m \div 2]
    IN Run[state, 1, n]

----------------------------------------------------------------------------
(* sha256.c *)

Ch(x, y, z) == XorWord(z, x \cap XorWord(y, z))
Maj(x, y, z) == (x \cap y) \cup (z \cap (x \cup y))
S0(x) == XorWord(ror(x, 2), XorWord(ror(x, 13), ror(x, 22)))
S1(x) == XorWord(ror(x, 6), XorWord(ror(x, 11), ror(x, 25)))
\* Mutant of R0: the last word is rotated, not shifted.
R0Rotated(x) == XorWord(ror(x, 7), XorWord(ror(x, 18), ror(x, 3)))
R0(x) == XorWord(ror(x, 7), XorWord(ror(x, 18), ShiftRight(x, 3)))
R1(x) == XorWord(ror(x, 17), XorWord(ror(x, 19), ShiftRight(x, 10)))

K == Words(<<
     \h428a, \h2f98, \h7137, \h4491, \hb5c0, \hfbcf, \he9b5, \hdba5,
     \h3956, \hc25b, \h59f1, \h11f1, \h923f, \h82a4, \hab1c, \h5ed5,
     \hd807, \haa98, \h1283, \h5b01, \h2431, \h85be, \h550c, \h7dc3,
     \h72be, \h5d74, \h80de, \hb1fe, \h9bdc, \h06a7, \hc19b, \hf174,
     \he49b, \h69c1, \hefbe, \h4786, \h0fc1, \h9dc6, \h240c, \ha1cc,
     \h2de9, \h2c6f, \h4a74, \h84aa, \h5cb0, \ha9dc, \h76f9, \h88da,
     \h983e, \h5152, \ha831, \hc66d, \hb003, \h27c8, \hbf59, \h7fc7,
     \hc6e0, \h0bf3, \hd5a7, \h9147, \h06ca, \h6351, \h1429, \h2967,
     \h27b7, \h0a85, \h2e1b, \h2138, \h4d2c, \h6dfc, \h5338, \h0d13,
     \h650a, \h7354, \h766a, \h0abb, \h81c2, \hc92e, \h9272, \h2c85,
     \ha2bf, \he8a1, \ha81a, \h664b, \hc24b, \h8b70, \hc76c, \h51a3,
     \hd192, \he819, \hd699, \h0624, \hf40e, \h3585, \h106a, \ha070,
     \h19a4, \hc116, \h1e37, \h6c08, \h2748, \h774c, \h34b0, \hbcb5,
     \h391c, \h0cb3, \h4ed8, \haa4a, \h5b9c, \hca4f, \h682e, \h6ff3,
     \h748f, \h82ee, \h78a5, \h636f, \h84c8, \h7814, \h8cc7, \h0208,
     \h90be, \hfffa, \ha450, \h6ceb, \hbef9, \ha3f7, \hc671, \h78f2
     >>)
\* What sha256init puts into h.
H0 == Words(<<\h6a09, \he667, \hbb67, \hae85, \h3c6e, \hf372, \ha54f, \hf53a,
              \h510e, \h527f, \h9b05, \h688c, \h1f83, \hd9ab, \h5be0, \hcd19>>)

processblock(h, bytes) ==
    LET next(w, n) == Append(w, Sum(<<R1(w[n + 14]), w[n + 9], R0(w[n + 1]), w[n]>>))
        W == Turned(next, WordsOf(bytes, BigWord), 48)
        \* v is a to h.
        turn(v, i) ==
          LET t1 == Sum(<<v[8], S1(v[5]), Ch(v[5], v[6], v[7]), K[i], W[i]>>)
              t2 == Add(S0(v[1]), Maj(v[1], v[2], v[3]))
          IN <<Add(t1, t2), v[1], v[2], v[3], Add(v[4], t1), v[5], v[6], v[7]>>
    IN Added(h, Turned(turn, h, 64))

----------------------------------------------------------------------------
(* scrypt.c and chacha20poly1305.c: a quarter mixes four of sixteen words. *)

Mixed(x, q, abcd) == [x EXCEPT ![q[1]] = abcd[1], ![q[2]] = abcd[2],
                               ![q[3]] = abcd[3], ![q[4]] = abcd[4]]
\* Words are numbered from 0 in the code.
Places16(s) == <<>> \o [i \in 1 .. Len(s) \div 4 |-> [k \in 1..4 |-> s[4 * i - 4 + k] + 1]]
\* The quarters qs, one after the other, n times.
Rounded(state, quarter(_, _), qs, n) ==
    Turned(LAMBDA x, i : quarter(x, qs[((i - 1) % Len(qs)) + 1]), state, n * Len(qs))

QUARTER(x, q) ==
    LET a == x[q[1]]
        b == XorWord(x[q[2]], rotl32(Add(a, x[q[4]]), 7))
        c == XorWord(x[q[3]], rotl32(Add(b, a), 9))
        d == XorWord(x[q[4]], rotl32(Add(c, b), 13))
    IN Mixed(x, q, <<XorWord(a, rotl32(Add(d, c), 18)), b, c, d>>)
SalsaQuarters ==
    Places16(<<0, 4, 8, 12,  5, 9, 13, 1,  10, 14, 2, 6,  15, 3, 7, 11,
               0, 1, 2, 3,   5, 6, 7, 4,   10, 11, 8, 9,  15, 12, 13, 14>>)
salsa(state) == Added(state, Rounded(state, QUARTER, SalsaQuarters, 4))

QUARTERROUND(x, q) ==
    LET a1 == Add(x[q[1]], x[q[2]])
        d1 == rotl32(XorWord(x[q[4]], a1), 16)
        c1 == Add(x[q[3]], d1)
        b1 == rotl32(XorWord(x[q[2]], c1), 12)
        a2 == Add(a1, b1)
        d2 == rotl32(XorWord(d1, a2), 8)
        c2 == Add(c1, d2)
    IN Mixed(x, q, <<a2, rotl32(XorWord(b1, c2), 7), c2, d2>>)
ChachaQuarters ==
    Places16(<<0, 4, 8, 12,  1, 5, 9, 13,   2, 6, 10, 14,  3, 7, 11, 15,
               0, 5, 10, 15, 1, 6, 11, 12,  2, 7, 8, 13,   3, 4, 9, 14>>)
chacha20_rounds(in) == Rounded(in, QUARTERROUND, ChachaQuarters, 10)
\* What chacha20_djb makes of it: "expand 32-byte k", the key, the counter in
\* two words, the nonce; and the words of the keystream.
chacha20_constant == <<101, 120, 112, 97, 110, 100, 32, 51, 50, 45, 98, 121, 116, 101, 32, 107>>
chacha20_block(key, ctr, nonce) ==
    LET input == WordsOf(chacha20_constant, LittleWord) \o WordsOf(key, LittleWord)
                 \o ctr \o WordsOf(nonce, LittleWord)
    IN Added(chacha20_rounds(input), input)

----------------------------------------------------------------------------
(***************************************************************************)
(* The known answers: FIPS 180-2 B.2 (two blocks), RFC 7914 section 8,     *)
(* RFC 8439 section 2.3.2.                                                 *)
(***************************************************************************)
TwoBlocks ==
    << [i \in 1..64 |-> CASE i < 57 -> 97 + (i - 1) \div 4 + ((i - 1) % 4)
                          [] i = 57 -> 128 [] i > 57 -> 0],
       [i \in 1..64 |-> CASE i < 63 -> 0 [] i = 63 -> 1 [] i = 64 -> 192] >>
TwoBlocksHash == Words(<<\h248d, \h6a61, \hd206, \h38b8, \he5c0, \h2693, \h0c3e, \h6039,
                          \ha33c, \he459, \h64ff, \h2167, \hf6ec, \hedd4, \h19db, \h06c1>>)
SalsaInput == WordsOf(<<
     126, 135, 154, 33, 79, 62, 201, 134, 124, 169, 64, 230, 65, 113, 143, 38,
     186, 238, 85, 91, 140, 97, 193, 181, 13, 248, 70, 17, 109, 205, 59, 29,
     238, 36, 243, 25, 223, 155, 61, 133, 20, 18, 30, 75, 90, 197, 170, 50,
     118, 2, 29, 41, 9, 199, 72, 41, 237, 235, 198, 141, 184, 184, 194, 94>>, LittleWord)
SalsaOutput == WordsOf(<<
     164, 31, 133, 156, 102, 8, 204, 153, 59, 129, 202, 203, 2, 12, 239, 5,
     4, 75, 33, 129, 162, 253, 51, 125, 253, 123, 28, 99, 150, 104, 47, 41,
     180, 57, 49, 104, 227, 201, 230, 188, 254, 107, 197, 183, 160, 109, 150, 186,
     228, 36, 204, 16, 44, 145, 116, 92, 36, 173, 103, 61, 199, 97, 143, 129>>, LittleWord)
\* The counter 1 and the first word of the nonce, 09000000.
ChachaKey == [i \in 1..32 |-> i - 1]
ChachaCtr == Words(<<0, 1, \h0900, 0>>)
ChachaNonce == <<0, 0, 0, 74, 0, 0, 0, 0>>
ChachaOutput == Words(<<
     \he4e7, \hf110, \h1559, \h3bd1, \h1fdd, \h0f50, \hc471, \h20a3,
     \hc7f4, \hd1c7, \h0368, \hc033, \h9aaa, \h2204, \h4e6c, \hd4c3,
     \h4664, \h82d2, \h09aa, \h9f07, \h05d7, \hc214, \ha202, \h8bd9,
     \hd19c, \h12b5, \hb94e, \h16de, \he883, \hd0cb, \h4e3c, \h50a2>>)
=============================================================================
