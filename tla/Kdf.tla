-------------------------------- MODULE Kdf ---------------------------------
(***************************************************************************)
(* crypto/scrypt.c.  PBKDF2 works on the free bytes of Sha256.  The mixing *)
(* reads an index out of its data, so there a block of 64 bytes is one     *)
(* small number and salsa some fixed function of it; a chunk is 2r blocks. *)
(***************************************************************************)
EXTENDS Sha256

CONSTANT WordBits   \* bits of such a block

ASSUME KdfAssumption == WordBits \in 1..16

WordMod == 2^WordBits
\* x ^ y of two blocks, the highest bit first; a table, which TLC evaluates once.
XorTable ==
    [x \in 0 .. WordMod - 1 |-> [y \in 0 .. WordMod - 1 |->
        LET upto[i \in 0..WordBits] ==
              IF i = 0 THEN 0
              ELSE LET p == 2^(WordBits - i)
                   IN 2 * upto[i - 1] + ((x \div p + y \div p) % 2)
        IN upto[WordBits]]]
Xor(x, y) == XorTable[x][y]

XorBytes(s, t) == [i \in DOMAIN s |-> XorByte(s[i], t[i])]

\* ti and u after c of the n iterations: next makes U of the U before.
Iterated(hmacpw, first, n) ==
    LET run[c \in 1..n] ==
          IF c = 1 THEN [ti |-> first, u |-> first]
          ELSE LET t == run[c - 1]
                   u == hmacsha256final(hmacsha256update(hmacpw, t.u))
               IN [ti |-> XorBytes(t.ti, u), u |-> u]
    IN run[n]

\* The work contexts are copies of hmacpw and hmacpwsalt.
pbkdf2(pass, salt, n, bytes) ==
    LET hmacpw == hmacsha256init(pass)
        hmacpwsalt == hmacsha256update(hmacpw, salt)
        first(i) == hmacsha256final(hmacsha256update(hmacpwsalt, BigEndian(i, 4)))
        blocks == (bytes + DigestLen - 1) \div DigestLen
        left(i) == bytes - (i - 1) * DigestLen
    IN FlattenSeq([i \in 1..blocks |->
                     SubSeq(Iterated(hmacpw, first(i), n).ti, 1,
                            IF left(i) > DigestLen THEN DigestLen ELSE left(i))])

----------------------------------------------------------------------------
\* In place of salsa, which is in Rounds.
Salsa(x) == (x * (2 * x + 1) + 7) % WordMod

\* Mutant of HalfAfter: half is set and never cleared.
HalfAfterFirst(half, r) == r
HalfAfter(half, r) == IF half = r THEN 0 ELSE r    \* half ^= r: it is 0 or r

\* bin and bxor are chunks, or bxor is <<>>; block i goes to place i / 2 of a
\* half of bout, and the rest of bout stays.
chunkmix(bout, bin, bxor, r) ==
    LET xored(i) == IF bxor = <<>> THEN bin[i] ELSE Xor(bin[i], bxor[i])
        mixed[i \in 0..(2 * r)] ==
          IF i = 0 THEN [x |-> xored(2 * r), half |-> 0, out |-> bout]
          ELSE LET m == mixed[i - 1]
                   x == Salsa(Xor(m.x, xored(i)))
               IN [x |-> x, half |-> HalfAfter(m.half, r),
                   out |-> ReplaceAt(m.out, ((i - 1) \div 2) + m.half + 1, x)]
    IN mixed[2 * r].out

\* The n chunks of v, each made of the one before.
Filling(x, v, n, r) ==
    LET fill[i \in 1..n] ==
          IF i = 1 THEN ReplaceAt(v, 1, x)
          ELSE LET w == fill[i - 1]
               IN ReplaceAt(w, i, chunkmix(w[i], w[i - 1], <<>>, r))
    IN fill[n]

\* x, y and v are the buffers of scrypt, as the lane before left them.
romix(x, y, v, n, r) ==
    LET fill == Filling(x, v, n, r)
        j(c) == (c[2 * r] % n) + 1     \* x[chunkWords - BLOCKWORDS] & (n - 1)
        mixed[i \in 0 .. (n + 1) \div 2] ==
          IF i = 0 THEN [y |-> y, x |-> chunkmix(x, fill[n], <<>>, r)]
          ELSE LET m == mixed[i - 1]
                   newy == chunkmix(m.y, m.x, fill[j(m.x)], r)
               IN [y |-> newy, x |-> chunkmix(m.x, newy, fill[j(newy)], r)]
        last == mixed[(n + 1) \div 2]
    IN [x |-> last.x, y |-> last.y, v |-> fill]

\* From what the first pbkdf2 gave, p chunks, to what the second is given.
scrypt(lanes, n, r) ==
    LET unset == [i \in 1..(2 * r) |-> 0]
        done[i \in 0..Len(lanes)] ==
          IF i = 0 THEN [y |-> unset, v |-> [k \in 1..n |-> unset], out |-> <<>>]
          ELSE LET m == done[i - 1]
                   new == romix(lanes[i], m.y, m.v, n, r)
               IN [y |-> new.y, v |-> new.v, out |-> Append(m.out, new.x)]
    IN done[Len(lanes)].out

----------------------------------------------------------------------------
(***************************************************************************)
(* The references: RFC 8018, RFC 7914.                                     *)
(***************************************************************************)
Pbkdf2(pass, salt, n, bytes) ==
    LET T(i) ==
          LET U[c \in 1..n] == IF c = 1 THEN Hmac(pass, salt \o BigEndian(i, 4))
                               ELSE Hmac(pass, U[c - 1])
          IN [k \in 1..DigestLen |->
                LET sum[c \in 0..n] == IF c = 0 THEN {} ELSE XorByte(sum[c - 1], U[c][k])
                IN sum[n]]
    IN [k \in 1..bytes |-> T((k - 1) \div DigestLen + 1)[((k - 1) % DigestLen) + 1]]

BlockMix(b) ==
    LET m == Len(b)
        Y[i \in 0..m] == IF i = 0 THEN b[m] ELSE Salsa(Xor(Y[i - 1], b[i]))
    IN <<>> \o [k \in 1..m |-> IF 2 * k <= m THEN Y[2 * k - 1] ELSE Y[2 * (k - (m \div 2))]]
ROMix(b, n) ==
    LET V[i \in 0..n] == IF i = 0 THEN b ELSE BlockMix(V[i - 1])
        X[i \in 0..n] ==
          IF i = 0 THEN V[n]
          ELSE LET x == X[i - 1]
                   vj == V[x[Len(b)] % n]
               IN BlockMix(<<>> \o [k \in 1..Len(b) |-> Xor(x[k], vj[k])])
    IN X[n]
=============================================================================
