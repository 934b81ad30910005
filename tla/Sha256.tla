------------------------------- MODULE Sha256 --------------------------------
(***************************************************************************)
(* sha256.c, hmac.c and hkdf.c around the compression function.            *)
(* processblock (module Rounds) is free here: the state h is the sequence  *)
(* of blocks it was given, so two messages have the same digest only if    *)
(* they made the same blocks.  A byte is a set of atoms and xor the        *)
(* symmetric difference; a zero byte is {}.  Block, length field and       *)
(* digest are short.                                                       *)
(***************************************************************************)
EXTENDS Buffers

CONSTANTS
    BlockLen,   \* bytes of a block (64)
    LenLen,     \* bytes of the length field (8)
    DigestLen   \* bytes of a digest (32)

ASSUME HashAssumption ==
    /\ {BlockLen, LenLen, DigestLen} \subseteq Nat \ {0}
    /\ LenLen < BlockLen /\ DigestLen <= BlockLen

Const(v) == IF v = 0 THEN {} ELSE {<<"const", v, 0>>}
XorByte(x, y) == (x \ y) \cup (y \ x)
Repeat(x, n) == [i \in 1..n |-> x]
Zeros(n) == Repeat({}, n)
Named(name, n) == [i \in 1..n |-> {<<name, 0, i>>}]
\* n as a number of w bytes, the highest first.
BigEndian(n, w) == [i \in 1..w |-> Const((n \div 256^(w - i)) % 256)]

----------------------------------------------------------------------------
\* buf is left as it was found.
sha256init == [len |-> 0, h |-> <<>>, buf |-> Named("stack", BlockLen)]

Compressed(s, b) == [s EXCEPT !.h = Append(@, b)]

\* Mutant of sha256update: the first part of a full buffer is not counted off.
sha256updateFromZero(s, m) ==
    LET r == s.len % BlockLen
        fill == IF r = 0 THEN 0 ELSE BlockLen - r
        counted == [s EXCEPT !.len = @ + Len(m)]
        full == Put(s.buf, r, SubSeq(m, 1, fill))
        t == IF r = 0 THEN counted
             ELSE Compressed([counted EXCEPT !.buf = full], full)
        whole == Len(m) \div BlockLen
        cut(i) == SubSeq(m, i * BlockLen + 1, (i + 1) * BlockLen)
    IN IF r # 0 /\ Len(m) < fill
       THEN [counted EXCEPT !.buf = Put(@, r, m)]
       ELSE [t EXCEPT !.h = @ \o [i \in 1..whole |-> cut(i - 1)],
                      !.buf = Put(@, 0, SubSeq(m, whole * BlockLen + 1, Len(m)))]

sha256update(s, m) ==
    LET r == s.len % BlockLen
        fill == IF r = 0 THEN 0 ELSE BlockLen - r
        counted == [s EXCEPT !.len = @ + Len(m)]
        full == Put(s.buf, r, SubSeq(m, 1, fill))
        t == IF r = 0 THEN counted
             ELSE Compressed([counted EXCEPT !.buf = full], full)
        rest == SubSeq(m, fill + 1, Len(m))
        whole == Len(rest) \div BlockLen
        cut(i) == SubSeq(rest, i * BlockLen + 1, (i + 1) * BlockLen)
    IN IF r # 0 /\ Len(m) < fill
       THEN [counted EXCEPT !.buf = Put(@, r, m)]
       ELSE [t EXCEPT !.h = @ \o [i \in 1..whole |-> cut(i - 1)],
                      !.buf = Put(@, 0, SubSeq(rest, whole * BlockLen + 1, Len(rest)))]

pad(s) ==
    LET r == (s.len % BlockLen) + 1
        one == Put(s.buf, r - 1, <<Const(128)>>)
        full == Put(one, r, Zeros(BlockLen - r))
        t == IF r > BlockLen - LenLen
             THEN Compressed([s EXCEPT !.buf = full], full)
             ELSE [s EXCEPT !.buf = one]
        at == IF r > BlockLen - LenLen THEN 0 ELSE r
    IN Compressed(t, Put(Put(t.buf, at, Zeros(BlockLen - LenLen - at)),
                           BlockLen - LenLen, BigEndian(8 * s.len, LenLen)))

Digest(h) == [i \in 1..DigestLen |-> {<<"digest", h, i>>}]
sha256final(s) == Digest(pad(s).h)

\* A message given in pieces.
Updated(s, ms) == FoldLeft(sha256update, s, ms)
sha256(ms) == sha256final(Updated(sha256init, ms))

----------------------------------------------------------------------------
\* pad[i] ^= k[i], the rest of pad as it was set.
KeyPad(c, k) == [i \in 1..BlockLen |->
                   IF i <= Len(k) THEN XorByte(Const(c), k[i]) ELSE Const(c)]

hmacsha256init(key) ==
    LET k == IF Len(key) > BlockLen THEN sha256(<<key>>) ELSE key
    IN [inner |-> sha256update(sha256init, KeyPad(54, k)),
        outer |-> sha256update(sha256init, KeyPad(92, k))]
hmacsha256update(ctx, m) == [ctx EXCEPT !.inner = sha256update(@, m)]
hmacsha256final(ctx) ==
    sha256final(sha256update(ctx.outer, sha256final(ctx.inner)))
hmacsha256(key, m) ==
    hmacsha256final(hmacsha256update(hmacsha256init(key), m))

\* 32 bytes of HKDF: extract, and the expansion's one HMAC written out.
hkdfsha256(ikm, salt, info) ==
    LET prk == hmacsha256(salt, ikm)
        h == sha256(<<KeyPad(54, prk), info, <<Const(1)>>>>)
    IN sha256(<<KeyPad(92, prk), h>>)

----------------------------------------------------------------------------
(***************************************************************************)
(* The references: FIPS 180, RFC 2104 and RFC 5869, of whole messages.     *)
(***************************************************************************)
Hash(m) ==
    LET fill == CHOOSE k \in 0..(BlockLen - 1) :
                  (Len(m) + 1 + k + LenLen) % BlockLen = 0
        p == m \o <<Const(128)>> \o Zeros(fill) \o BigEndian(8 * Len(m), LenLen)
    IN Digest([i \in 1 .. Len(p) \div BlockLen |->
                 SubSeq(p, (i - 1) * BlockLen + 1, i * BlockLen)])
Hmac(key, m) ==
    LET k == IF Len(key) > BlockLen THEN Hash(key) ELSE key
        k0 == k \o Zeros(BlockLen - Len(k))
        under(c) == [i \in 1..BlockLen |-> XorByte(k0[i], Const(c))]
    IN Hash(under(92) \o Hash(under(54) \o m))
\* HKDF for one block of output: T(1) = HMAC(PRK, info | 1).
Hkdf(ikm, salt, info) == Hmac(Hmac(salt, ikm), Append(info, Const(1)))
=============================================================================
