-------------------------------- MODULE Aead --------------------------------
(***************************************************************************)
(* crypto/chacha20poly1305.c and keyenc.c around the ChaCha20 rounds       *)
(* (module Rounds) and the Poly1305 arithmetic (module Poly1305), which    *)
(* are free here: a byte of the keystream or of a tag tells what it was    *)
(* made from.  Bytes and xor are those of Sha256.  A cipher block has      *)
(* 2 * CipherKey bytes, the MAC and the sizes have MacLen.                 *)
(***************************************************************************)
EXTENDS Sha256

CONSTANTS
    CipherKey,   \* bytes of a key, half a block of the keystream (32)
    MacLen,      \* bytes of a Poly1305 block and of a tag (16)
    WordVals     \* values of a 32-bit word of the block counter

ASSUME AeadAssumption ==
    {CipherKey, MacLen, WordVals} \subseteq Nat \ {0} /\ MacLen % 2 = 0

gap(x, n) == (n - (x % n)) % n

----------------------------------------------------------------------------
\* The counter is its two words; the first carries into the second.
Counted(ctr, k) ==
    <<(ctr[1] + k) % WordVals, (ctr[2] + (ctr[1] + k) \div WordVals) % WordVals>>

\* One block of the keystream: the constant, the key, the counter, the nonce.
StreamBlock(key, nonce, ctr) ==
    [i \in 1 .. 2 * CipherKey |-> {<<"stream", <<key, ctr, nonce>>, i>>}]

\* Whole blocks, then the last one, which may be short.
chacha20_djb(text, key, nonce, ctr) ==
    LET size == 2 * CipherKey
        block(i) == StreamBlock(key, nonce, Counted(ctr, i))
    IN [k \in DOMAIN text |->
          XorByte(text[k], block((k - 1) \div size)[((k - 1) % size) + 1])]

----------------------------------------------------------------------------
\* h is what poly_blocks was given: each block and its end bit.
poly1305_init(key) ==
    [key |-> key, h |-> <<>>, c |-> Named("stack", MacLen), c_idx |-> 0]

poly_blocks(ctx, blocks, end) ==
    [ctx EXCEPT !.h = @ \o [i \in DOMAIN blocks |-> <<blocks[i], end>>]]

poly1305_update(ctx, m) ==
    LET room == gap(ctx.c_idx, MacLen)
        aligned == IF room <= Len(m) THEN room ELSE Len(m)
        t == [ctx EXCEPT !.c = Put(@, ctx.c_idx, SubSeq(m, 1, aligned)),
                         !.c_idx = @ + aligned]
        u == IF t.c_idx = MacLen
             THEN [poly_blocks(t, <<t.c>>, 1) EXCEPT !.c_idx = 0] ELSE t
        rest == SubSeq(m, aligned + 1, Len(m))
        whole == Len(rest) \div MacLen
        cut(i) == SubSeq(rest, (i - 1) * MacLen + 1, i * MacLen)
        tail == SubSeq(rest, whole * MacLen + 1, Len(rest))
        v == poly_blocks(u, [i \in 1..whole |-> cut(i)], 1)
    IN IF m = <<>> THEN ctx
       ELSE [v EXCEPT !.c = Put(@, v.c_idx, tail), !.c_idx = @ + Len(tail)]

poly1305_final(ctx) ==
    LET last == SubSeq(ctx.c, 1, ctx.c_idx) \o <<Const(1)>>
        t == IF ctx.c_idx = 0 THEN ctx
             ELSE poly_blocks(ctx, <<last \o Zeros(MacLen - Len(last))>>, 0)
    IN [i \in 1..MacLen |-> {<<"tag", <<t.key, t.h>>, i>>}]

\* The lowest byte of a size first.
LittleEndian(n) == Reverse(BigEndian(n, MacLen \div 2))

\* Mutant of lock_auth: the text is not filled up to a block.
lock_auth_unaligned(auth_key, ad, text) ==
    poly1305_final(FoldLeft(poly1305_update, poly1305_init(auth_key),
        <<ad, Zeros(gap(Len(ad), MacLen)), text,
          LittleEndian(Len(ad)) \o LittleEndian(Len(text))>>))
lock_auth(auth_key, ad, text) ==
    poly1305_final(FoldLeft(poly1305_update, poly1305_init(auth_key),
        <<ad, Zeros(gap(Len(ad), MacLen)), text, Zeros(gap(Len(text), MacLen)),
          LittleEndian(Len(ad)) \o LittleEndian(Len(text))>>))

----------------------------------------------------------------------------
\* nonce is three words: the first starts the high word of the counter.
chacha20poly1305init(key, nonce) ==
    [key |-> key, nonce |-> <<nonce[2], nonce[3]>>, counter |-> <<0, nonce[1]>>]

Keystream(ctx) ==
    chacha20_djb(Zeros(2 * CipherKey), ctx.key, ctx.nonce, ctx.counter)
AuthKey(ctx) == SubSeq(Keystream(ctx), 1, CipherKey)
Rekeyed(ctx) ==
    [ctx EXCEPT !.key = SubSeq(Keystream(ctx), CipherKey + 1, 2 * CipherKey)]

chacha20poly1305write(ctx, ad, text) ==
    LET out == chacha20_djb(text, ctx.key, ctx.nonce, Counted(ctx.counter, 1))
    IN [out |-> out \o lock_auth(AuthKey(ctx), ad, out), ctx |-> Rekeyed(ctx)]

\* out is written, and the key replaced, only when the tags match.
chacha20poly1305read(ctx, ad, in) ==
    LET n == Len(in) - MacLen
        text == SubSeq(in, 1, n)
        mismatch == \/ n < 0
                    \/ SubSeq(in, n + 1, Len(in)) # lock_auth(AuthKey(ctx), ad, text)
    IN IF mismatch THEN [mismatch |-> TRUE, out |-> <<>>, ctx |-> ctx]
       ELSE [mismatch |-> FALSE,
             out |-> chacha20_djb(text, ctx.key, ctx.nonce, Counted(ctx.counter, 1)),
             ctx |-> Rekeyed(ctx)]

keyenc(key, filekey) ==
    chacha20poly1305write(chacha20poly1305init(key, <<0, 0, 0>>), <<>>, filekey).out
keydec(key, in) ==
    LET r == chacha20poly1305read(chacha20poly1305init(key, <<0, 0, 0>>), <<>>, in)
    IN [ok |-> ~r.mismatch, out |-> r.out]

----------------------------------------------------------------------------
(***************************************************************************)
(* The reference, RFC 8439: block n of the keystream for counter n; the    *)
(* first makes the MAC key, which covers the data and the text, each       *)
(* filled with zeros, and their sizes.  The other half of the first block  *)
(* is the next key (Monocypher).                                           *)
(***************************************************************************)
StreamByte(key, nonce, n, i) ==
    <<"stream", <<key, <<n % WordVals, nonce[1] + n \div WordVals>>,
                  <<nonce[2], nonce[3]>> >>, i>>
Sealed(key, nonce, ad, text) ==
    LET size == 2 * CipherKey
        cipher == [k \in DOMAIN text |->
                     XorByte(text[k], {StreamByte(key, nonce, 1 + (k - 1) \div size,
                                                  ((k - 1) % size) + 1)})]
        filled(s) == s \o Zeros((MacLen - (Len(s) % MacLen)) % MacLen)
        covered == filled(ad) \o filled(cipher)
                   \o LittleEndian(Len(ad)) \o LittleEndian(Len(text))
        blocks == [i \in 1 .. Len(covered) \div MacLen |->
                     <<SubSeq(covered, (i - 1) * MacLen + 1, i * MacLen), 1>>]
        mackey == [i \in 1..CipherKey |-> {StreamByte(key, nonce, 0, i)}]
    IN cipher \o [i \in 1..MacLen |-> {<<"tag", <<mackey, blocks>>, i>>}]
NextKey(key, nonce) ==
    [i \in 1..CipherKey |-> {StreamByte(key, nonce, 0, CipherKey + i)}]
=============================================================================
