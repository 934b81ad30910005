----------------------------- MODULE Primitives ------------------------------
(***************************************************************************)
(* The functions of src/agec/crypto and the two buffers everything else    *)
(* writes to, on chosen inputs: a job is drawn, one step does it (a sink   *)
(* takes one step for each write), and the result is compared with the     *)
(* document the function implements.                                       *)
(***************************************************************************)
EXTENDS Kdf, Aead, Rounds, Poly1305, Curve25519

CONSTANTS
    OuterSizes, InnerSizes,    \* sizes of the parts of a message
    MaxOuters,            \* bound: parts put around a message
    WriteSizes, MaxWrites,     \* sizes and number of the pieces written to a sink
    Gives,                \* bytes realloc() can give at one of these writes
    PieceSizes,           \* sizes of the three pieces of a hashed message
    LongSizes,            \* sizes of messages hashed in one piece, and of keys
    MacSizes,             \* sizes of the parts of an HMAC or HKDF input
    KeySizes, Rounds, KeyBytes,     \* PBKDF2: inputs, iterations, output
    Lanes, Costs, ChunkRs,          \* scrypt: p, N and r
    LaneSeeds,            \* contents of the lanes
    TextSizes, AdSizes,   \* sizes of a sealed text and of the data bound to it
    NonceTops,            \* first words of its nonce
    Places,               \* bytes of a sealed text at which it is changed
    HLimbs, CLimbs,       \* limbs of Poly1305's h, and of a block or a pad
    FeLows, FeHighs,      \* limbs of the factors of a field product, but for signs
    ChainModuli,          \* moduli under which the addition chain is computed
    ChainTail,            \* the exponent it must give: 2^ChainTail - 3
    Scalars, Points       \* inputs of x25519

ASSUME PrimitivesAssumption ==
    /\ OuterSizes \cup InnerSizes \subseteq Nat /\ Nul < 100
    /\ WriteSizes \subseteq 0 .. SizeVals - 1 /\ Gives \subseteq Nat
    /\ {MaxOuters, MaxWrites} \subseteq Nat
    /\ PieceSizes \cup LongSizes \cup MacSizes \subseteq Nat
    /\ KeySizes \cup KeyBytes \cup Lanes \cup LaneSeeds \subseteq Nat
    /\ Rounds \cup ChunkRs \cup Costs \subseteq Nat \ {0} /\ \A n \in Costs : n % 2 = 0
    /\ TextSizes \cup AdSizes \subseteq Nat /\ Places \subseteq Nat \ {0}
    /\ NonceTops \subseteq 0 .. WordVals - 1
    \* The high word of the counter does not wrap within a text.
    /\ \A t \in TextSizes, top \in NonceTops \cup {0} :
          top + (1 + t \div (2 * CipherKey)) \div WordVals < WordVals
    /\ HLimbs \cup CLimbs \subseteq 0 .. Limb - 1
    /\ Scalars \subseteq 0 .. 2^ScalarLen - 1 /\ Points \subseteq 0 .. 2^(Bits + 1) - 1

VARIABLES
    job,      \* what is to be computed
    result    \* and what came of it, once it has

vars == <<job, result>>

\* first is in the buffer already when it was set, else it is a string of its own.
BufferJobs ==
    [do : {"message"}, set : BOOLEAN, first : InnerSizes,
     outers : UNION {[1..k -> OuterSizes] : k \in 1..MaxOuters}]
    \cup [do : {"sink"}, sizes : [1..MaxWrites -> WriteSizes], gives : [1..MaxWrites -> Gives]]
Signed(S) == S \cup {0 - x : x \in S}

HashJobs ==
    [do : {"sha256"}, sizes : PieceSizes \X PieceSizes \X PieceSizes]
    \cup [do : {"sha256"}, sizes : LongSizes \X {0} \X {0}]
    \cup [do : {"hmac"}, key : MacSizes \cup LongSizes, text : MacSizes]
    \cup [do : {"hkdf"}, ikm : MacSizes, salt : MacSizes, info : MacSizes]
KdfJobs ==
    [do : {"pbkdf2"}, pass : KeySizes, salt : KeySizes, n : Rounds, bytes : KeyBytes]
    \cup [do : {"scrypt"}, seeds : UNION {[1..p -> LaneSeeds] : p \in Lanes},
          n : Costs, r : ChunkRs]
\* What becomes of a sealed text, or of what the reader opens it with.
Tampers ==
    [what : {"nothing", "key", "data"}, at : {0}] \cup [what : {"byte", "end"}, at : Places]
RoundJobs == [do : {"processblock", "salsa", "chacha20_rounds"}]
SealJobs ==
    [do : {"seal"}, ad : AdSizes, text : TextSizes, top : NonceTops, tamper : Tampers]
    \cup [do : {"keyenc"}, text : TextSizes, tamper : Tampers]
FieldJobs ==
    [do : {"block"}, h : HLimbs \X HLimbs \X (0..4), r : ClearedR,
     c : CLimbs \X CLimbs, end : {0, 1}]
    \cup [do : {"tag"}, h : HLimbs \X HLimbs \X (0..4), pad : CLimbs \X CLimbs]
    \cup [do : {"product"}, f : Signed(FeLows) \X FeHighs,
          g : FeLows \X Signed(FeHighs)]
    \cup [do : {"root"}, s : Points]
    \cup [do : {"chain"}, m : ChainModuli]
CurveJobs ==
    [do : {"x25519"}, priv : Scalars, pub : Points]
    \cup [do : {"agree"}, a : Scalars, b : Scalars]

Init ==
    /\ \/ job \in BufferJobs
       \/ job \in HashJobs
       \/ job \in KdfJobs
       \/ job \in SealJobs
       \/ job \in RoundJobs
       \/ job \in FieldJobs
       \/ job \in CurveJobs
    /\ result = <<>>

\* The data of a job.
Piece(i) == Named(<<"piece", i>>, job.sizes[i])
Pieces == [i \in 1..3 |-> Piece(i)]
Lane(seed) == <<>> \o [i \in 1..(2 * job.r) |-> (seed * (2 * i + 3) + i * i) % WordMod]
LanesOf == [i \in DOMAIN job.seeds |-> Lane(job.seeds[i])]
SealKey == Named("key", CipherKey)
OtherKey == Named("other", CipherKey)
Ad == Named("data", job.ad)
Clear == Named("text", job.text)
Nonce == IF job.do = "seal" THEN <<job.top, 1, 2>> ELSE <<0, 0, 0>>
Tampered(s) ==
    CASE job.tamper.what = "byte" /\ job.tamper.at <= Len(s) ->
           ReplaceAt(s, job.tamper.at, XorByte(s[job.tamper.at], Const(1)))
      [] job.tamper.what = "end" /\ job.tamper.at <= Len(s) ->
           SubSeq(s, 1, job.tamper.at - 1)
      [] OTHER -> s
Seen(k) == IF job.tamper.what = "key" THEN OtherKey ELSE k
Bound(ad) == IF job.tamper.what = "data" THEN Append(ad, {}) ELSE ad

\* Distinct characters, none of them special.
Characters(k, n) == [i \in 1..n |-> 100 * (k + 1) + i]
First == Characters(0, job.first)
Outers == [k \in DOMAIN job.outers |-> Characters(k, job.outers[k])]
Stale == [i \in 1..EbufSize |-> IF i = 1 THEN Nul ELSE 99]

\* An outer part is put around the message that is in the buffer.
WrapOwn(b, outer) == ewrap(b, outer, <<>>)
WrapText(inner, outer) == Wrapped(outer, inner)

Message ==
    /\ job.do = "message" /\ result = <<>>
    /\ result' =
         IF job.set THEN <<FoldLeft(WrapOwn, eset(Stale, First), Outers)>>
         ELSE <<FoldLeft(WrapOwn, ewrap(Stale, Outers[1], <<First>>), Tail(Outers))>>
\* One more write; result has the sink after each of them.
SinkAfter(i) == IF i = 0 THEN NewSink ELSE result[i]
Sink ==
    /\ job.do = "sink" /\ Len(result) < MaxWrites
    /\ LET i == Len(result) + 1
       IN result' = Append(result, memwrite(SinkAfter(i - 1), Piece(i), job.gives[i]))

Sha == /\ job.do = "sha256" /\ result = <<>>
       /\ result' = <<sha256(Pieces)>>
Mac == /\ job.do = "hmac" /\ result = <<>>
       /\ result' = <<hmacsha256(Named("key", job.key), Clear)>>
HkdfStep == /\ job.do = "hkdf" /\ result = <<>>
            /\ result' = <<hkdfsha256(Named("ikm", job.ikm), Named("salt", job.salt),
                                      Named("info", job.info))>>
Pbkdf2Step == /\ job.do = "pbkdf2" /\ result = <<>>
              /\ result' = <<pbkdf2(Named("pass", job.pass), Named("salt", job.salt),
                                    job.n, job.bytes)>>
ScryptStep == /\ job.do = "scrypt" /\ result = <<>>
              /\ result' = <<scrypt(LanesOf, job.n, job.r)>>

\* Two texts under one context, the first one read back in between.
Seal ==
    /\ job.do = "seal" /\ result = <<>>
    /\ LET w == chacha20poly1305write(chacha20poly1305init(SealKey, Nonce), Ad, Clear)
           reader == chacha20poly1305init(Seen(SealKey), Nonce)
           r == chacha20poly1305read(reader, Bound(Ad), Tampered(w.out))
       IN result' = <<w.out, r, reader, chacha20poly1305write(w.ctx, Ad, Clear).out,
                      chacha20poly1305write(r.ctx, Ad, Clear).out>>
KeyEnc ==
    /\ job.do = "keyenc" /\ result = <<>>
    /\ LET sealed == keyenc(SealKey, Clear)
       IN result' = <<sealed, keydec(Seen(SealKey), Tampered(sealed))>>

Round ==
    /\ job.do \in {"processblock", "salsa", "chacha20_rounds"} /\ result = <<>>
    /\ result' =
         CASE job.do = "processblock" -> <<FoldLeft(processblock, H0, TwoBlocks)>>
           [] job.do = "salsa" -> <<salsa(SalsaInput)>>
           [] job.do = "chacha20_rounds" ->
                <<chacha20_block(ChachaKey, ChachaCtr, ChachaNonce)>>

Field ==
    /\ job.do \in {"block", "tag", "product", "root", "chain"} /\ result = <<>>
    /\ result' =
         CASE job.do = "block" -> <<poly_block(job.h, job.r, job.c, job.end)>>
           [] job.do = "tag" -> <<poly_sum(job.h, job.pad)>>
           [] job.do = "product" ->
                <<fe_mul(job.f, job.g), fe_sq(fe_sub(job.f, job.g)),
                  fe_mul_small(job.f, A24), fe_tobytes(fe_mul(job.f, job.g))>>
           [] job.do = "root" ->
                LET x == fe_frombytes(job.s)
                IN <<x, fe_tobytes(x), invsqrt(x), fe_invert(x)>>
           [] job.do = "chain" -> <<ChainExponent(job.m)>>

X25519 ==
    /\ job.do = "x25519" /\ result = <<>>
    /\ result' = <<x25519(job.priv, job.pub)>>
Agree ==
    /\ job.do = "agree" /\ result = <<>>
    /\ LET own == <<job.a, job.b>>
           other == <<job.b, job.a>>
       IN result' = <<>> \o [i \in 1..2 |-> x25519(own[i], x25519pub(other[i]).out)]

Work == Message \/ Sink \/ Sha \/ Mac \/ HkdfStep \/ Pbkdf2Step \/ ScryptStep \/ Seal \/ KeyEnc
        \/ Round \/ Field \/ X25519 \/ Agree
Done == result # <<>> /\ UNCHANGED vars
Next == (Work /\ UNCHANGED job) \/ Done

Spec == Init /\ [][Next]_vars

-----------------------------------------------------------------------------
Finished(kind) == result # <<>> /\ job.do = kind

(***************************************************************************)
(* util.c: the message a failure leaves is every part in its order, cut at *)
(* the end of the buffer, also when a part lies in that buffer already;    *)
(* memio.c: after each write a sink holds what it held and the new piece,  *)
(* or, if there is no capacity for that or no memory, just what it held,   *)
(* and can be written to again; and its capacity, which memclose() wipes,  *)
(* is always what realloc() gave.                                          *)
(***************************************************************************)
BuffersExact ==
    /\ Finished("message") =>
         /\ Len(result[1]) = EbufSize
         /\ CString(result[1]) =
              FoldLeft(WrapText,
                       IF job.set /\ Len(First) >= EbufSize
                       THEN SubSeq(First, 1, EbufSize - 1) ELSE First, Outers)
    /\ job.do = "sink" =>
         \A i \in 1..Len(result) :
            LET before == SinkAfter(i - 1)
                after == SinkAfter(i)
                all == before.data \o Piece(i)
            IN /\ Len(after.data) <= after.cap /\ after.cap = after.room
               /\ after.ok <=> Len(all) <= before.cap \/ Holds(Len(all), job.gives[i])
               /\ after.data = IF after.ok THEN all ELSE before.data
               /\ ~after.ok => after.cap = before.cap

(***************************************************************************)
(* sha256.c, hmac.c, hkdf.c: the digest depends on the message and not on  *)
(* how it was cut, whatever was left in the buffer, and is that of the     *)
(* padded message of FIPS 180; HMAC and HKDF are those of the RFCs.        *)
(***************************************************************************)
HashExact ==
    /\ Finished("sha256") => result[1] = Hash(Piece(1) \o Piece(2) \o Piece(3))
    /\ Finished("hmac") => result[1] = Hmac(Named("key", job.key), Clear)
    /\ Finished("hkdf") =>
         result[1] = Hkdf(Named("ikm", job.ikm), Named("salt", job.salt),
                          Named("info", job.info))

(***************************************************************************)
(* scrypt.c: what is derived is RFC 8018's PBKDF2, and each lane is mixed  *)
(* as RFC 7914 says, whatever the lane before left in the shared buffers.  *)
(***************************************************************************)
KdfExact ==
    /\ Finished("pbkdf2") =>
         result[1] = Pbkdf2(Named("pass", job.pass), Named("salt", job.salt),
                            job.n, job.bytes)
    /\ Finished("scrypt") =>
         result[1] = [i \in DOMAIN job.seeds |-> ROMix(Lane(job.seeds[i]), job.n)]

(***************************************************************************)
(* chacha20poly1305.c, keyenc.c: a text is sealed as RFC 8439 says and     *)
(* opens to itself; changed anywhere, cut, or opened under another key or  *)
(* other data it is refused, with nothing written and the key as it was,   *)
(* and after it is opened both sides hold the same next key.  The sums and *)
(* products of Poly1305 over split numbers are those of the field, and h   *)
(* stays in the bounds poly_blocks relies on.                              *)
(***************************************************************************)
AeadExact ==
    /\ Finished("seal") =>
         LET sealed == Sealed(SealKey, Nonce, Ad, Clear)
             read == result[2]
             same == Tampered(sealed) = sealed /\ job.tamper.what \notin {"key", "data"}
         IN /\ result[1] = sealed
            /\ result[4] = Sealed(NextKey(SealKey, Nonce), Nonce, Ad, Clear)
            /\ read.mismatch <=> ~same
            /\ read.mismatch => read.out = <<>> /\ read.ctx = result[3]
            /\ ~read.mismatch => read.out = Clear /\ result[5] = result[4]
    /\ Finished("keyenc") =>
         LET sealed == Sealed(SealKey, Nonce, <<>>, Clear)
             same == Tampered(sealed) = sealed /\ job.tamper.what # "key"
         IN /\ result[1] = sealed
            /\ result[2] = [ok |-> same, out |-> IF same THEN Clear ELSE <<>>]
    /\ Finished("block") => BlockIsExact(job.h, job.r, job.c, job.end)
    /\ Finished("tag") => TagIsExact(job.h, job.pad)

(***************************************************************************)
(* The functions that are free above give the published answers: SHA-256   *)
(* of two chained blocks, a salsa20/8 core, a block of ChaCha20.           *)
(***************************************************************************)
RoundsExact ==
    /\ Finished("processblock") => result[1] = TwoBlocksHash
    /\ Finished("salsa") => result[1] = SalsaOutput
    /\ Finished("chacha20_rounds") => result[1] = ChachaOutput

Square(x) == (x * x) % Prime
\* The limbs as they are in the code.
WholeSize == INSTANCE Layout WITH Limbs <- 10, Narrow <- 25, Fold <- 19
(***************************************************************************)
(* curve25519.c: sums, products, roots and inverses over limbs are those   *)
(* of the field, every number below 2^Bits, canonical or not, is reduced,  *)
(* a product of whole-size limbs is added to the limb it belongs to, and   *)
(* the addition chain computes x^(2^252 - 3).  x25519 is RFC 7748's        *)
(* function for every scalar and every input, reduced or not, on the curve *)
(* or on its twist, and says so when nothing was contributed; two parties  *)
(* get the same secret.                                                    *)
(***************************************************************************)
CurveExact ==
    /\ Finished("product") =>
         /\ Value(result[1]) = (Value(job.f) * Value(job.g)) % Prime
         /\ Value(result[2]) = Square(Value(fe_sub(job.f, job.g)))
         /\ Value(result[3]) = (Value(job.f) * A24) % Prime
         /\ result[4] = Value(result[1])
    /\ Finished("root") =>
         LET x == (job.s % 2^Bits) % Prime
             isr == Value(result[3].isr)
             i == Value(sqrtm1)
         IN /\ Value(result[1]) = x /\ result[2] = x
            /\ result[3].square <=> \E y \in 0 .. Prime - 1 : Square(y) = x
            /\ CASE x = 0 -> isr = 0
                 [] x # 0 /\ result[3].square -> (Square(isr) * x) % Prime = 1
                 [] OTHER -> (Square(isr) * x) % Prime = i
            /\ Value(result[4]) = IF x = 0 THEN 0 ELSE Reciprocals[x]
    /\ Finished("chain") =>
         /\ result[1] = (PowerOfTwo(ChainTail, job.m) - 3) % job.m
         /\ WholeSize!FactorsAreExact /\ FactorsAreExact
    /\ Finished("x25519") =>
         LET x == Shared(ScalarOf(job.priv), job.pub)
         IN result[1] = [ok |-> x # 0, out |-> x]
    /\ Finished("agree") => result[1] = result[2] /\ result[1].ok
=============================================================================
