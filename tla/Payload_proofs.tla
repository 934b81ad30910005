--------------------------- MODULE Payload_proofs ----------------------------
(***************************************************************************)
(* TLAPS proofs about Payload, for every chunk length, tag length, counter *)
(* size and length of stream.                                              *)
(***************************************************************************)
EXTENDS Payload, NatFacts, SequenceTheorems

\* A byte of a stream.
SealedByte(k, last, data, j) == [ctr |-> k, last |-> last, data |-> data, i |-> j]
Byte == [ctr : 0..(CtrLimit - 1), last : BOOLEAN, data : Seq(Nat), i : Nat]

\* Chunk k of the plaintext, and the bytes plencrypt makes: of one chunk, under
\* its nonce; or noise.
Data(k) == SubSeq(Bytes(n), k * ChunkLen + 1, Least((k + 1) * ChunkLen, n))
Genuine(b) == b.i # 0 => /\ b.data = Data(b.ctr)
                         /\ b.last <=> (b.ctr + 1) * ChunkLen >= n
GenuineBytes == {b \in Byte : Genuine(b)}

Making == {"plencrypt", "other"}
PayloadTypeOK ==
    /\ by \in Making /\ n \in Nat /\ ct \in Seq(Byte) /\ pos \in Nat
    /\ ctr \in 0..(CtrLimit - 1) /\ i \in Int /\ rel \in Seq(Nat) /\ edits \in Nat
    /\ ph \in Making \cup {"transport", "pldecrypt"} \cup Outcomes

\* Nothing has been read yet.
Unread ==
    /\ ph \in Making \cup {"transport"} => rel = <<>> /\ (ph = by \/ ph = "transport")
    /\ ph = "other" => pos = 0
    /\ ph = "unwritten" => by = "plencrypt"
    /\ ph \in {"plencrypt", "transport"} => i = 0
    /\ ph = "transport" => ctr = 0 /\ pos = 0

\* The stream of plencrypt.
Written ==
    by = "plencrypt" =>
        /\ ct \in Seq(GenuineBytes)
        /\ edits = 0 => \A j \in 1..Len(ct) : j = ct[j].ctr * SealLen + ct[j].i
        /\ ph = "plencrypt" => /\ edits = 0 /\ Len(ct) = ctr * SealLen
                               /\ pos = ctr * ChunkLen
        /\ ph = "unwritten" => Chunks(n) > CtrLimit

\* The chunks pldecrypt has read are the stream of what it has released, but for
\* the end.  A stream of more than IntMax chunks (128 TiB) overflows its int i.
Short == Len(ct) <= IntMax * SealLen
ChunksOf(text, c) ==
    \A k \in 0..(c - 1), j \in 1..SealLen :
        ct[k * SealLen + j] =
            SealedByte(k, FALSE, SubSeq(text, k * ChunkLen + 1, (k + 1) * ChunkLen), j)
Read ==
    ph = "pldecrypt" =>
        /\ pos = ctr * SealLen /\ pos <= Len(ct) /\ (ctr = 0 \/ pos < Len(ct))
        /\ Short => i = ctr
        /\ Len(rel) = ctr * ChunkLen /\ ChunksOf(rel, ctr)
        /\ by = "plencrypt" => rel = Bytes(Least(ctr * ChunkLen, n))

\* What pldecrypt has released of plencrypt's plaintext is its first m bytes.
Released == by = "plencrypt" => \E m \in 0..n : rel = Bytes(m)

\* The inductive invariant.
IInv == /\ PayloadTypeOK /\ Unread /\ Written /\ Read /\ Released
        /\ Short => AcceptsExactlyTheStream

-----------------------------------------------------------------------------
(* Sizes, chunks and the bytes of a seal. *)

LEMMA Sizes ==
    /\ ChunkLen \in Nat \ {0} /\ TagLen \in Nat \ {0} /\ CtrLimit \in Nat \ {0}
    /\ IntMax \in Nat \ {0} /\ SealLen \in Nat \ {0} /\ SealLen = ChunkLen + TagLen
    /\ MaxLen \in Nat
  BY SizeAssumption DEF SealLen

LEMMA LeastIs ==
    ASSUME NEW x \in Int, NEW y \in Int
    PROVE  /\ Least(x, y) \in Int /\ Least(x, y) <= x /\ Least(x, y) <= y
           /\ Least(x, y) = x \/ Least(x, y) = y
           /\ x <= y => Least(x, y) = x
           /\ y <= x => Least(x, y) = y
  BY DEF Least

LEMMA BytesIs ==
    ASSUME NEW m \in Nat
    PROVE  Bytes(m) \in Seq(Nat) /\ Len(Bytes(m)) = m /\ \A j \in 1..m : Bytes(m)[j] = j
<1>1. Bytes(m) = [j \in 1..m |-> j]
  BY DEF Bytes
<1> QED
  BY <1>1

LEMMA FunctionIsSeq ==
    ASSUME NEW N \in Nat, NEW S, NEW f, f = [x \in 1..N |-> f[x]], \A x \in 1..N : f[x] \in S
    PROVE  f \in Seq(S)
<1>1. [x \in 1..N |-> f[x]] \in Seq(S)
  BY IsASeq
<1> QED
  BY <1>1

\* encchunk() adds a tag; each byte shows where it belongs.
LEMMA SealIs ==
    ASSUME NEW k, NEW last, NEW data \in Seq(Nat)
    PROVE  /\ Len(Seal(k, last, data)) = Len(data) + TagLen
           /\ DOMAIN Seal(k, last, data) = 1..(Len(data) + TagLen)
           /\ \A j \in 1..(Len(data) + TagLen) :
                 Seal(k, last, data)[j] = SealedByte(k, last, data, j)
<1>1. Len(data) + TagLen \in Nat
  BY Sizes
<1>2. Seal(k, last, data) = [j \in 1..(Len(data) + TagLen) |-> SealedByte(k, last, data, j)]
  BY DEF Seal, SealedByte
<1> QED
  BY <1>1, <1>2

LEMMA SealType ==
    ASSUME NEW S, NEW k, NEW last, NEW data \in Seq(Nat),
           \A j \in 1..(Len(data) + TagLen) : SealedByte(k, last, data, j) \in S
    PROVE  Seal(k, last, data) \in Seq(S)
<1>1. Len(data) + TagLen \in Nat
  BY Sizes
<1>2. Seal(k, last, data) = [j \in 1..(Len(data) + TagLen) |-> SealedByte(k, last, data, j)]
  BY DEF Seal, SealedByte
<1> QED
  BY <1>1, <1>2, IsASeq

\* Data(k) is where the first (k + 1) * ChunkLen bytes begin and end.
LEMMA DataIs ==
    ASSUME n \in Nat, NEW k \in Nat
    PROVE  /\ Data(k) \in Seq(Nat)
           /\ Len(Data(k)) = Least((k + 1) * ChunkLen, n) - Least(k * ChunkLen, n)
           /\ Bytes(Least(k * ChunkLen, n)) \o Data(k) = Bytes(Least((k + 1) * ChunkLen, n))
<1> DEFINE a == k * ChunkLen
           b == Least((k + 1) * ChunkLen, n)
<1>1. a \in Nat /\ (k + 1) * ChunkLen = a + ChunkLen
  BY Sizes, Multiples
<1> DEFINE c == Least(a, n)
<1>2. b = Least(a + ChunkLen, n)
  BY <1>1
<1> HIDE DEF a, b
<1>3. b \in Nat /\ b <= n /\ b <= a + ChunkLen /\ (b = n \/ b = a + ChunkLen)
  BY <1>1, <1>2, Sizes DEF Least
<1>4. c \in Nat /\ c <= b /\ (IF a <= n THEN c = a ELSE c = n /\ b = n)
  BY <1>1, <1>2, Sizes DEF Least
<1> HIDE DEF c
<1>5. /\ Data(k) \in Seq(Nat)
      /\ Len(Data(k)) = b - c
      /\ \A j \in 1..(b - c) : Data(k)[j] = c + j
  <2>1. Data(k) = SubSeq(Bytes(n), a + 1, b)
    BY DEF Data, a, b
  <2>2. \A j \in 1..n : Bytes(n)[j] = j
    BY BytesIs
  <2>3. \A j \in (a + 1)..b : Bytes(n)[j] \in Nat
    <3>1. ASSUME NEW j \in (a + 1)..b PROVE Bytes(n)[j] \in Nat
      <4>1. j \in 1..n
        BY <1>1, <1>3
      <4> QED
        BY <2>2, <4>1
    <3> QED
      BY <3>1
  <2>4. a + 1 \in Int /\ b \in Int
    BY <1>1, <1>3
  <2>5. /\ Data(k) \in Seq(Nat)
        /\ Len(Data(k)) = IF a + 1 <= b THEN b - (a + 1) + 1 ELSE 0
        /\ \A j \in 1..(b - (a + 1) + 1) : Data(k)[j] = Bytes(n)[(a + 1) + j - 1]
    BY <2>1, <2>3, <2>4, SubSeqProperties
  <2>6. Len(Data(k)) = b - c
    BY <1>1, <1>3, <1>4, <2>5, Sizes
  <2>7. ASSUME NEW j \in 1..(b - c) PROVE Data(k)[j] = c + j
    <3>1. c = a /\ j \in 1..(b - (a + 1) + 1) /\ (a + 1) + j - 1 \in 1..n /\ (a + 1) + j - 1 = c + j
      BY <1>1, <1>3, <1>4
    <3> QED
      BY <2>2, <2>5, <3>1
  <2> QED
    BY <2>5, <2>6, <2>7
<1>6. Bytes(c) \o Data(k) = Bytes(b)
  <2>1. c \in Nat /\ b \in Nat /\ c <= b
    BY <1>3, <1>4
  <2>2. /\ Bytes(c) \in Seq(Nat) /\ Len(Bytes(c)) = c /\ \A j \in 1..c : Bytes(c)[j] = j
        /\ Bytes(b) \in Seq(Nat) /\ Len(Bytes(b)) = b /\ \A j \in 1..b : Bytes(b)[j] = j
    BY <2>1, BytesIs
  <2>3. /\ Bytes(c) \o Data(k) \in Seq(Nat)
        /\ Len(Bytes(c) \o Data(k)) = c + (b - c)
        /\ \A j \in 1..(c + (b - c)) : (Bytes(c) \o Data(k))[j] =
              IF j <= c THEN Bytes(c)[j] ELSE Data(k)[j - c]
    <3>1. /\ Bytes(c) \o Data(k) \in Seq(Nat)
          /\ Len(Bytes(c) \o Data(k)) = Len(Bytes(c)) + Len(Data(k))
          /\ \A j \in 1..(Len(Bytes(c)) + Len(Data(k))) : (Bytes(c) \o Data(k))[j] =
                IF j <= Len(Bytes(c)) THEN Bytes(c)[j] ELSE Data(k)[j - Len(Bytes(c))]
      BY <1>5, <2>2, ConcatProperties
    <3> QED
      BY <1>5, <2>2, <3>1
  <2>4. \A j \in 1..b : (Bytes(c) \o Data(k))[j] = Bytes(b)[j]
    <3>1. TAKE j \in 1..b
    <3>2. CASE j <= c
      BY <2>1, <2>2, <2>3, <3>2
    <3>3. CASE ~(j <= c)
      <4>1. j - c \in 1..(b - c)
        BY <2>1, <3>3
      <4>2. Data(k)[j - c] = j
        BY <1>5, <2>1, <4>1
      <4> QED
        BY <2>1, <2>2, <2>3, <3>3, <4>2, SMTT(30)
    <3> QED
      BY <3>2, <3>3
  <2>5. c + (b - c) = b
    BY <2>1
  <2> QED
    BY <2>2, <2>3, <2>4, <2>5, SeqEqual
<1> QED
  BY <1>5, <1>6 DEF a, b, c

\* How many chunks m bytes take: they begin in the last of them and end there.
LEMMA ChunksIs ==
    ASSUME NEW m \in Nat
    PROVE  /\ Chunks(m) \in Nat \ {0} /\ m <= Chunks(m) * ChunkLen
           /\ m = 0 => Chunks(m) = 1
           /\ m # 0 => (Chunks(m) - 1) * ChunkLen < m
<1> DEFINE a == m + ChunkLen - 1
           q == a \div ChunkLen
<1>1. a \in Nat /\ (m # 0 => a >= ChunkLen)
  BY Sizes
<1>2. q \in Nat /\ q * ChunkLen <= a /\ a < q * ChunkLen + ChunkLen
  BY <1>1, Sizes, Quotient
<1>3. CASE m = 0
  BY <1>3, Sizes DEF Chunks
<1>4. CASE m # 0
  <2>1. Chunks(m) = q
    BY <1>4 DEF Chunks
  <2> DEFINE p == q * ChunkLen
  <2>2. p \in Nat /\ q # 0
    BY <1>1, <1>2, <1>4, Sizes
  <2> HIDE DEF q
  <2>3. (q - 1) * ChunkLen = p - ChunkLen
    <3>1. q - 1 \in Nat /\ (q - 1) + 1 = q
      BY <1>2, <2>2
    <3>2. ((q - 1) + 1) * ChunkLen = (q - 1) * ChunkLen + ChunkLen /\ (q - 1) * ChunkLen \in Nat
      BY <3>1, Sizes, Multiples
    <3>3. p = (q - 1) * ChunkLen + ChunkLen
      BY <3>1, <3>2
    <3> HIDE DEF p
    <3> DEFINE r == (q - 1) * ChunkLen
    <3> HIDE DEF r
    <3>4. r = p - ChunkLen
      BY <3>2, <3>3, Sizes DEF r
    <3> QED
      BY <3>4 DEF r
  <2>4. m <= p /\ p - ChunkLen < m
    <3> HIDE DEF p
    <3>1. a = m + ChunkLen - 1 /\ p <= a /\ a < p + ChunkLen
      BY <1>2 DEF p
    <3> QED
      BY <1>1, <2>2, <3>1, Sizes
  <2> QED
    BY <1>2, <1>4, <2>1, <2>2, <2>3, <2>4
<1> QED
  BY <1>3, <1>4

\* There is only one such number.
LEMMA ChunksUnique ==
    ASSUME NEW m \in Nat, NEW q \in Nat \ {0}, m <= q * ChunkLen,
           m # 0 => (q - 1) * ChunkLen < m, m = 0 => q = 1
    PROVE  Chunks(m) = q
<1>1. CASE m = 0
  BY <1>1, ChunksIs
<1>2. CASE m # 0
  <2>1. /\ Chunks(m) - 1 \in Nat /\ q - 1 \in Nat /\ Chunks(m) - 1 + 1 = Chunks(m) /\ q - 1 + 1 = q
        /\ (Chunks(m) - 1) * ChunkLen < m /\ m <= Chunks(m) * ChunkLen
    BY <1>2, ChunksIs
  <2> DEFINE x == Chunks(m) - 1
             y == q - 1
  <2>2. x * ChunkLen \in Nat /\ y * ChunkLen \in Nat
        /\ (x + 1) * ChunkLen = x * ChunkLen + ChunkLen
        /\ (y + 1) * ChunkLen = y * ChunkLen + ChunkLen
    BY <2>1, Sizes, Multiples
  <2>3. x \in Nat /\ y \in Nat /\ x * ChunkLen < m /\ m <= (x + 1) * ChunkLen
        /\ y * ChunkLen < m /\ m <= (y + 1) * ChunkLen
    BY <1>2, <2>1
  <2>4. x = q - 1 => Chunks(m) = q
    BY <2>1
  <2> DEFINE xs == x * ChunkLen
             ys == y * ChunkLen
             b == m - 1
  <2> HIDE DEF x
  <2>5. /\ b \in Int /\ xs <= b /\ b < xs + ChunkLen /\ ys <= b /\ b < ys + ChunkLen
    <3>1. xs \in Nat /\ ys \in Nat /\ xs < m /\ m <= xs + ChunkLen /\ ys < m /\ m <= ys + ChunkLen
      BY <2>2, <2>3
    <3> HIDE DEF xs, ys
    <3> QED
      BY <3>1, Sizes
  <2>6. x = y
    <3> HIDE DEF y, b
    <3> QED
      BY <2>3, <2>5, Sizes, SameMultiple
  <2> QED
    BY <2>4, <2>6
<1> QED
  BY <1>1, <1>2

\* incnonce()
LEMMA NonceIs ==
    ASSUME NEW k \in 0..(CtrLimit - 1)
    PROVE  /\ IncNonce(k) \in 0..(CtrLimit - 1)
           /\ Wrapped(k) <=> k + 1 = CtrLimit
           /\ ~Wrapped(k) => IncNonce(k) = k + 1
  BY Sizes DEF IncNonce, Wrapped

-----------------------------------------------------------------------------
(* Every step preserves the inductive invariant. *)

\* Where the outcome is not one of pldecrypt's, nothing is said of it.
LEMMA NoOutcome ==
    ASSUME ph' \notin {"ok", "emptychunk", "refused", "toolong"}
    PROVE  AcceptsExactlyTheStream'
  BY DEF AcceptsExactlyTheStream

LEMMA InitIInv == Init => IInv
<1> SUFFICES ASSUME Init PROVE IInv
  OBVIOUS
<1>1. n \in Nat /\ ph = by /\ ph \in Making
  BY Sizes DEF Init, Making
<1>2. PayloadTypeOK
  BY <1>1, Sizes, EmptySeq DEF Init, PayloadTypeOK
<1>3. Unread /\ Read
  BY <1>1 DEF Init, Unread, Read, Making
<1>4. Written
  <2>1. ct = <<>> /\ Len(ct) = 0 /\ <<>> \in Seq(GenuineBytes) /\ ctr = 0 /\ pos = 0
    BY EmptySeq DEF Init
  <2>2. 0 * SealLen = 0 /\ 0 * ChunkLen = 0
    BY Sizes
  <2> QED
    BY <1>1, <2>1, <2>2 DEF Init, Written, Making
<1>5. Released
  <2>1. Bytes(0) = <<>>
    BY DEF Bytes
  <2> QED
    BY <1>1, <2>1 DEF Init, Released
<1>6. AcceptsExactlyTheStream
  BY <1>1 DEF AcceptsExactlyTheStream, Making
<1> QED
  BY <1>2, <1>3, <1>4, <1>5, <1>6 DEF IInv

\* plencrypt's loop: the bytes added are those of chunk ctr of the plaintext, at
\* the place of chunk ctr, and the counter does not come back to a value used.
LEMMA EncChunkIInv == ASSUME IInv, EncChunk PROVE IInv'
<1> DEFINE end == Least(pos + ChunkLen, n)
           last == AtEof(end, n)
           data == SubSeq(Bytes(n), pos + 1, end)
           seal == Seal(ctr, last, data)
<1>1. /\ ph = "plencrypt" /\ by = "plencrypt" /\ UNCHANGED <<by, n, i, rel, edits>>
      /\ ct' = ct \o seal
      /\ pos' = (IF last THEN 0 ELSE end)
      /\ ctr' = (IF last THEN 0 ELSE IncNonce(ctr))
      /\ ph' = (IF last THEN "transport" ELSE IF Wrapped(ctr) THEN "unwritten" ELSE ph)
  BY DEF EncChunk, IInv, Unread, Making
<1> HIDE DEF end, last, data, seal
<1>2. /\ n \in Nat /\ ctr \in 0..(CtrLimit - 1) /\ rel = <<>> /\ i = 0
      /\ ct \in Seq(GenuineBytes) /\ Len(ct) = ctr * SealLen /\ pos = ctr * ChunkLen /\ edits = 0
      /\ \A j \in 1..Len(ct) : j = ct[j].ctr * SealLen + ct[j].i
  <2>1. PayloadTypeOK /\ Unread /\ Written
    BY DEF IInv
  <2>2. n \in Nat /\ ctr \in 0..(CtrLimit - 1)
    BY <2>1 DEF PayloadTypeOK
  <2>3. rel = <<>> /\ i = 0
    BY <1>1, <2>1 DEF Unread, Making
  <2>4. /\ ct \in Seq(GenuineBytes) /\ Len(ct) = ctr * SealLen /\ pos = ctr * ChunkLen /\ edits = 0
        /\ \A j \in 1..Len(ct) : j = ct[j].ctr * SealLen + ct[j].i
    BY <1>1, <2>1 DEF Written
  <2> QED
    BY <2>2, <2>3, <2>4
<1>3. /\ ctr \in Nat /\ pos \in Nat /\ (ctr + 1) * ChunkLen = pos + ChunkLen
      /\ Len(ct) \in Nat /\ (ctr + 1) * SealLen = Len(ct) + SealLen
  <2>1. ctr \in Nat
    BY <1>2, Sizes
  <2>2. /\ ctr * ChunkLen \in Nat /\ (ctr + 1) * ChunkLen = ctr * ChunkLen + ChunkLen
        /\ ctr * SealLen \in Nat /\ (ctr + 1) * SealLen = ctr * SealLen + SealLen
    BY <2>1, Sizes, Multiples
  <2> QED
    BY <1>2, <2>1, <2>2
<1>4. /\ end = Least((ctr + 1) * ChunkLen, n)
      /\ last <=> (ctr + 1) * ChunkLen >= n
      /\ end \in Nat
      /\ ~last => end = pos + ChunkLen /\ end < n
      /\ last \in BOOLEAN
  <2>1. end = Least(pos + ChunkLen, n) /\ (last <=> end = n) /\ last \in BOOLEAN
    BY DEF end, last, AtEof
  <2>2. /\ end \in Nat /\ (end = n <=> pos + ChunkLen >= n)
        /\ end # n => end = pos + ChunkLen /\ end < n
    BY <1>2, <1>3, <2>1, Sizes DEF Least
  <2> QED
    BY <1>3, <2>1, <2>2
<1>5. /\ data = Data(ctr) /\ data \in Seq(Nat) /\ Len(data) \in Nat
      /\ ~last => Len(data) = ChunkLen
  <2>1. data = Data(ctr)
    BY <1>2, <1>4 DEF Data, data
  <2>2. data \in Seq(Nat) /\ Len(data) = end - Least(pos, n)
    BY <1>2, <1>3, <1>4, <2>1, DataIs
  <2>3. ~last => Least(pos, n) = pos /\ end - pos = ChunkLen
    BY <1>2, <1>3, <1>4, Sizes DEF Least
  <2> QED
    BY <2>1, <2>2, <2>3, LenProperties
<1>7. \A j \in 1..(Len(data) + TagLen) : SealedByte(ctr, last, data, j) \in GenuineBytes
  <2>1. TAKE j \in 1..(Len(data) + TagLen)
  <2> DEFINE b == SealedByte(ctr, last, data, j)
  <2>2. j \in Nat
    BY <1>5, Sizes
  <2>3. b.ctr = ctr /\ b.data = data /\ b.i = j /\ b.last = last
    BY DEF SealedByte
  <2>4. b \in Byte
    BY <1>2, <1>4, <1>5, <2>2 DEF Byte, SealedByte
  <2> HIDE DEF b
  <2>5. Genuine(b)
    BY <1>4, <1>5, <2>3 DEF Genuine
  <2> QED
    BY <2>4, <2>5 DEF GenuineBytes, b
<1>8. /\ seal \in Seq(GenuineBytes) /\ Len(seal) = Len(data) + TagLen
      /\ \A j \in 1..(Len(data) + TagLen) : seal[j].ctr = ctr /\ seal[j].i = j
  <2>1. seal = Seal(ctr, last, data)
    BY DEF seal
  <2>2. Seal(ctr, last, data) \in Seq(GenuineBytes)
    BY <1>5, <1>7, SealType
  <2>3. /\ Len(Seal(ctr, last, data)) = Len(data) + TagLen
        /\ \A j \in 1..(Len(data) + TagLen) : Seal(ctr, last, data)[j] = SealedByte(ctr, last, data, j)
    BY <1>5, SealIs
  <2>4. \A j : SealedByte(ctr, last, data, j).ctr = ctr /\ SealedByte(ctr, last, data, j).i = j
    BY DEF SealedByte
  <2> QED
    BY <2>1, <2>2, <2>3, <2>4
<1>9. /\ ct' \in Seq(GenuineBytes) /\ Len(ct') = Len(ct) + (Len(data) + TagLen)
      /\ \A j \in 1..(Len(ct) + Len(seal)) : ct'[j] = IF j <= Len(ct) THEN ct[j] ELSE seal[j - Len(ct)]
  <2>1. /\ ct \o seal \in Seq(GenuineBytes) /\ Len(ct \o seal) = Len(ct) + Len(seal)
        /\ \A j \in 1..(Len(ct) + Len(seal)) : (ct \o seal)[j] = IF j <= Len(ct) THEN ct[j] ELSE seal[j - Len(ct)]
    BY <1>2, <1>8, ConcatProperties
  <2> QED
    BY <1>1, <1>8, <2>1
<1>10. ASSUME NEW j \in 1..Len(ct') PROVE j = ct'[j].ctr * SealLen + ct'[j].i
  <2>1. Len(ct) \in Nat /\ Len(seal) \in Nat /\ Len(ct') = Len(ct) + Len(seal) /\ j \in 1..(Len(ct) + Len(seal))
    BY <1>3, <1>5, <1>8, <1>9, Sizes
  <2>2. CASE j <= Len(ct)
    <3>1. ct'[j] = ct[j] /\ j \in 1..Len(ct)
      BY <1>9, <2>1, <2>2
    <3> QED
      BY <1>2, <3>1
  <2>3. CASE ~(j <= Len(ct))
    <3>1. j - Len(ct) \in 1..Len(seal) /\ ct'[j] = seal[j - Len(ct)]
      BY <1>9, <2>1, <2>3
    <3>2. ct'[j].ctr = ctr /\ ct'[j].i = j - Len(ct)
      BY <1>8, <3>1
    <3>3. ct'[j].ctr * SealLen = Len(ct)
      BY <1>2, <3>2
    <3> QED
      BY <2>1, <3>2, <3>3
  <2> QED
    BY <2>2, <2>3
<1>11. /\ ctr' \in 0..(CtrLimit - 1) /\ pos' \in Nat
       /\ ~last /\ ~Wrapped(ctr) => ctr' = ctr + 1
  <2>1. /\ IncNonce(ctr) \in 0..(CtrLimit - 1)
        /\ ~Wrapped(ctr) => IncNonce(ctr) = ctr + 1
    BY <1>2, NonceIs
  <2>2. 0 \in 0..(CtrLimit - 1) /\ 0 \in Nat
    BY Sizes
  <2>3. CASE last
    BY <1>1, <2>2, <2>3
  <2>4. CASE ~last
    BY <1>1, <1>4, <2>1, <2>4
  <2> QED
    BY <2>3, <2>4
<1>12. PayloadTypeOK'
  <2>1. GenuineBytes \subseteq Byte
    BY DEF GenuineBytes
  <2>2. ct' \in Seq(Byte)
    BY <1>9, <2>1, SeqMonotonic
  <2> QED
    BY <1>1, <1>11, <2>2 DEF IInv, PayloadTypeOK, Outcomes, Making
<1>13. Unread' /\ Read' /\ Released'
  BY <1>1, <1>2 DEF IInv, Unread, Read, Released, Making
<1>14. GenuineBytes' = GenuineBytes
  BY <1>1 DEF GenuineBytes, Genuine, Data
<1>15. ph' = "plencrypt" => Len(ct') = ctr' * SealLen /\ pos' = ctr' * ChunkLen
  <2> SUFFICES ASSUME ph' = "plencrypt" PROVE Len(ct') = ctr' * SealLen /\ pos' = ctr' * ChunkLen
    OBVIOUS
  <2>1. ~last /\ ~Wrapped(ctr)
    BY <1>1
  <2>2. ctr' = ctr + 1 /\ pos' = pos + ChunkLen
    BY <1>1, <1>4, <1>11, <2>1
  <2>3. Len(ct') = Len(ct) + SealLen
    BY <1>5, <1>9, <2>1, Sizes
  <2> QED
    BY <1>3, <2>2, <2>3
<1>16. ph' = "unwritten" => Chunks(n) > CtrLimit
  <2>0. Chunks(n) \in Nat /\ CtrLimit \in Nat /\ n \in Nat
    BY <1>2, ChunksIs, Sizes
  <2> SUFFICES ASSUME ph' = "unwritten", Chunks(n) <= CtrLimit PROVE FALSE
    BY <2>0
  <2>1. ~last /\ ctr + 1 = CtrLimit
    BY <1>1, <1>2, NonceIs
  <2>2. CtrLimit * ChunkLen < n
    BY <1>3, <1>4, <2>1
  <2>3. Chunks(n) \in Nat /\ n <= Chunks(n) * ChunkLen
    BY <1>2, ChunksIs
  <2>4. /\ Chunks(n) * ChunkLen <= CtrLimit * ChunkLen
        /\ CtrLimit * ChunkLen \in Nat /\ Chunks(n) * ChunkLen \in Nat
    BY <2>3, Sizes, Multiples
  <2> DEFINE x == CtrLimit * ChunkLen
             y == Chunks(n) * ChunkLen
  <2> HIDE DEF x, y
  <2>5. x < n /\ n <= y /\ y <= x /\ x \in Nat /\ y \in Nat /\ n \in Nat
    BY <2>0, <2>2, <2>3, <2>4 DEF x, y
  <2> QED
    BY <2>5
<1>17. Written'
  BY <1>1, <1>2, <1>9, <1>10, <1>14, <1>15, <1>16 DEF Written, Chunks
<1>18. AcceptsExactlyTheStream'
  BY <1>1, NoOutcome
<1> QED
  BY <1>12, <1>13, <1>17, <1>18 DEF IInv

\* An error of reading or writing, or nothing at all.
LEMMA FailsIInv == ASSUME IInv, EncFails \/ DecFails \/ UNCHANGED vars PROVE IInv'
<1>1. /\ UNCHANGED <<by, n, ct, pos, ctr, i, rel, edits>>
      /\ ph' = "failed" \/ ph' = ph
  BY DEF EncFails, DecFails, vars
<1>2. GenuineBytes' = GenuineBytes /\ Short' = Short
  BY <1>1 DEF GenuineBytes, Genuine, Data, Short
<1>3. CASE ph' = "failed"
  <2>1. PayloadTypeOK' /\ Unread' /\ Read' /\ Released'
    BY <1>1, <1>3 DEF IInv, PayloadTypeOK, Unread, Read, Released, Outcomes, Making
  <2>2. Written'
    BY <1>1, <1>2, <1>3 DEF IInv, Written
  <2>3. AcceptsExactlyTheStream'
    BY <1>3, NoOutcome
  <2> QED
    BY <2>1, <2>2, <2>3 DEF IInv
<1>4. CASE ph' = ph
  <2>1. PayloadTypeOK' /\ Unread' /\ Released'
    BY <1>1, <1>4 DEF IInv, PayloadTypeOK, Unread, Released
  <2>2. Read'
    BY <1>1, <1>2, <1>4 DEF IInv, Read, ChunksOf
  <2>3. Written'
    BY <1>1, <1>2, <1>4 DEF IInv, Written, Chunks
  <2>4. AcceptsExactlyTheStream' <=> AcceptsExactlyTheStream
    BY <1>1, <1>4 DEF AcceptsExactlyTheStream, Stream
  <2> QED
    BY <1>2, <2>1, <2>2, <2>3, <2>4 DEF IInv
<1> QED
  BY <1>1, <1>3, <1>4

\* Another program's chunk.
LEMMA OtherSealsIInv == ASSUME IInv, OtherSeals PROVE IInv'
<1>1. /\ ph = "other" /\ UNCHANGED <<by, pos, rel, ph, edits>>
      /\ ctr' = IncNonce(ctr) /\ i' = i + 1
  BY DEF OtherSeals
<1>2. PICK len \in 0..Least(ChunkLen, MaxLen - n), last \in BOOLEAN :
         /\ ct' = ct \o Seal(ctr, last, [j \in 1..len |-> n + j])
         /\ n' = n + len
  BY DEF OtherSeals
<1> DEFINE data == [j \in 1..len |-> n + j]
<1>3. /\ n \in Nat /\ ctr \in 0..(CtrLimit - 1) /\ i \in Int /\ ct \in Seq(Byte) /\ by = "other"
      /\ rel = <<>> /\ pos = 0 /\ len \in Nat
  BY <1>1 DEF IInv, PayloadTypeOK, Unread, Making
<1>4. data \in Seq(Nat) /\ Len(data) \in Nat
  <2>1. \A j \in 1..len : n + j \in Nat
    BY <1>3
  <2> QED
    BY <1>3, <2>1
<1>5. ct' \in Seq(Byte)
  <2>1. \A j \in 1..(Len(data) + TagLen) : SealedByte(ctr, last, data, j) \in Byte
    <3> HIDE DEF data
    <3>1. TAKE j \in 1..(Len(data) + TagLen)
    <3>2. j \in Nat
      BY <1>4, Sizes
    <3> QED
      BY <1>3, <1>4, <3>2 DEF SealedByte, Byte
  <2>2. Seal(ctr, last, data) \in Seq(Byte)
    <3> HIDE DEF data
    <3> QED
      BY <1>4, <2>1, SealType
  <2> QED
    BY <1>2, <1>3, <2>2, ConcatProperties
<1>6. ctr' \in 0..(CtrLimit - 1) /\ n' \in Nat /\ i' \in Int
  BY <1>1, <1>2, <1>3, NonceIs
<1>7. PayloadTypeOK' /\ Unread' /\ Written' /\ Read' /\ Released'
  BY <1>1, <1>3, <1>5, <1>6 DEF IInv, PayloadTypeOK, Unread, Written, Read, Released, Making
<1>8. AcceptsExactlyTheStream'
  BY <1>1, NoOutcome
<1> QED
  BY <1>7, <1>8 DEF IInv

\* pldecrypt begins.
LEMMA BeginsIInv == ASSUME IInv, OtherStops \/ Deliver PROVE IInv'
<1>1. /\ ph \in {"other", "transport"} /\ ph' = "pldecrypt" /\ ctr' = 0 /\ i' = 0
      /\ UNCHANGED <<by, n, ct, pos, rel, edits>>
      /\ pos = 0 /\ rel = <<>> /\ n \in Nat /\ ct \in Seq(Byte)
  BY DEF OtherStops, Deliver, IInv, Unread, PayloadTypeOK, Making
<1>2. /\ 0 * SealLen = 0 /\ 0 * ChunkLen = 0 /\ Len(rel) = 0 /\ Len(ct) \in Nat
      /\ 0 \in 0..(CtrLimit - 1) /\ Least(0, n) = 0 /\ Bytes(0) = <<>> /\ 0..(0 - 1) = {}
  BY <1>1, Sizes, EmptySeq, LenProperties DEF Least, Bytes
<1>3. PayloadTypeOK' /\ Unread' /\ Released'
  BY <1>1, <1>2 DEF IInv, PayloadTypeOK, Unread, Released, Making
<1>4. Written'
  <2>1. GenuineBytes' = GenuineBytes
    BY <1>1 DEF GenuineBytes, Genuine, Data
  <2> QED
    BY <1>1, <2>1 DEF IInv, Written
<1>5. Read'
  BY <1>1, <1>2 DEF Read, ChunksOf
<1>6. AcceptsExactlyTheStream'
  BY <1>1, NoOutcome
<1> QED
  BY <1>3, <1>4, <1>5, <1>6 DEF IInv

\* A part of a stream is made of its bytes.
LEMMA PartIs ==
    ASSUME NEW S, ct \in Seq(S), NEW a \in Int, NEW b \in Int, a >= 1
    PROVE  Part(a, b) \in Seq(S)
<1> DEFINE x == (a - 1) * SealLen + 1
           y == Least(b * SealLen, Len(ct))
<1>1. Len(ct) \in Nat /\ a - 1 \in Nat /\ SealLen \in Nat
  BY Sizes, LenProperties
<1>2. (a - 1) * SealLen \in Nat /\ b * SealLen \in Int
  BY <1>1, Multiples
<1>3. x \in Int /\ y \in Int /\ 1 <= x /\ y <= Len(ct)
  BY <1>1, <1>2 DEF Least
<1> HIDE DEF x, y
<1>4. \A j \in x..y : ct[j] \in S
  <2>1. ASSUME NEW j \in x..y PROVE ct[j] \in S
    <3>1. j \in 1..Len(ct)
      BY <1>1, <1>3
    <3> QED
      BY <3>1, ElementOfSeq
  <2> QED
    BY <2>1
<1>5. SubSeq(ct, x, y) \in Seq(S)
  BY <1>3, <1>4, SubSeqProperties
<1> QED
  BY <1>5 DEF Part, x, y

\* What is done to a stream on the way adds no byte but noise.
LEMMA DamageType ==
    ASSUME NEW S, ct \in Seq(S), Noise \in S, Damage PROVE ct' \in Seq(S)
<1>1. Len(ct) \in Nat /\ Segments \in Int
  <2>1. Len(ct) \in Nat
    BY LenProperties
  <2>2. Len(ct) + SealLen - 1 \in Nat
    BY <2>1, Sizes
  <2> QED
    BY <2>1, <2>2, Sizes, Quotient DEF Segments
<1>0. \A a, b \in Int : a >= 1 => Part(a, b) \in Seq(S)
  BY PartIs
<1>2. CASE \E k \in 0..(Len(ct) - 1) : ct' = SubSeq(ct, 1, k)
  <2>1. PICK k \in 0..(Len(ct) - 1) : ct' = SubSeq(ct, 1, k)
    BY <1>2
  <2>2. \A j \in 1..k : j \in 1..Len(ct)
    BY <1>1
  <2>3. \A j \in 1..k : ct[j] \in S
    BY <2>2, ElementOfSeq
  <2> QED
    BY <2>1, <2>3, SubSeqProperties
<1>3. CASE \E k \in 1..Len(ct) : ct' = [ct EXCEPT ![k] = Noise]
  BY <1>3, ExceptSeq
<1>4. CASE ct' = Append(ct, Noise)
  BY <1>4, AppendProperties
<1>5. CASE \E k \in 1..Segments :
             \/ ct' = Part(1, k - 1) \o Part(k + 1, Segments)
             \/ ct' = Part(1, k) \o Part(k, Segments)
  <2>1. PICK k \in 1..Segments :
             \/ ct' = Part(1, k - 1) \o Part(k + 1, Segments)
             \/ ct' = Part(1, k) \o Part(k, Segments)
    BY <1>5
  <2>2. /\ Part(1, k - 1) \in Seq(S) /\ Part(k + 1, Segments) \in Seq(S)
        /\ Part(1, k) \in Seq(S) /\ Part(k, Segments) \in Seq(S)
    <3> DEFINE one == 1
               x == k - 1
               y == k + 1
    <3>1. one \in Int /\ one >= 1 /\ x \in Int /\ y \in Int /\ y >= 1 /\ k \in Int /\ k >= 1
      BY <1>1
    <3> HIDE DEF one, x, y
    <3>2. /\ Part(one, x) \in Seq(S) /\ Part(y, Segments) \in Seq(S)
          /\ Part(one, k) \in Seq(S) /\ Part(k, Segments) \in Seq(S)
      BY <1>0, <1>1, <3>1
    <3> QED
      BY <3>2 DEF one, x, y
  <2> QED
    BY <2>1, <2>2, ConcatProperties
<1>6. CASE \E k \in 1..(Segments - 1) :
             ct' = Part(1, k - 1) \o Part(k + 1, k + 1) \o Part(k, k) \o Part(k + 2, Segments)
  <2>1. PICK k \in 1..(Segments - 1) :
             ct' = Part(1, k - 1) \o Part(k + 1, k + 1) \o Part(k, k) \o Part(k + 2, Segments)
    BY <1>6
  <2>2. /\ Part(1, k - 1) \in Seq(S) /\ Part(k + 1, k + 1) \in Seq(S)
        /\ Part(k, k) \in Seq(S) /\ Part(k + 2, Segments) \in Seq(S)
    <3> DEFINE one == 1
               x == k - 1
               y == k + 1
               z == k + 2
    <3>1. /\ one \in Int /\ one >= 1 /\ x \in Int /\ y \in Int /\ y >= 1
          /\ k \in Int /\ k >= 1 /\ z \in Int /\ z >= 1
      BY <1>1
    <3> HIDE DEF one, x, y, z
    <3>2. /\ Part(one, x) \in Seq(S) /\ Part(y, y) \in Seq(S)
          /\ Part(k, k) \in Seq(S) /\ Part(z, Segments) \in Seq(S)
      BY <1>0, <1>1, <3>1
    <3> QED
      BY <3>2 DEF one, x, y, z
  <2>3. Part(1, k - 1) \o Part(k + 1, k + 1) \in Seq(S)
    BY <2>2, ConcatProperties
  <2>4. Part(1, k - 1) \o Part(k + 1, k + 1) \o Part(k, k) \in Seq(S)
    BY <2>2, <2>3, ConcatProperties
  <2> QED
    BY <2>1, <2>2, <2>4, ConcatProperties
<1> QED
  BY <1>2, <1>3, <1>4, <1>5, <1>6 DEF Damage

LEMMA DamageIInv == ASSUME IInv, Damage PROVE IInv'
<1>1. /\ ph = "transport" /\ edits' = edits + 1 /\ UNCHANGED <<by, n, pos, ctr, i, rel, ph>>
      /\ edits \in Nat /\ ct \in Seq(Byte)
  BY DEF Damage, IInv, PayloadTypeOK
<1>2. Noise \in Byte /\ Noise \in GenuineBytes
  <2>1. Noise \in Byte
    BY Sizes, EmptySeq DEF Noise, Byte
  <2>2. Noise.i = 0
    BY DEF Noise
  <2> QED
    BY <2>1, <2>2 DEF GenuineBytes, Genuine
<1>3. PayloadTypeOK' /\ Unread' /\ Read' /\ Released'
  <2>1. ct' \in Seq(Byte)
    BY <1>1, <1>2, DamageType
  <2> QED
    BY <1>1, <2>1 DEF IInv, PayloadTypeOK, Unread, Read, Released, Making
<1>4. Written'
  <2>1. GenuineBytes' = GenuineBytes
    BY <1>1 DEF GenuineBytes, Genuine, Data
  <2>2. by = "plencrypt" => ct' \in Seq(GenuineBytes)
    BY <1>2, DamageType DEF IInv, Written
  <2>3. edits' # 0
    BY <1>1
  <2> QED
    BY <1>1, <2>1, <2>2, <2>3 DEF Written
<1>5. AcceptsExactlyTheStream'
  BY <1>1, NoOutcome
<1> QED
  BY <1>3, <1>4, <1>5 DEF IInv

-----------------------------------------------------------------------------
(* The stream of a plaintext. *)

\* Chunk k of data.
ChunkOf(data, k) == SubSeq(data, k * ChunkLen + 1, Least((k + 1) * ChunkLen, Len(data)))

\* Chunks take SealLen bytes each, but for the last.
LEMMA StreamLen ==
    ASSUME NEW m \in Nat
    PROVE  LET K == Chunks(m) IN
           /\ K - 1 \in Nat /\ (K - 1) + 1 = K
           /\ m + K * TagLen \in Nat
           /\ (K - 1) * SealLen < m + K * TagLen
           /\ m + K * TagLen <= K * SealLen
           /\ m + K * TagLen - (K - 1) * SealLen = m - (K - 1) * ChunkLen + TagLen
<1> DEFINE K == Chunks(m)
           q == K - 1
<1>1. q \in Nat /\ q + 1 = K /\ K \in Nat /\ m <= K * ChunkLen
      /\ (m = 0 => q = 0) /\ (m # 0 => q * ChunkLen < m)
  BY ChunksIs
<1> HIDE DEF K, q
<1> DEFINE qc == q * ChunkLen
           qt == q * TagLen
<1>2. /\ qc \in Nat /\ qt \in Nat /\ q * SealLen = qc + qt
      /\ K * ChunkLen = qc + ChunkLen /\ K * TagLen = qt + TagLen
      /\ K * SealLen = qc + qt + ChunkLen + TagLen
  <2>1. /\ qc \in Nat /\ (q + 1) * ChunkLen = qc + ChunkLen
        /\ qt \in Nat /\ (q + 1) * TagLen = qt + TagLen
        /\ (q + 1) * SealLen = q * SealLen + SealLen
    BY <1>1, Sizes, Multiples
  <2>2. q * (ChunkLen + TagLen) = qc + qt
    BY <1>1, Sizes
  <2> HIDE DEF qc, qt
  <2> QED
    BY <1>1, <2>1, <2>2, Sizes
<1>3. m = 0 => qc = 0
  BY <1>1, Sizes
<1> HIDE DEF qc, qt
<1>4. m <= qc + ChunkLen /\ (m # 0 => qc < m)
  BY <1>1, <1>2 DEF qc
<1> QED
  BY <1>1, <1>2, <1>3, <1>4, Sizes DEF K, q, qc, qt

\* Every place in a stream is one of a chunk.
LEMMA PlaceOf ==
    ASSUME NEW x \in Nat \ {0}
    PROVE  \E k \in Nat : \E j \in 1..SealLen : x = k * SealLen + j
<1> DEFINE k == (x - 1) \div SealLen
           p == k * SealLen
<1>1. x - 1 \in Nat /\ k \in Nat /\ p <= x - 1 /\ x - 1 < p + SealLen
  <2>1. x - 1 \in Nat
    OBVIOUS
  <2> QED
    BY <2>1, Sizes, Quotient
<1>2. p \in Nat
  BY <1>1, Sizes, Multiples
<1> HIDE DEF p
<1>3. x - p \in 1..SealLen /\ x = p + (x - p)
  BY <1>1, <1>2, Sizes
<1> HIDE DEF k
<1> QED
  BY <1>1, <1>3 DEF p

\* Where a chunk is in the plaintext, and how long it is.
LEMMA ChunkOfIs ==
    ASSUME NEW data \in Seq(Nat), NEW k \in 0..(Chunks(Len(data)) - 1)
    PROVE  /\ ChunkOf(data, k) \in Seq(Nat)
           /\ k < Chunks(Len(data)) - 1 => Len(ChunkOf(data, k)) = ChunkLen
           /\ k = Chunks(Len(data)) - 1 => Len(ChunkOf(data, k)) = Len(data) - k * ChunkLen
<1> DEFINE m == Len(data)
           K == Chunks(m)
           a == k * ChunkLen
           b == Least((k + 1) * ChunkLen, m)
<1>1. m \in Nat /\ K \in Nat \ {0} /\ m <= K * ChunkLen
      /\ (m = 0 => K = 1) /\ (m # 0 => (K - 1) * ChunkLen < m)
  BY LenProperties, ChunksIs
<1> HIDE DEF m, K
<1>2. k \in Nat /\ k <= K - 1 /\ K - 1 \in Nat
  BY <1>1 DEF K, m
<1>3. a \in Nat /\ (k + 1) * ChunkLen = a + ChunkLen
  BY <1>2, Sizes, Multiples
<1>4. k < K - 1 => a + ChunkLen <= m
  <2> SUFFICES ASSUME k < K - 1 PROVE a + ChunkLen <= m
    OBVIOUS
  <2>1. (k + 1) * ChunkLen <= (K - 1) * ChunkLen /\ (K - 1) * ChunkLen \in Nat
    BY <1>2, Sizes, Multiples
  <2> DEFINE c == (K - 1) * ChunkLen
  <2>2. m # 0
    BY <1>1
  <2>3. a + ChunkLen <= c /\ c < m /\ c \in Nat
    BY <1>1, <1>3, <2>1, <2>2
  <2> HIDE DEF a, c
  <2> QED
    BY <1>1, <1>3, <2>3, Sizes
<1>5. a <= m /\ (k = K - 1 => m <= a + ChunkLen)
  <2>1. CASE k = K - 1
    <3>1. m = 0 => a = 0
      BY <1>1, <2>1, Sizes
    <3>2. m # 0 => a < m
      BY <1>1, <2>1
    <3>3. m <= (k + 1) * ChunkLen
      BY <1>1, <2>1
    <3> HIDE DEF a
    <3> QED
      BY <1>1, <1>3, <3>1, <3>2, <3>3
  <2>2. CASE k < K - 1
    <3> HIDE DEF a
    <3> QED
      BY <1>1, <1>3, <1>4, <2>2, Sizes
  <2> QED
    BY <1>2, <2>1, <2>2
<1>6. b = Least(a + ChunkLen, m)
  BY <1>3
<1> HIDE DEF a, b
<1>7. b \in Nat /\ a <= b /\ b <= m /\ (k < K - 1 => b = a + ChunkLen) /\ (k = K - 1 => b = m)
  BY <1>1, <1>3, <1>4, <1>5, <1>6, Sizes DEF Least
<1>8. SubSeq(data, a + 1, b) \in Seq(Nat) /\ Len(SubSeq(data, a + 1, b)) = b - a
  <2>1. \A j \in (a + 1)..b : data[j] \in Nat
    <3>1. ASSUME NEW j \in (a + 1)..b PROVE data[j] \in Nat
      <4>1. j \in 1..Len(data)
        BY <1>1, <1>3, <1>7 DEF m
      <4> QED
        BY <4>1, ElementOfSeq
    <3> QED
      BY <3>1
  <2>2. a + 1 \in Int /\ b \in Int
    BY <1>3, <1>7
  <2>3. /\ SubSeq(data, a + 1, b) \in Seq(Nat)
        /\ Len(SubSeq(data, a + 1, b)) = IF a + 1 <= b THEN b - (a + 1) + 1 ELSE 0
    BY <2>1, <2>2, SubSeqProperties
  <2> QED
    BY <1>3, <1>7, <2>3
<1>9. ChunkOf(data, k) = SubSeq(data, a + 1, b)
  BY DEF ChunkOf, a, b, m
<1>10. b - a = IF k < K - 1 THEN ChunkLen ELSE m - a
  BY <1>1, <1>2, <1>3, <1>7, Sizes
<1>11. /\ ChunkOf(data, k) \in Seq(Nat)
       /\ k < K - 1 => Len(ChunkOf(data, k)) = ChunkLen
       /\ k = K - 1 => Len(ChunkOf(data, k)) = m - a
  BY <1>2, <1>8, <1>9, <1>10
<1> QED
  BY <1>11 DEF a, m, K

\* What plencrypt makes of data, byte by byte.
LEMMA StreamIs ==
    ASSUME NEW data \in Seq(Nat)
    PROVE  /\ Len(Stream(data)) = Len(data) + Chunks(Len(data)) * TagLen
           /\ DOMAIN Stream(data) = 1..(Len(data) + Chunks(Len(data)) * TagLen)
           /\ \A k \in 0..(Chunks(Len(data)) - 1), last \in BOOLEAN :
                 (last <=> k = Chunks(Len(data)) - 1) =>
                 \A j \in 1..(Len(ChunkOf(data, k)) + TagLen) :
                    k * SealLen + j \in 1..(Len(data) + Chunks(Len(data)) * TagLen) =>
                    Stream(data)[k * SealLen + j] = SealedByte(k, last, ChunkOf(data, k), j)
<1> DEFINE m == Len(data)
           K == Chunks(m)
           L == m + K * TagLen
           chunk(k) == Seal(k, k = K - 1, ChunkOf(data, k))
<1>1. m \in Nat /\ K \in Nat \ {0} /\ L \in Nat
  BY LenProperties, ChunksIs, StreamLen
<1>2. Stream(data) = [x \in 1..L |-> LET k == (x - 1) \div SealLen IN chunk(k)[x - k * SealLen]]
  BY DEF Stream, ChunkOf
<1> HIDE DEF m, K, L, chunk
<1>3. Len(Stream(data)) = L /\ DOMAIN Stream(data) = 1..L
  BY <1>1, <1>2
<1>4. ASSUME NEW k \in 0..(K - 1), NEW last \in BOOLEAN, last <=> k = K - 1,
             NEW j \in 1..(Len(ChunkOf(data, k)) + TagLen), k * SealLen + j \in 1..L
      PROVE  Stream(data)[k * SealLen + j] = SealedByte(k, last, ChunkOf(data, k), j)
  <2> DEFINE x == k * SealLen + j
             q == (x - 1) \div SealLen
             p == k * SealLen
  <2>1. k \in Nat /\ ChunkOf(data, k) \in Seq(Nat) /\ Len(ChunkOf(data, k)) \in Nat
        /\ Len(ChunkOf(data, k)) <= ChunkLen
    <3>1. k \in 0..(Chunks(Len(data)) - 1) /\ k \in Nat
      BY <1>1 DEF K, m
    <3>2. /\ ChunkOf(data, k) \in Seq(Nat)
          /\ k < Chunks(Len(data)) - 1 => Len(ChunkOf(data, k)) = ChunkLen
          /\ k = Chunks(Len(data)) - 1 => Len(ChunkOf(data, k)) = Len(data) - k * ChunkLen
      BY <3>1, ChunkOfIs
    <3>3. CASE k < K - 1
      BY <3>1, <3>2, <3>3, Sizes DEF K, m
    <3>4. CASE k = K - 1
      <4>1. m <= K * ChunkLen /\ K * ChunkLen = k * ChunkLen + ChunkLen /\ k * ChunkLen \in Nat
        <5>1. k + 1 = K
          BY <1>1, <3>4
        <5> QED
          BY <1>1, <3>1, <5>1, Sizes, ChunksIs, Multiples DEF K
      <4> DEFINE kc == k * ChunkLen
      <4>2. m <= kc + ChunkLen /\ kc \in Nat /\ Len(ChunkOf(data, k)) = m - kc
        BY <3>2, <3>4, <4>1 DEF K, m
      <4> HIDE DEF kc
      <4>3. Len(ChunkOf(data, k)) \in Nat
        BY <3>2, LenProperties
      <4> QED
        BY <1>1, <3>1, <3>2, <4>2, <4>3, Sizes
    <3> QED
      BY <1>1, <3>1, <3>3, <3>4
  <2>2. j \in Nat /\ 1 <= j /\ j <= SealLen /\ p \in Nat
    <3>1. p \in Nat
      BY <2>1, Sizes, Multiples
    <3> HIDE DEF p
    <3> QED
      BY <2>1, <3>1, Sizes
  <2>3. x \in Nat /\ x - 1 \in Nat /\ p <= x - 1 /\ x - 1 < p + SealLen /\ x - p = j /\ x \in 1..L
    <3>1. x = p + j /\ x \in 1..L
      BY <1>4
    <3> HIDE DEF p, x
    <3> QED
      BY <2>2, <3>1, Sizes
  <2>4. q = k
    <3> DEFINE y == x - 1
    <3> HIDE DEF x
    <3>1. q \in Nat /\ q * SealLen <= y /\ y < q * SealLen + SealLen
      BY <2>3, Sizes, Quotient
    <3>2. k * SealLen <= y /\ y < k * SealLen + SealLen /\ y \in Int
      BY <2>3
    <3> HIDE DEF q, y
    <3> QED
      BY <2>1, <3>1, <3>2, Sizes, SameMultiple
  <2>5. Stream(data)[x] = chunk(k)[x - p]
    <3> HIDE DEF x
    <3>1. Stream(data)[x] = chunk(q)[x - q * SealLen]
      BY <1>2, <2>3
    <3> HIDE DEF q
    <3> QED
      BY <2>4, <3>1
  <2>6. chunk(k) = Seal(k, last, ChunkOf(data, k))
    <3>1. (k = K - 1) = last
      BY <1>4
    <3> QED
      BY <3>1 DEF chunk
  <2>7. Seal(k, last, ChunkOf(data, k))[j] = SealedByte(k, last, ChunkOf(data, k), j)
    BY <2>1, SealIs
  <2> QED
    BY <2>3, <2>5, <2>6, <2>7
<1> QED
  BY <1>3, <1>4 DEF L, K, m

-----------------------------------------------------------------------------
(* What pldecrypt reads next. *)

End == Least(pos + SealLen, Len(ct))
Piece == SubSeq(ct, pos + 1, End)
IsLast == AtEof(End, Len(ct))

\* bread() returns a whole sealed chunk, or what is left.
LEMMA PieceIs ==
    ASSUME PayloadTypeOK, ph = "pldecrypt", Read
    PROVE  /\ End \in Nat /\ pos <= End /\ pos \in Nat /\ Len(ct) \in Nat
           /\ Piece \in Seq(Byte) /\ Len(Piece) = End - pos /\ Len(Piece) <= SealLen
           /\ \A j \in 1..Len(Piece) : Piece[j] = ct[pos + j] /\ pos + j \in 1..Len(ct)
           /\ IsLast \in BOOLEAN
           /\ IsLast <=> Len(ct) <= pos + SealLen
           /\ IsLast => End = Len(ct)
           /\ ~IsLast => Len(Piece) = SealLen /\ End = pos + SealLen /\ End < Len(ct)
<1>1. ct \in Seq(Byte) /\ pos \in Nat /\ pos <= Len(ct) /\ Len(ct) \in Nat
  BY LenProperties DEF PayloadTypeOK, Read
<1>2. /\ End \in Nat /\ pos <= End /\ End <= Len(ct) /\ End <= pos + SealLen
      /\ End = Len(ct) \/ End = pos + SealLen
      /\ End = Len(ct) <=> Len(ct) <= pos + SealLen
  BY <1>1, Sizes DEF End, Least
<1>3. IsLast \in BOOLEAN /\ (IsLast <=> End = Len(ct))
  BY DEF IsLast, AtEof
<1> DEFINE x == pos + 1
           y == End
<1>4. x \in Int /\ y \in Int /\ 1 <= x /\ y <= Len(ct)
  BY <1>1, <1>2
<1> HIDE DEF x, y
<1>5. \A j \in x..y : ct[j] \in Byte
  <2>1. ASSUME NEW j \in x..y PROVE ct[j] \in Byte
    <3>1. j \in 1..Len(ct)
      BY <1>1, <1>4
    <3> QED
      BY <1>1, <3>1, ElementOfSeq
  <2> QED
    BY <2>1
<1>6. /\ SubSeq(ct, x, y) \in Seq(Byte)
      /\ Len(SubSeq(ct, x, y)) = IF x <= y THEN y - x + 1 ELSE 0
      /\ \A j \in 1..(y - x + 1) : SubSeq(ct, x, y)[j] = ct[x + j - 1]
  BY <1>4, <1>5, SubSeqProperties
<1>7. Piece = SubSeq(ct, x, y)
  BY DEF Piece, x, y
<1>8. Len(Piece) = End - pos
  BY <1>1, <1>2, <1>6, <1>7 DEF x, y
<1>9. \A j \in 1..Len(Piece) : Piece[j] = ct[pos + j] /\ pos + j \in 1..Len(ct)
  <2>1. TAKE j \in 1..Len(Piece)
  <2>2. j \in 1..(y - x + 1) /\ x + j - 1 = pos + j /\ pos + j \in 1..Len(ct)
    BY <1>1, <1>2, <1>8 DEF x, y
  <2> QED
    BY <1>6, <1>7, <2>2
<1>10. Len(Piece) <= SealLen
  BY <1>1, <1>2, <1>8, Sizes
<1>11. /\ IsLast <=> Len(ct) <= pos + SealLen
       /\ IsLast => End = Len(ct)
  BY <1>2, <1>3
<1>12. ~IsLast => Len(Piece) = SealLen /\ End = pos + SealLen /\ End < Len(ct)
  BY <1>1, <1>2, <1>3, <1>8, Sizes
<1>13. Piece \in Seq(Byte)
  BY <1>6, <1>7
<1> QED
  BY <1>1, <1>2, <1>3, <1>8, <1>9, <1>10, <1>11, <1>12, <1>13

\* What opens is the seal of its data, and the seal of data opens.
LEMMA OpensIs ==
    ASSUME NEW s \in Seq(Byte), NEW k, NEW last, Opens(s, k, last)
    PROVE  /\ s[1].data \in Seq(Nat) /\ Len(s[1].data) \in Nat
           /\ Len(s) = Len(s[1].data) + TagLen
           /\ 1 \in 1..Len(s) /\ s[1] \in Byte
           /\ \A j \in 1..Len(s) : s[j] = SealedByte(k, last, s[1].data, j)
<1> DEFINE d == s[1].data
<1>1. Len(s) \in Nat /\ Len(s) >= TagLen /\ s = Seal(k, last, d)
  BY LenProperties DEF Opens
<1>2. 1 \in 1..Len(s)
  BY <1>1, Sizes
<1>3. s[1] \in Byte
  BY <1>2, ElementOfSeq
<1>4. d \in Seq(Nat) /\ Len(d) \in Nat
  BY <1>3, LenProperties DEF Byte
<1> HIDE DEF d
<1>5. /\ Len(s) = Len(d) + TagLen
      /\ \A j \in 1..(Len(d) + TagLen) : s[j] = SealedByte(k, last, d, j)
  BY <1>1, <1>4, SealIs
<1> QED
  BY <1>2, <1>3, <1>4, <1>5 DEF d

LEMMA SealOpens ==
    ASSUME NEW s \in Seq(Byte), NEW k, NEW last, NEW d \in Seq(Nat), Len(s) = Len(d) + TagLen,
           \A j \in 1..Len(s) : s[j] = SealedByte(k, last, d, j)
    PROVE  Opens(s, k, last)
<1>1. Len(s) \in Nat /\ Len(d) \in Nat /\ Len(s) >= TagLen /\ 1 \in 1..Len(s)
  BY Sizes, LenProperties
<1>2. s[1].data = d
  BY <1>1 DEF SealedByte
<1>3. s = Seal(k, last, d)
  <2> DEFINE z == Seal(k, last, d)
  <2>1. /\ Len(z) = Len(d) + TagLen
        /\ \A j \in 1..(Len(d) + TagLen) : z[j] = SealedByte(k, last, d, j)
    BY SealIs
  <2>2. z \in Seq({SealedByte(k, last, d, j) : j \in 1..(Len(d) + TagLen)})
    BY SealType
  <2> HIDE DEF z
  <2>3. \A j \in 1..Len(s) : s[j] = z[j]
    BY <2>1
  <2>4. Len(s) = Len(z)
    BY <2>1
  <2> QED
    BY <2>2, <2>3, <2>4, SeqEqual DEF z
<1> QED
  BY <1>1, <1>2, <1>3 DEF Opens

\* The stream of any data is accepted: no chunk of it is refused, none is an
\* empty last one, and the counter suffices.
LEMMA StreamOpens ==
    ASSUME PayloadTypeOK, ph = "pldecrypt", Read, Short, NEW data \in Seq(Nat), ct = Stream(data)
    PROVE  /\ Opens(Piece, ctr, IsLast)
           /\ ~EmptyLast(IsLast, Len(Piece))
           /\ Wrapped(ctr) => IsLast
<1> DEFINE m == Len(data)
           K == Chunks(m)
           L == m + K * TagLen
           q == K - 1
           qs == q * SealLen
           qc == q * ChunkLen
           d == ChunkOf(data, ctr)
<1>1. /\ m \in Nat /\ K \in Nat /\ q \in Nat /\ q + 1 = K /\ L \in Nat
      /\ qs < L /\ L <= K * SealLen /\ L - qs = m - qc + TagLen
      /\ m = 0 => K = 1
      /\ m # 0 => qc < m
  <2>1. m \in Nat
    BY LenProperties
  <2> HIDE DEF m
  <2>2. K \in Nat /\ (m = 0 => K = 1) /\ (m # 0 => qc < m)
    BY <2>1, ChunksIs
  <2>3. /\ q \in Nat /\ q + 1 = K /\ L \in Nat
        /\ qs < L /\ L <= K * SealLen /\ L - qs = m - qc + TagLen
    <3>1. q \in Nat /\ q + 1 = K /\ L \in Nat
      BY <2>1, StreamLen, Zenon
    <3>2. qs < L
      BY <2>1, StreamLen, Zenon
    <3>3. L <= K * SealLen
      BY <2>1, StreamLen, Zenon
    <3>4. m + K * TagLen - qs = m - qc + TagLen
      BY <2>1, StreamLen, Zenon
    <3>5. /\ K * TagLen \in Nat /\ qs \in Nat
      BY <2>2, <3>1, Sizes, Multiples
    <3>6. L - qs = m - qc + TagLen
      <4> DEFINE kt == K * TagLen
      <4> HIDE DEF kt, qs, qc
      <4> QED
        BY <2>1, <3>4, <3>5 DEF kt
    <3> QED
      BY <3>1, <3>2, <3>3, <3>6
  <2> QED
    BY <2>1, <2>2, <2>3
<1>2. Len(ct) = L
  BY StreamIs
<1>3. /\ \A k \in 0..q, last \in BOOLEAN :
            (last <=> k = q) =>
            \A j \in 1..(Len(ChunkOf(data, k)) + TagLen) :
                k * SealLen + j \in 1..L =>
                ct[k * SealLen + j] = SealedByte(k, last, ChunkOf(data, k), j)
  BY StreamIs
<1>4. \A k \in 0..q : /\ ChunkOf(data, k) \in Seq(Nat)
                      /\ k < q => Len(ChunkOf(data, k)) = ChunkLen
                      /\ k = q => Len(ChunkOf(data, k)) = m - k * ChunkLen
  BY ChunkOfIs
<1>5. /\ qs \in Nat /\ qc \in Nat /\ K * SealLen = qs + SealLen
  BY <1>1, Sizes, Multiples
<1>6. /\ ctr \in 0..(CtrLimit - 1) /\ ctr \in Nat /\ i = ctr /\ pos = ctr * SealLen
      /\ ctr = 0 \/ pos < Len(ct)
  BY Sizes DEF PayloadTypeOK, Read
<1> HIDE DEF m, K, L, q
<1>7. ctr \in 0..q
  <2>1. ctr * SealLen < L
    <3>1. ctr = 0 => ctr * SealLen = 0
      BY Sizes
    <3>2. 0 < L
      BY <1>1, <1>5
    <3> DEFINE cs == ctr * SealLen
    <3>3. cs = pos /\ (ctr = 0 => cs = 0) /\ (ctr = 0 \/ pos < Len(ct))
      BY <1>6, <3>1
    <3> HIDE DEF cs
    <3>4. cs < L
      BY <1>2, <3>2, <3>3
    <3> QED
      BY <3>4 DEF cs
  <2>2. K <= ctr => K * SealLen <= ctr * SealLen /\ ctr * SealLen \in Nat
    BY <1>1, <1>6, Sizes, Multiples
  <2>3. ~(K <= ctr)
    <3> DEFINE ks == K * SealLen
               cs == ctr * SealLen
    <3>1. L <= ks /\ cs < L /\ (K <= ctr => ks <= cs /\ cs \in Nat) /\ ks \in Int
      BY <1>1, <1>5, <2>1, <2>2, Sizes
    <3> HIDE DEF ks, cs
    <3> QED
      BY <1>1, <3>1
  <2> QED
    BY <1>1, <1>6, <2>3
<1>8. IsLast <=> ctr = q
  <2>1. IsLast <=> L <= pos + SealLen
    BY <1>2, PieceIs
  <2>2. CASE ctr = q
    <3>1. pos = qs
      BY <1>6, <2>2
    <3> HIDE DEF qs
    <3> QED
      BY <1>1, <1>5, <2>1, <2>2, <3>1
  <2>3. CASE ctr < q
    <3>1. pos + SealLen <= qs
      BY <1>1, <1>6, <2>3, Sizes, Multiples
    <3>2. pos \in Nat
      BY DEF PayloadTypeOK
    <3> HIDE DEF qs
    <3> QED
      BY <1>1, <1>5, <1>6, <2>1, <2>3, <3>1, <3>2, Sizes
  <2> QED
    BY <1>1, <1>7, <2>2, <2>3
<1>9. d \in Seq(Nat) /\ Len(Piece) = Len(d) + TagLen /\ (ctr = q => Len(d) = m - qc)
  <2>1. /\ d \in Seq(Nat)
        /\ ctr < q => Len(d) = ChunkLen
        /\ ctr = q => Len(d) = m - qc
    BY <1>4, <1>7
  <2>2. CASE ctr = q
    <3>1. Len(Piece) = L - pos /\ pos = qs
      BY <1>2, <1>6, <1>8, <2>2, PieceIs
    <3> HIDE DEF qs, qc, d
    <3> QED
      BY <1>1, <1>5, <2>1, <2>2, <3>1, Sizes
  <2>3. CASE ctr < q
    <3>1. Len(Piece) = SealLen
      BY <1>1, <1>6, <1>8, <2>3, PieceIs
    <3> HIDE DEF qs, qc, d
    <3> QED
      BY <1>1, <1>6, <2>1, <2>3, <3>1, Sizes
  <2> QED
    BY <1>1, <1>7, <2>2, <2>3
<1>10. Opens(Piece, ctr, IsLast)
  <2>0. Piece \in Seq(Byte) /\ IsLast \in BOOLEAN
    BY PieceIs
  <2>1. \A j \in 1..Len(Piece) : Piece[j] = SealedByte(ctr, IsLast, d, j)
    <3>1. TAKE j \in 1..Len(Piece)
    <3>2. Piece[j] = ct[ctr * SealLen + j] /\ ctr * SealLen + j \in 1..L
      BY <1>2, <1>6, PieceIs
    <3>3. j \in 1..(Len(d) + TagLen)
      BY <1>9
    <3> QED
      BY <1>3, <1>7, <1>8, <2>0, <3>2, <3>3
  <2> HIDE DEF d
  <2> QED
    BY <1>9, <2>0, <2>1, SealOpens
<1>11. ~EmptyLast(IsLast, Len(Piece))
  <2> SUFFICES ASSUME IsLast, i > 0, Len(Piece) = TagLen PROVE FALSE
    BY DEF EmptyLast
  <2>1. ctr = q /\ q > 0 /\ m # 0
    BY <1>1, <1>6, <1>8
  <2> HIDE DEF qs, qc, d
  <2> QED
    BY <1>1, <1>5, <1>9, <2>1, Sizes
<1>12. Wrapped(ctr) => IsLast
  <2> SUFFICES ASSUME Wrapped(ctr), ctr < q PROVE FALSE
    BY <1>1, <1>7, <1>8
  <2>1. CtrLimit <= q
    BY <1>1, <1>6, Sizes DEF Wrapped
  <2>2. qs + 1 \in 1..L
    <3> HIDE DEF qs
    <3> QED
      BY <1>1, <1>5
  <2>3. q \in 0..q /\ 1 \in 1..(Len(ChunkOf(data, q)) + TagLen)
    <3>1. q \in 0..q /\ Len(ChunkOf(data, q)) \in Nat
      BY <1>1, <1>4, LenProperties
    <3> QED
      BY <3>1, Sizes
  <2>4. ct[qs + 1] = SealedByte(q, TRUE, ChunkOf(data, q), 1)
    <3> DEFINE T == TRUE
               one == 1
    <3>1. T \in BOOLEAN /\ (T <=> q = q)
      OBVIOUS
    <3> HIDE DEF T
    <3>2. \A j \in 1..(Len(ChunkOf(data, q)) + TagLen) :
             q * SealLen + j \in 1..L => ct[q * SealLen + j] = SealedByte(q, T, ChunkOf(data, q), j)
      BY <1>3, <2>3, <3>1
    <3> HIDE DEF one
    <3> QED
      BY <2>2, <2>3, <3>2 DEF T
  <2>5. ct[qs + 1] \in Byte
    <3>1. ct \in Seq(Byte) /\ qs + 1 \in 1..Len(ct)
      BY <1>2, <2>2 DEF PayloadTypeOK
    <3> HIDE DEF qs
    <3> QED
      BY <3>1, ElementOfSeq
  <2>6. ct[qs + 1].ctr = q
    BY <2>4 DEF SealedByte
  <2>7. q \in 0..(CtrLimit - 1)
    BY <2>5, <2>6 DEF Byte
  <2> QED
    BY <1>1, <2>1, <2>7, Sizes
<1> QED
  BY <1>10, <1>11, <1>12

-----------------------------------------------------------------------------
(* A chunk that opens. *)

\* Where a chunk of a plaintext begins and ends when it is written in two parts.
LEMMA ChunkOfConcat ==
    ASSUME NEW a \in Seq(Nat), NEW b \in Seq(Nat), NEW k \in Nat, (k + 1) * ChunkLen <= Len(a)
    PROVE  SubSeq(a \o b, k * ChunkLen + 1, (k + 1) * ChunkLen) =
           SubSeq(a, k * ChunkLen + 1, (k + 1) * ChunkLen)
<1> DEFINE x == k * ChunkLen + 1
           y == (k + 1) * ChunkLen
<1>1. x \in 1..Len(a) /\ y \in 1..Len(a)
  <2>1. k * ChunkLen \in Nat /\ y = k * ChunkLen + ChunkLen
    BY Sizes, Multiples
  <2> DEFINE z == k * ChunkLen
  <2>2. z \in Nat /\ x = z + 1 /\ y = z + ChunkLen /\ y <= Len(a) /\ Len(a) \in Nat
    BY <2>1, LenProperties
  <2> HIDE DEF x, y, z
  <2> QED
    BY <2>2, Sizes
<1> HIDE DEF x, y
<1>2. SubSeq(a \o b, x, y) = SubSeq(a, x, y)
  BY <1>1, SubSeqOfConcat1
<1> QED
  BY <1>2 DEF x, y

\* After a chunk that is not the last, one more chunk has been read.
LEMMA OneMoreRead ==
    ASSUME PayloadTypeOK, ph = "pldecrypt", Read, ~IsLast, NEW last \in BOOLEAN, last = IsLast,
           Opens(Piece, ctr, last), NEW d, d = Piece[1].data
    PROVE  /\ End = (ctr + 1) * SealLen /\ End < Len(ct)
           /\ Len(rel \o d) = (ctr + 1) * ChunkLen
           /\ ChunksOf(rel \o d, ctr + 1)
<1> DEFINE cs == ctr * SealLen
           cc == ctr * ChunkLen
<1>0. rel \in Seq(Nat) /\ ctr \in Nat
  BY Sizes DEF PayloadTypeOK
<1>1. pos = cs /\ Len(rel) = cc /\ ChunksOf(rel, ctr)
  BY DEF Read
<1>2. /\ cs \in Nat /\ (ctr + 1) * SealLen = cs + SealLen
      /\ cc \in Nat /\ (ctr + 1) * ChunkLen = cc + ChunkLen
  BY <1>0, Sizes, Multiples
<1>3. /\ Len(Piece) = SealLen /\ End = pos + SealLen /\ End < Len(ct) /\ Piece \in Seq(Byte)
      /\ \A j \in 1..SealLen : Piece[j] = ct[pos + j]
  BY PieceIs
<1>4. /\ d \in Seq(Nat) /\ Len(d) \in Nat /\ Len(Piece) = Len(d) + TagLen
      /\ \A j \in 1..Len(Piece) : Piece[j] = SealedByte(ctr, last, d, j)
  <2>1. Opens(Piece, ctr, last)
    OBVIOUS
  <2> QED
    BY <1>3, <2>1, OpensIs
<1>5. Len(d) = ChunkLen
  <2>1. Len(d) + TagLen = ChunkLen + TagLen /\ Len(d) \in Nat
    BY <1>3, <1>4, Sizes
  <2> QED
    BY <2>1, Sizes
<1>6. /\ rel \o d \in Seq(Nat) /\ Len(rel \o d) = cc + ChunkLen
  <2>1. rel \o d \in Seq(Nat) /\ Len(rel \o d) = Len(rel) + Len(d)
    BY <1>0, <1>4, ConcatProperties
  <2> QED
    BY <1>1, <1>5, <2>1
<1>7. ASSUME NEW k \in 0..ctr, NEW j \in 1..SealLen
      PROVE  ct[k * SealLen + j] = SealedByte(k, FALSE,
                SubSeq(rel \o d, k * ChunkLen + 1, (k + 1) * ChunkLen), j)
  <2>1. k \in Nat
    BY <1>0
  <2>2. CASE k < ctr
    <3>1. (k + 1) * ChunkLen <= Len(rel)
      BY <1>0, <1>1, <2>1, <2>2, Sizes, Multiples
    <3>2. k \in 0..(ctr - 1)
      BY <1>0, <2>1, <2>2
    <3>3. SubSeq(rel \o d, k * ChunkLen + 1, (k + 1) * ChunkLen) =
             SubSeq(rel, k * ChunkLen + 1, (k + 1) * ChunkLen)
      BY <1>0, <1>4, <2>1, <3>1, ChunkOfConcat
    <3>4. ct[k * SealLen + j] =
             SealedByte(k, FALSE, SubSeq(rel, k * ChunkLen + 1, (k + 1) * ChunkLen), j)
      BY <1>1, <3>2 DEF ChunksOf
    <3> QED
      BY <3>3, <3>4
  <2>3. CASE k = ctr
    <3> DEFINE x == cc + 1
               y == cc + ChunkLen
    <3>1. /\ x \in (Len(rel) + 1)..(Len(rel) + Len(d)) /\ y \in (Len(rel) + 1)..(Len(rel) + Len(d))
          /\ x - Len(rel) = 1 /\ y - Len(rel) = Len(d)
      <4>1. Len(rel) = cc /\ Len(d) = ChunkLen /\ cc \in Nat
        BY <1>1, <1>2, <1>5
      <4> HIDE DEF cc
      <4> QED
        BY <4>1, Sizes
    <3> HIDE DEF x, y
    <3>2. SubSeq(rel \o d, x, y) = SubSeq(d, x - Len(rel), y - Len(rel))
      BY <1>0, <1>4, <3>1, SubSeqOfConcat2, SMTT(30)
    <3>3. SubSeq(d, 1, Len(d)) = d
      BY <1>4, SubSeqFull
    <3>4. SubSeq(rel \o d, x, y) = d
      BY <3>1, <3>2, <3>3
    <3>5. SubSeq(rel \o d, ctr * ChunkLen + 1, (ctr + 1) * ChunkLen) = d
      BY <1>2, <3>4 DEF x, y
    <3>6. ct[ctr * SealLen + j] = SealedByte(ctr, last, d, j)
      BY <1>1, <1>3, <1>4
    <3>7. last = FALSE
      OBVIOUS
    <3> QED
      BY <2>3, <3>5, <3>6, <3>7
  <2>4. k < ctr \/ k = ctr
    BY <1>0
  <2> QED
    BY <2>2, <2>3, <2>4, Zenon
<1>8. ChunksOf(rel \o d, ctr + 1)
  <2>1. (ctr + 1) - 1 = ctr
    BY <1>0
  <2> QED
    BY <1>7, <2>1 DEF ChunksOf
<1> QED
  BY <1>1, <1>2, <1>3, <1>6, <1>8

\* After the last chunk, what was read is the stream of what was released.
LEMMA AllRead ==
    ASSUME PayloadTypeOK, ph = "pldecrypt", Read, Short, IsLast,
           NEW last \in BOOLEAN, last = IsLast, Opens(Piece, ctr, last),
           ~EmptyLast(last, Len(Piece)), NEW d, d = Piece[1].data
    PROVE  ct = Stream(rel \o d)
<1> DEFINE cs == ctr * SealLen
           cc == ctr * ChunkLen
           ctg == ctr * TagLen
           D == rel \o d
           m == Len(D)
           l == Len(d)
<1>0. rel \in Seq(Nat) /\ ctr \in Nat /\ last = TRUE
  BY Sizes DEF PayloadTypeOK
<1>1. pos = cs /\ Len(rel) = cc /\ ChunksOf(rel, ctr) /\ i = ctr
  BY DEF Read
<1>2. /\ cs \in Nat /\ (ctr + 1) * SealLen = cs + SealLen
      /\ cc \in Nat /\ (ctr + 1) * ChunkLen = cc + ChunkLen
      /\ ctg \in Nat /\ (ctr + 1) * TagLen = ctg + TagLen
      /\ cs = cc + ctg
  <2>1. cs = cc + ctg
    BY <1>0, Sizes
  <2> QED
    BY <1>0, <2>1, Sizes, Multiples
<1>3. /\ Len(ct) \in Nat /\ Len(Piece) = Len(ct) - pos /\ Len(Piece) <= SealLen /\ Piece \in Seq(Byte)
      /\ \A j \in 1..Len(Piece) : Piece[j] = ct[pos + j]
  BY PieceIs
<1>4. /\ d \in Seq(Nat) /\ l \in Nat /\ Len(Piece) = l + TagLen
      /\ \A j \in 1..Len(Piece) : Piece[j] = SealedByte(ctr, last, d, j)
  <2>1. Opens(Piece, ctr, last)
    OBVIOUS
  <2> QED
    BY <1>3, <2>1, OpensIs
<1>5. l <= ChunkLen /\ (ctr > 0 => l > 0)
  <2>1. ctr > 0 => Len(Piece) # TagLen
    BY <1>0, <1>1 DEF EmptyLast
  <2>2. l \in Nat /\ Len(Piece) = l + TagLen /\ Len(Piece) <= SealLen
    BY <1>3, <1>4
  <2> HIDE DEF l
  <2> QED
    BY <2>1, <2>2, Sizes
<1>6. D \in Seq(Nat) /\ m = cc + l /\ m \in Nat
  <2>1. D \in Seq(Nat) /\ m = Len(rel) + l
    BY <1>0, <1>4, ConcatProperties
  <2> QED
    BY <1>1, <1>2, <1>4, <2>1
<1> HIDE DEF l, m, D
<1>7. Chunks(m) = ctr + 1
  <2> DEFINE q == ctr + 1
  <2>1. q \in Nat \ {0} /\ q - 1 = ctr
    BY <1>0
  <2>2. m <= q * ChunkLen
    <3>1. q * ChunkLen = cc + ChunkLen
      BY <1>2
    <3> HIDE DEF cc, q
    <3> QED
      BY <1>2, <1>4, <1>5, <1>6, <3>1, Sizes
  <2>3. (q - 1) * ChunkLen = cc /\ (ctr = 0 => cc = 0)
    BY <2>1, Sizes
  <2>4. /\ m # 0 => (q - 1) * ChunkLen < m
        /\ m = 0 => q = 1
    <3> HIDE DEF cc
    <3> QED
      BY <1>0, <1>2, <1>4, <1>5, <1>6, <2>1, <2>3
  <2> HIDE DEF q
  <2>5. Chunks(m) = q
    BY <1>6, <2>1, <2>2, <2>4, ChunksUnique
  <2> QED
    BY <2>5 DEF q
<1>8. /\ Len(Stream(D)) = Len(ct)
      /\ \A k \in 0..ctr, z \in BOOLEAN :
            (z <=> k = ctr) =>
            \A j \in 1..(Len(ChunkOf(D, k)) + TagLen) :
               k * SealLen + j \in 1..Len(ct) =>
               Stream(D)[k * SealLen + j] = SealedByte(k, z, ChunkOf(D, k), j)
  <2>1. m + (ctr + 1) * TagLen = Len(ct)
    <3>1. Len(ct) = cs + (l + TagLen) /\ cs = cc + ctg /\ m = cc + l
          /\ (ctr + 1) * TagLen = ctg + TagLen
      <4>1. Len(ct) - cs = l + TagLen /\ Len(ct) \in Nat /\ cs \in Nat
        BY <1>1, <1>2, <1>3, <1>4
      <4>2. Len(ct) = cs + (l + TagLen)
        <5> HIDE DEF cs
        <5> QED
          BY <1>4, <4>1, Sizes
      <4> QED
        BY <1>2, <1>6, <4>2
    <3>2. cs \in Nat /\ cc \in Nat /\ ctg \in Nat
      BY <1>2
    <3> DEFINE u == (ctr + 1) * TagLen
    <3>3. u = ctg + TagLen
      BY <3>1
    <3> HIDE DEF cs, cc, ctg, u
    <3>4. m + u = Len(ct)
      BY <1>4, <3>1, <3>2, <3>3, Sizes
    <3> QED
      BY <3>4 DEF u
  <2>2. Len(D) + Chunks(Len(D)) * TagLen = Len(ct) /\ Chunks(Len(D)) - 1 = ctr
    <3>1. Chunks(m) - 1 = ctr
      BY <1>0, <1>7
    <3> QED
      BY <1>7, <2>1, <3>1 DEF m
  <2> QED
    BY <1>6, <2>2, StreamIs
<1>9. /\ \A k \in 0..(ctr - 1) : ChunkOf(D, k) = SubSeq(rel, k * ChunkLen + 1, (k + 1) * ChunkLen)
      /\ ChunkOf(D, ctr) = d
  <2>1. ASSUME NEW k \in 0..(ctr - 1)
        PROVE  ChunkOf(D, k) = SubSeq(rel, k * ChunkLen + 1, (k + 1) * ChunkLen)
    <3> DEFINE y == (k + 1) * ChunkLen
    <3>1. k \in Nat /\ k < ctr
      BY <1>0
    <3>2. y <= Len(rel) /\ y \in Nat
      <4>1. y <= cc
        BY <1>0, <3>1, Sizes, Multiples
      <4>2. y \in Nat
        BY <3>1, Sizes, Multiples
      <4> QED
        BY <1>1, <4>1, <4>2
    <3>3. Least(y, m) = y
      <4> HIDE DEF y
      <4>1. y <= m
        BY <1>1, <1>2, <1>4, <1>6, <3>2
      <4> QED
        BY <1>6, <3>2, <4>1 DEF Least
    <3>4. ChunkOf(D, k) = SubSeq(D, k * ChunkLen + 1, y)
      BY <3>3 DEF ChunkOf, m
    <3>5. SubSeq(D, k * ChunkLen + 1, y) = SubSeq(rel, k * ChunkLen + 1, y)
      BY <1>0, <1>4, <3>1, <3>2, ChunkOfConcat DEF D
    <3> QED
      BY <3>4, <3>5
  <2>2. ChunkOf(D, ctr) = SubSeq(D, cc + 1, m)
    <3>1. Least(cc + ChunkLen, m) = m
      <4> HIDE DEF cc
      <4> QED
        BY <1>2, <1>4, <1>5, <1>6, Sizes DEF Least
    <3>2. Least((ctr + 1) * ChunkLen, m) = m
      BY <1>2, <3>1
    <3> QED
      BY <3>2 DEF ChunkOf, m
  <2>3. CASE l = 0
    <3>1. d = <<>>
      BY <1>4, <2>3, EmptySeq DEF l
    <3>2. m < cc + 1
      <4> HIDE DEF cc
      <4> QED
        BY <1>2, <1>6, <2>3
    <3> DEFINE x == cc + 1
    <3>3. x \in Int /\ m \in Int /\ m < x
      BY <1>2, <1>6, <3>2
    <3> HIDE DEF x
    <3>4. SubSeq(D, x, m) = <<>>
      BY <3>3, SubSeqEmpty
    <3> QED
      BY <2>1, <2>2, <3>1, <3>4 DEF x
  <2>4. CASE l # 0
    <3> DEFINE x == cc + 1
    <3>1. /\ x \in (Len(rel) + 1)..(Len(rel) + Len(d)) /\ m \in (Len(rel) + 1)..(Len(rel) + Len(d))
          /\ x - Len(rel) = 1 /\ m - Len(rel) = Len(d)
      <4>1. Len(rel) = cc /\ Len(d) = l /\ cc \in Nat
        BY <1>1, <1>2 DEF l
      <4> HIDE DEF cc
      <4> QED
        BY <1>4, <1>6, <2>4, <4>1
    <3> HIDE DEF x
    <3>2. SubSeq(D, x, m) = SubSeq(d, x - Len(rel), m - Len(rel))
      BY <1>0, <1>4, <3>1, SubSeqOfConcat2 DEF D
    <3>3. SubSeq(d, 1, Len(d)) = d
      BY <1>4, SubSeqFull
    <3> QED
      BY <2>1, <2>2, <3>1, <3>2, <3>3 DEF x
  <2> QED
    BY <2>3, <2>4

<1>10. ASSUME NEW x \in 1..Len(ct) PROVE ct[x] = Stream(D)[x]
  <2>1. x \in Nat \ {0}
    BY <1>3
  <2>2. PICK k \in Nat : \E j \in 1..SealLen : x = k * SealLen + j
    BY <2>1, PlaceOf
  <2>3. PICK j \in 1..SealLen : x = k * SealLen + j
    BY <2>2
  <2> DEFINE ks == k * SealLen
  <2>4. ks \in Nat
    BY Sizes, Multiples
  <2>5. k \in 0..ctr
    <3>1. ctr + 1 <= k => (ctr + 1) * SealLen <= ks
      <4>1. ctr + 1 \in Nat
        BY <1>0
      <4> DEFINE q == ctr + 1
      <4> HIDE DEF q
      <4>2. q \in Nat => (q <= k => q * SealLen <= k * SealLen)
        BY Sizes, Multiples
      <4> QED
        BY <4>1, <4>2 DEF q
    <3>2. x = ks + j /\ x <= Len(ct) /\ Len(ct) <= cs + SealLen
      <4>1. Len(ct) - cs <= SealLen
        BY <1>1, <1>3
      <4>2. cs \in Nat /\ Len(ct) \in Nat
        BY <1>2, <1>3
      <4> HIDE DEF cs
      <4> QED
        BY <1>3, <2>3, <4>1, <4>2, Sizes
    <3>3. ctr + 1 <= k => cs + SealLen <= ks
      BY <1>2, <3>1
    <3>4. ~(ctr + 1 <= k)
      <4>1. cs \in Nat /\ j \in Nat /\ j >= 1
        BY <1>2, Sizes
      <4> HIDE DEF cs, ks
      <4> QED
        BY <1>3, <2>4, <3>2, <3>3, <4>1, Sizes
    <3> QED
      BY <1>0, <3>4
  <2>6. k < ctr \/ k = ctr
    BY <1>0, <2>5
  <2>7. CASE k < ctr
    <3>1. k \in 0..(ctr - 1)
      BY <1>0, <2>7
    <3> DEFINE c == SubSeq(rel, k * ChunkLen + 1, (k + 1) * ChunkLen)
               z == FALSE
    <3>2. ct[ks + j] = SealedByte(k, z, c, j)
      BY <1>1, <3>1 DEF ChunksOf
    <3>3. ChunkOf(D, k) = c
      BY <1>9, <3>1
    <3>4. Len(ChunkOf(D, k)) = ChunkLen
      <4>1. Chunks(Len(D)) - 1 = ctr
        BY <1>0, <1>6, <1>7 DEF m
      <4>2. k \in 0..(Chunks(Len(D)) - 1) /\ k < Chunks(Len(D)) - 1
        BY <1>0, <2>7, <3>1, <4>1
      <4> QED
        BY <1>6, <4>2, ChunkOfIs, Zenon
    <3>5. j \in 1..(Len(ChunkOf(D, k)) + TagLen)
      BY <3>4, Sizes
    <3>6. z \in BOOLEAN /\ (z <=> k = ctr)
      BY <1>0, <2>7
    <3> HIDE DEF c, z
    <3>7. Stream(D)[k * SealLen + j] = SealedByte(k, z, ChunkOf(D, k), j)
      BY <1>8, <2>3, <2>5, <3>5, <3>6
    <3> QED
      BY <2>3, <3>2, <3>3, <3>7
  <2>8. CASE k = ctr
    <3> DEFINE z == TRUE
    <3>1. x = pos + j
      BY <1>1, <2>3, <2>8
    <3>2. j \in 1..Len(Piece)
      <4>1. Len(Piece) = Len(ct) - pos /\ pos \in Nat
        BY <1>1, <1>2, <1>3
      <4> QED
        BY <1>3, <3>1, <4>1, Sizes
    <3>3. ct[x] = SealedByte(ctr, last, d, j)
      BY <1>3, <1>4, <3>1, <3>2
    <3>4. ChunkOf(D, ctr) = d /\ j \in 1..(Len(ChunkOf(D, ctr)) + TagLen)
      BY <1>4, <1>9, <3>2 DEF l
    <3>5. z \in BOOLEAN /\ (z <=> ctr = ctr) /\ ctr \in 0..ctr /\ z = last
      BY <1>0
    <3> HIDE DEF z
    <3>6. Stream(D)[ctr * SealLen + j] = SealedByte(ctr, z, ChunkOf(D, ctr), j)
      BY <1>8, <2>3, <2>8, <3>4, <3>5
    <3> QED
      BY <2>3, <2>8, <3>3, <3>4, <3>5, <3>6
  <2> QED
    BY <2>6, <2>7, <2>8
<1>11. ct = Stream(D)
  <2>1. ct \in Seq(Byte)
    BY DEF PayloadTypeOK
  <2>2. \E S : Stream(D) \in Seq(S)
    <3> DEFINE N == Len(D) + Chunks(Len(D)) * TagLen
               f == Stream(D)
    <3>1. DOMAIN f = 1..N /\ N \in Nat
      BY <1>3, <1>6, <1>8, StreamIs
    <3>2. f = [x \in 1..N |-> f[x]]
      BY <3>1 DEF Stream
    <3> HIDE DEF f, N
    <3> DEFINE S == {f[x] : x \in 1..N}
    <3>3. \A x \in 1..N : f[x] \in S
      OBVIOUS
    <3> HIDE DEF S
    <3>4. f \in Seq(S)
      BY <3>1, <3>2, <3>3, FunctionIsSeq
    <3> QED
      BY <3>4 DEF f
  <2>3. PICK S : Stream(D) \in Seq(S)
    BY <2>2
  <2> DEFINE U == S \cup Byte
  <2>4. ct \in Seq(U) /\ Stream(D) \in Seq(U)
    BY <2>1, <2>3, SeqMonotonic
  <2> HIDE DEF U
  <2> QED
    BY <1>8, <1>10, <2>4, SeqEqual
<1> QED
  BY <1>11 DEF D

\* A chunk of plencrypt's that opens under the nonce of chunk ctr is chunk ctr,
\* and it opens as the last if it is.
LEMMA GenuineNext ==
    ASSUME PayloadTypeOK, ph = "pldecrypt", Read, by = "plencrypt", ct \in Seq(GenuineBytes),
           NEW last \in BOOLEAN, Opens(Piece, ctr, last), NEW d, d = Piece[1].data
    PROVE  /\ rel \o d = Bytes(Least((ctr + 1) * ChunkLen, n))
           /\ last <=> (ctr + 1) * ChunkLen >= n
<1> DEFINE b == Piece[1]
<1>1. n \in Nat /\ ctr \in Nat
  BY Sizes DEF PayloadTypeOK
<1>2. Piece \in Seq(Byte) /\ (1 \in 1..Len(Piece) => b = ct[pos + 1] /\ pos + 1 \in 1..Len(ct))
  BY PieceIs
<1>3. 1 \in 1..Len(Piece) /\ b = SealedByte(ctr, last, d, 1)
  <2>1. Opens(Piece, ctr, last)
    OBVIOUS
  <2> QED
    BY <1>2, <2>1, OpensIs
<1>4. b \in GenuineBytes
  <2> DEFINE x == pos + 1
  <2>1. b = ct[x] /\ x \in 1..Len(ct)
    BY <1>2, <1>3
  <2> HIDE DEF b, x
  <2> QED
    BY <2>1, ElementOfSeq
<1>5. b.i = 1 /\ b.ctr = ctr /\ b.last = last /\ b.data = d
  BY <1>3 DEF SealedByte
<1>6. d = Data(ctr) /\ (last <=> (ctr + 1) * ChunkLen >= n)
  <2> HIDE DEF b
  <2> QED
    BY <1>4, <1>5 DEF GenuineBytes, Genuine
<1>7. rel = Bytes(Least(ctr * ChunkLen, n))
  BY DEF Read
<1> QED
  BY <1>1, <1>6, <1>7, DataIs

\* pldecrypt's loop.
LEMMA DecChunkIInv == ASSUME IInv, DecChunk PROVE IInv'
<1> DEFINE last == IsLast
           d == Piece[1].data
<1>1. /\ ph = "pldecrypt" /\ UNCHANGED <<by, n, ct, edits>>
      /\ PayloadTypeOK /\ Unread /\ Written /\ Read /\ Released
  BY DEF DecChunk, IInv
<1>2. \/ /\ EmptyLast(IsLast, Len(Piece))
         /\ ph' = "emptychunk"
         /\ UNCHANGED <<by, pos, ctr, i, rel>>
      \/ /\ ~EmptyLast(IsLast, Len(Piece)) /\ ~Opens(Piece, ctr, IsLast)
         /\ ph' = "refused"
         /\ UNCHANGED <<by, pos, ctr, i, rel>>
      \/ /\ ~EmptyLast(IsLast, Len(Piece)) /\ Opens(Piece, ctr, IsLast)
         /\ rel' = rel \o d /\ pos' = End /\ ctr' = IncNonce(ctr) /\ i' = IncInt(i)
         /\ ph' = (IF IsLast THEN "ok" ELSE IF Wrapped(ctr) THEN "toolong" ELSE ph)
  BY DEF DecChunk, Authentic, IsLast, Piece, End
<1>3. /\ Short' = Short /\ GenuineBytes' = GenuineBytes /\ Chunks(n)' = Chunks(n)
      /\ Stream(Bytes(n))' = Stream(Bytes(n)) /\ Bytes(n)' = Bytes(n)
  BY <1>1 DEF Short, GenuineBytes, Genuine, Data, Chunks, Stream, Bytes
<1>4. n \in Nat /\ ctr \in Nat /\ ctr \in 0..(CtrLimit - 1) /\ i \in Int
      /\ Bytes(n) \in Seq(Nat) /\ ct \in Seq(Byte) /\ rel \in Seq(Nat)
  <2>1. n \in Nat /\ ctr \in Nat /\ ctr \in 0..(CtrLimit - 1) /\ i \in Int /\ ct \in Seq(Byte)
        /\ rel \in Seq(Nat)
    BY <1>1, Sizes DEF PayloadTypeOK
  <2> QED
    BY <2>1, BytesIs
<1>5. last \in BOOLEAN
  BY <1>1, PieceIs
<1>6. Written' /\ Unread'
  <2>1. ph' \in {"emptychunk", "refused", "ok", "toolong", "pldecrypt"}
    BY <1>1, <1>2
  <2>2. Written'
    BY <1>1, <1>3, <2>1 DEF Written
  <2> QED
    BY <1>1, <2>1, <2>2 DEF Unread, Making
<1>7. Short /\ ct = Stream(Bytes(n)) =>
         /\ Opens(Piece, ctr, IsLast) /\ ~EmptyLast(IsLast, Len(Piece))
         /\ Wrapped(ctr) => IsLast
  BY <1>1, <1>4, StreamOpens
<1>8. CASE ph' \in {"emptychunk", "refused"}
  <2>1. /\ EmptyLast(IsLast, Len(Piece)) \/ ~Opens(Piece, ctr, IsLast)
        /\ UNCHANGED <<by, n, ct, pos, ctr, i, rel, edits>>
    BY <1>1, <1>2, <1>8
  <2>2. PayloadTypeOK' /\ Read' /\ Released'
    BY <1>1, <1>8, <2>1 DEF PayloadTypeOK, Read, Released, Outcomes
  <2>3. Short' => AcceptsExactlyTheStream'
    BY <1>1, <1>3, <1>7, <1>8, <2>1 DEF AcceptsExactlyTheStream
  <2> QED
    BY <1>6, <2>2, <2>3 DEF IInv
<1>9. CASE ph' \notin {"emptychunk", "refused"}
  <2>1. /\ ~EmptyLast(IsLast, Len(Piece)) /\ Opens(Piece, ctr, IsLast)
        /\ rel' = rel \o d /\ pos' = End /\ ctr' = IncNonce(ctr) /\ i' = IncInt(i)
        /\ ph' = (IF IsLast THEN "ok" ELSE IF Wrapped(ctr) THEN "toolong" ELSE ph)
    BY <1>2, <1>9
  <2>2. Piece \in Seq(Byte) /\ End \in Nat
    BY <1>1, PieceIs
  <2>3. d \in Seq(Nat) /\ Len(d) \in Nat
    BY <2>1, <2>2, OpensIs
  <2>4. rel' \in Seq(Nat)
    BY <1>4, <2>1, <2>3, ConcatProperties
  <2>5. ctr' \in 0..(CtrLimit - 1) /\ (Wrapped(ctr) <=> ctr + 1 = CtrLimit)
        /\ (~Wrapped(ctr) => ctr' = ctr + 1)
    BY <1>4, <2>1, NonceIs
  <2>6. i' \in Int
    BY <1>4, <2>1, Sizes DEF IncInt
  <2>7. PayloadTypeOK'
    BY <1>1, <2>1, <2>2, <2>4, <2>5, <2>6 DEF PayloadTypeOK, Outcomes
  <2>8. by = "plencrypt" =>
           /\ rel' = Bytes(Least((ctr + 1) * ChunkLen, n))
           /\ IsLast <=> (ctr + 1) * ChunkLen >= n
    <3> SUFFICES ASSUME by = "plencrypt"
                 PROVE  /\ rel' = Bytes(Least((ctr + 1) * ChunkLen, n))
                        /\ IsLast <=> (ctr + 1) * ChunkLen >= n
      OBVIOUS
    <3>1. ct \in Seq(GenuineBytes)
      BY <1>1 DEF Written
    <3> HIDE DEF d
    <3>2. d = Piece[1].data
      BY DEF d
    <3>3. /\ rel \o d = Bytes(Least((ctr + 1) * ChunkLen, n))
          /\ last <=> (ctr + 1) * ChunkLen >= n
      <4>1. Opens(Piece, ctr, last)
        BY <2>1
      <4> HIDE DEF last
      <4> QED
        BY <1>1, <1>5, <3>1, <3>2, <4>1, GenuineNext
    <3> QED
      BY <2>1, <3>3
  <2>9. Released'
    <3> DEFINE w == (ctr + 1) * ChunkLen
    <3>1. w \in Nat
      <4>1. ctr + 1 \in Nat
        BY <1>4
      <4> DEFINE q == ctr + 1
      <4> HIDE DEF q
      <4>2. q \in Nat => q * ChunkLen \in Nat
        BY Sizes, Multiples
      <4> QED
        BY <4>1, <4>2 DEF q
    <3> HIDE DEF w
    <3>2. Least(w, n) \in 0..n
      BY <1>4, <3>1 DEF Least
    <3>3. by = "plencrypt" => rel' = Bytes(Least(w, n))
      BY <2>8 DEF w
    <3> QED
      BY <1>1, <3>2, <3>3 DEF Released, Bytes
  <2>10. Read'
    <3> SUFFICES ASSUME ph' = "pldecrypt" PROVE Read'
      BY DEF Read
    <3>1. ~IsLast /\ ~Wrapped(ctr)
      BY <2>1
    <3>2. ctr' = ctr + 1
      BY <2>5, <3>1
    <3>3. /\ End = (ctr + 1) * SealLen /\ End < Len(ct)
          /\ Len(rel \o d) = (ctr + 1) * ChunkLen
          /\ ChunksOf(rel \o d, ctr + 1)
      <4> HIDE DEF d, last
      <4>1. d = Piece[1].data /\ last = IsLast /\ Opens(Piece, ctr, last)
        BY <2>1 DEF d, last
      <4> QED
        BY <1>1, <1>5, <3>1, <4>1, OneMoreRead
    <3>4. ChunksOf(rel, ctr)'
      <4>1. ChunksOf(rel', ctr')
        BY <2>1, <3>2, <3>3
      <4> QED
        BY <1>1, <4>1 DEF ChunksOf
    <3>5. Short => i' = ctr'
      <4> SUFFICES ASSUME Short PROVE i' = ctr'
        OBVIOUS
      <4>1. i = ctr
        BY <1>1 DEF Read
      <4>2. IntMax <= ctr + 1 => IntMax * SealLen <= (ctr + 1) * SealLen
        <5>1. ctr + 1 \in Nat
          BY <1>4
        <5> DEFINE q == ctr + 1
        <5> HIDE DEF q
        <5>2. q \in Nat => (IntMax <= q => IntMax * SealLen <= q * SealLen)
          BY Sizes, Multiples
        <5> QED
          BY <5>1, <5>2 DEF q
      <4>3. ~(IntMax <= ctr + 1)
        <5> DEFINE x == IntMax * SealLen
        <5>1. x \in Nat /\ Len(ct) <= x /\ End < Len(ct) /\ Len(ct) \in Nat /\ End \in Nat
              /\ (IntMax <= ctr + 1 => x <= End)
          BY <1>4, <2>2, <3>3, <4>2, Sizes, Multiples, LenProperties DEF Short
        <5> HIDE DEF x
        <5> QED
          BY <5>1
      <4> QED
        BY <1>4, <2>1, <3>2, <4>1, <4>3, Sizes DEF IncInt
    <3>6. by = "plencrypt" => rel' = Bytes(Least(ctr' * ChunkLen, n))
      BY <2>8, <3>2
    <3>7. \A m : Bytes(Least(m, n))' = Bytes(Least(m, n))
      BY <1>1 DEF Bytes, Least
    <3>8. pos' = ctr' * SealLen /\ pos' < Len(ct) /\ pos' <= Len(ct)
      <4>1. Len(ct) \in Nat
        BY <1>4, LenProperties
      <4> QED
        BY <2>1, <2>2, <3>2, <3>3, <4>1
    <3>9. Len(rel') = ctr' * ChunkLen
      BY <2>1, <3>2, <3>3
    <3> QED
      BY <1>1, <1>3, <3>4, <3>5, <3>6, <3>8, <3>9 DEF Read, Bytes, Least
  <2>11. Short' => AcceptsExactlyTheStream'
    <3> SUFFICES ASSUME Short PROVE AcceptsExactlyTheStream'
      BY <1>3
    <3>1. CASE IsLast
      <4>1. ph' = "ok"
        BY <2>1, <3>1
      <4>2. ct = Stream(rel \o d)
        <5> HIDE DEF d, last
        <5>1. d = Piece[1].data /\ last = IsLast /\ Opens(Piece, ctr, last)
              /\ ~EmptyLast(last, Len(Piece))
          BY <2>1 DEF d, last
        <5> QED
          BY <1>1, <1>5, <3>1, <5>1, AllRead
      <4>3. by = "plencrypt" => rel' = Bytes(n)
        <5>1. by = "plencrypt" => Least((ctr + 1) * ChunkLen, n) = n
          <6> DEFINE w == (ctr + 1) * ChunkLen
          <6>1. w \in Int /\ (by = "plencrypt" => w >= n)
            BY <1>4, <2>8, <3>1, Sizes
          <6> HIDE DEF w
          <6>2. by = "plencrypt" => Least(w, n) = n
            BY <1>4, <6>1 DEF Least
          <6> QED
            BY <6>2 DEF w
        <5> QED
          BY <2>8, <5>1
      <4>4. ct' = Stream(rel')
        BY <1>1, <2>1, <4>2
      <4>5. Stream(rel') = Stream(rel)'
        BY DEF Stream
      <4> QED
        BY <1>1, <1>3, <4>1, <4>3, <4>4, <4>5 DEF AcceptsExactlyTheStream
    <3>2. CASE ~IsLast /\ Wrapped(ctr)
      <4>1. ph' = "toolong" /\ ct # Stream(Bytes(n))
        BY <1>7, <2>1, <3>2
      <4> QED
        BY <1>1, <1>3, <4>1 DEF AcceptsExactlyTheStream
    <3>3. CASE ~IsLast /\ ~Wrapped(ctr)
      <4>1. ph' = "pldecrypt"
        BY <1>1, <2>1, <3>3
      <4> QED
        BY <4>1, NoOutcome
    <3> QED
      BY <3>1, <3>2, <3>3
  <2> QED
    BY <1>6, <2>7, <2>9, <2>10, <2>11 DEF IInv
<1> QED
  BY <1>8, <1>9

LEMMA NextIInv == ASSUME IInv, [Next]_vars PROVE IInv'
<1>1. CASE EncChunk
  BY <1>1, EncChunkIInv
<1>2. CASE EncFails \/ DecFails \/ UNCHANGED vars
  BY <1>2, FailsIInv
<1>3. CASE OtherSeals
  BY <1>3, OtherSealsIInv
<1>4. CASE OtherStops \/ Deliver
  BY <1>4, BeginsIInv
<1>5. CASE Damage
  BY <1>5, DamageIInv
<1>6. CASE DecChunk
  BY <1>6, DecChunkIInv
<1>7. CASE Stopped
  BY <1>7, FailsIInv DEF Stopped
<1> QED
  BY <1>1, <1>2, <1>3, <1>4, <1>5, <1>6, <1>7 DEF Next

-----------------------------------------------------------------------------
(* What follows. *)

LEMMA IInvNonceUnique == ASSUME IInv PROVE NonceUnique
<1>1. ph = "unwritten" => Chunks(n) > CtrLimit
  <2> SUFFICES ASSUME ph = "unwritten" PROVE Chunks(n) > CtrLimit
    OBVIOUS
  <2>1. PayloadTypeOK /\ Unread /\ Written
    BY DEF IInv
  <2>2. by = "plencrypt"
    BY <2>1 DEF Unread
  <2> QED
    BY <2>1, <2>2 DEF Written
<1>2. ASSUME by = "plencrypt", edits = 0, NEW j \in 1..Len(ct), NEW k \in 1..Len(ct),
             ct[j].ctr = ct[k].ctr, ct[j].i = ct[k].i
      PROVE  j = k
  BY <1>2 DEF IInv, Written
<1> QED
  BY <1>1, <1>2 DEF NonceUnique

LEMMA IInvReleases == ASSUME IInv PROVE ReleasesAPrefix
<1> SUFFICES ASSUME by = "plencrypt" PROVE IsPrefix(rel, Bytes(n))
  BY DEF ReleasesAPrefix
<1>1. n \in Nat
  BY DEF IInv, PayloadTypeOK
<1>2. PICK m \in 0..n : rel = Bytes(m)
  BY DEF IInv, Released
<1>3. m \in Nat /\ m <= n
  BY <1>1, <1>2
<1>4. /\ Len(rel) = m /\ \A j \in 1..m : rel[j] = j
      /\ Bytes(n) \in Seq(Nat) /\ Len(Bytes(n)) = n /\ \A j \in 1..n : Bytes(n)[j] = j
  BY <1>1, <1>2, <1>3, BytesIs
<1>5. Len(rel) \in Nat /\ Len(rel) <= Len(Bytes(n))
  BY <1>1, <1>3, <1>4
<1>6. rel \in Seq(Nat)
  BY DEF IInv, PayloadTypeOK
<1> DEFINE one == 1
           sub == SubSeq(Bytes(n), one, m)
<1>7. SubSeq(rel, 1, Len(rel)) = rel
  BY <1>6, SubSeqFull
<1>8. sub \in Seq(Nat) /\ Len(sub) = m /\ \A j \in 1..m : sub[j] = j
  <2>1. \A j \in one..m : Bytes(n)[j] \in Nat
    BY <1>1, <1>3, <1>4
  <2>2. one \in Int /\ m \in Int /\ one = 1
    BY <1>3
  <2> HIDE DEF one
  <2>3. /\ sub \in Seq(Nat)
        /\ Len(sub) = IF one <= m THEN m - one + 1 ELSE 0
        /\ \A j \in 1..(m - one + 1) : sub[j] = Bytes(n)[one + j - 1]
    BY <2>1, <2>2, SubSeqProperties
  <2>4. Len(sub) = m
    BY <1>3, <2>2, <2>3
  <2>5. ASSUME NEW j \in 1..m PROVE sub[j] = j
    <3>1. j \in 1..(m - one + 1) /\ one + j - 1 = j /\ j \in 1..n
      BY <1>1, <1>3, <2>2
    <3> QED
      BY <1>4, <2>3, <3>1
  <2> QED
    BY <2>3, <2>4, <2>5
<1>9. rel = sub
  <2> HIDE DEF sub
  <2> QED
    BY <1>4, <1>6, <1>8, SeqEqual
<1>10. SubSeq(Bytes(n), 1, Len(rel)) = sub
  BY <1>4
<1> QED
  BY <1>5, <1>7, <1>9, <1>10 DEF IsPrefix

\* In every state the chunks read so far are, byte for byte, the stream of what
\* has been released, and plencrypt's bytes are where their nonces say: the
\* inductive invariant of the payload loops.
THEOREM Invariance == Spec => []IInv
<1>1. Init => IInv
  BY InitIInv
<1>2. IInv /\ [Next]_vars => IInv'
  BY NextIInv
<1> QED
  BY <1>1, <1>2, PTL DEF Spec

\* plencrypt never seals two chunks under one nonce, and gives up only when there
\* are more chunks than nonces (incnonce).
THEOREM NoncesAreUnique == Spec => []NonceUnique
<1>1. IInv => NonceUnique
  BY IInvNonceUnique
<1> QED
  BY <1>1, Invariance, PTL

\* Whatever happens to plencrypt's stream, pldecrypt hands out nothing but a
\* beginning of the plaintext, at every moment.
THEOREM OnlyAPrefix == Spec => []ReleasesAPrefix
<1>1. IInv => ReleasesAPrefix
  BY IInvReleases
<1> QED
  BY <1>1, Invariance, PTL

\* pldecrypt accepts exactly the streams plencrypt makes: of a stream short enough
\* that its int i does not overflow, that is up to IntMax chunks.
THEOREM OnlyTheStream == Spec => [](Short => AcceptsExactlyTheStream)
<1>1. IInv => (Short => AcceptsExactlyTheStream)
  BY DEF IInv
<1> QED
  BY <1>1, Invariance, PTL
=============================================================================
