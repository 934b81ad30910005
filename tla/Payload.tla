------------------------------- MODULE Payload -------------------------------
(***************************************************************************)
(* The payload loops of src/agec/payload.c: plencrypt and pldecrypt with   *)
(* incnonce, encchunk, decchunk and ateof.  A stream is made by plencrypt, *)
(* and may be damaged on the way; or another program that has the key      *)
(* makes it, without following plencrypt's layout.  pldecrypt reads it.    *)
(*                                                                         *)
(* bread, ateof and bwrite do what Ibuf and Obuf show of them, or fail.    *)
(* ChaCha20-Poly1305 is ideal: what was sealed under a nonce opens under   *)
(* that nonce, whole and unchanged, and nothing else opens.                *)
(***************************************************************************)
EXTENDS Integers, Sequences, SequencesExt

CONSTANTS
    ChunkLen,   \* CHUNKLEN (65536)
    TagLen,     \* TAGLEN (16)
    CtrLimit,   \* values of the 11-byte chunk counter (2^88)
    IntMax,     \* greatest int (2^31 - 1)
    MaxLen,     \* bound: bytes of plaintext
    MaxSeals,   \* bound: chunks of another program's stream
    MaxEdits    \* bound: changes made on the way

ASSUME SizeAssumption ==
    /\ {ChunkLen, TagLen, CtrLimit, IntMax} \subseteq Nat \ {0}
    /\ {MaxLen, MaxSeals, MaxEdits} \subseteq Nat

SealLen == ChunkLen + TagLen
Bytes(n) == [i \in 1..n |-> i]
Least(x, y) == IF x < y THEN x ELSE y

\* encchunk(): the i-th byte of data sealed under the nonce <<ctr, last>>.
Seal(ctr, last, data) ==
    [i \in 1..(Len(data) + TagLen) |->
        [ctr |-> ctr, last |-> last, data |-> data, i |-> i]]
\* A byte no seal has.
Noise == [ctr |-> 0, last |-> FALSE, data |-> <<>>, i |-> 0]

\* chacha20poly1305read() accepts s under the nonce.
Opens(s, ctr, last) ==
    Len(s) >= TagLen /\ s = Seal(ctr, last, s[1].data)

VARIABLES
    by,     \* who makes the stream: plencrypt or another program
    n,      \* bytes of plaintext (sealed so far, by another program)
    ct,     \* the stream
    pos,    \* how far the reader of the loop has read
    ctr,    \* nonce[0..10]
    i,      \* pldecrypt's int i; before that, chunks of another program
    rel,    \* plaintext pldecrypt has handed to bwrite
    ph,     \* plencrypt, other, transport, pldecrypt, or the outcome
    edits   \* changes made to the stream

vars == <<by, n, ct, pos, ctr, i, rel, ph, edits>>

Outcomes == {"ok", "unwritten", "toolong", "emptychunk", "refused", "failed"}

Init ==
    /\ n \in 0..MaxLen
    /\ ct = <<>> /\ pos = 0 /\ ctr = 0 /\ i = 0 /\ rel = <<>> /\ edits = 0
    /\ by \in {"plencrypt", "other"} /\ ph = by
    /\ by = "other" => n = 0

\* Mutant of Wrapped: the overflow of the counter is ignored.
WrapIgnored(c) == FALSE
\* incnonce(): add one; all bytes zero again is an error.
Wrapped(c) == c + 1 = CtrLimit
IncNonce(c) == (c + 1) % CtrLimit

-----------------------------------------------------------------------------
(* Making a stream. *)

\* ateof() after a bread that ended at pos end of an input of total bytes.
AtEof(end, total) == end = total

\* One iteration of plencrypt.  The nonce is incremented after the last chunk
\* too, but its overflow is then not looked at.
EncChunk ==
    /\ ph = "plencrypt"
    /\ LET end == Least(pos + ChunkLen, n)
           last == AtEof(end, n)
       IN  /\ ct' = ct \o Seal(ctr, last, SubSeq(Bytes(n), pos + 1, end))
           /\ pos' = IF last THEN 0 ELSE end
           /\ ctr' = IF last THEN 0 ELSE IncNonce(ctr)
           /\ ph' = IF last THEN "transport"
                    ELSE IF Wrapped(ctr) THEN "unwritten" ELSE ph
    /\ UNCHANGED <<by, n, i, rel, edits>>

\* bread, ateof or bwrite fails.
EncFails ==
    /\ ph = "plencrypt"
    /\ ph' = "failed"
    /\ UNCHANGED <<by, n, ct, pos, ctr, i, rel, edits>>

\* Another program seals chunks of any length, each last or not, with as many
\* as it likes under one key, and stops.
OtherSeals ==
    /\ ph = "other" /\ i < MaxSeals
    /\ \E len \in 0..Least(ChunkLen, MaxLen - n), last \in BOOLEAN :
          /\ ct' = ct \o Seal(ctr, last, [j \in 1..len |-> n + j])
          /\ n' = n + len
    /\ ctr' = IncNonce(ctr) /\ i' = i + 1
    /\ UNCHANGED <<by, pos, rel, ph, edits>>
OtherStops ==
    /\ ph = "other"
    /\ ph' = "pldecrypt" /\ ctr' = 0 /\ i' = 0
    /\ UNCHANGED <<by, n, ct, pos, rel, edits>>

-----------------------------------------------------------------------------
(* The way from the writer to the reader. *)

Segments == (Len(ct) + SealLen - 1) \div SealLen
\* The chunks of the stream from the a-th to the b-th.
Part(a, b) == SubSeq(ct, (a - 1) * SealLen + 1, Least(b * SealLen, Len(ct)))

\* Cut it, change a byte, add one, lose, repeat or swap whole chunks.
Damage ==
    /\ ph = "transport" /\ edits < MaxEdits
    /\ \/ \E k \in 0..(Len(ct) - 1) : ct' = SubSeq(ct, 1, k)
       \/ \E k \in 1..Len(ct) : ct' = [ct EXCEPT ![k] = Noise]
       \/ ct' = Append(ct, Noise)
       \/ \E k \in 1..Segments :
             \/ ct' = Part(1, k - 1) \o Part(k + 1, Segments)
             \/ ct' = Part(1, k) \o Part(k, Segments)
       \/ \E k \in 1..(Segments - 1) :
             ct' = Part(1, k - 1) \o Part(k + 1, k + 1) \o Part(k, k) \o Part(k + 2, Segments)
    /\ edits' = edits + 1
    /\ UNCHANGED <<by, n, pos, ctr, i, rel, ph>>

Deliver ==
    /\ ph = "transport"
    /\ ph' = "pldecrypt"
    /\ UNCHANGED <<by, n, ct, pos, ctr, i, rel, edits>>

-----------------------------------------------------------------------------
(* pldecrypt. *)

\* Mutant of EmptyLast: the first chunk is checked too.
EmptyLastAlways(last, len) == last /\ len = TagLen
\* A final chunk with nothing in it, other than the first.
EmptyLast(last, len) == last /\ i > 0 /\ len = TagLen

\* i++ of an int.
IncInt(x) == IF x = IntMax THEN -IntMax - 1 ELSE x + 1

\* Mutant of Authentic: the counter is not part of the nonce.
AuthenticAnyCtr(s, last) == \E c \in 0..(CtrLimit - 1) : Opens(s, c, last)
\* decchunk() under the nonce of this iteration.
Authentic(s, last) == Opens(s, ctr, last)

\* One iteration of pldecrypt: the data of a chunk that opens is written at
\* once, before what follows has been seen.
DecChunk ==
    /\ ph = "pldecrypt"
    /\ LET end == Least(pos + SealLen, Len(ct))
           s == SubSeq(ct, pos + 1, end)
           last == AtEof(end, Len(ct))
       IN  \/ /\ EmptyLast(last, Len(s))
              /\ ph' = "emptychunk"
              /\ UNCHANGED <<by, pos, ctr, i, rel>>
           \/ /\ ~EmptyLast(last, Len(s)) /\ ~Authentic(s, last)
              /\ ph' = "refused"
              /\ UNCHANGED <<by, pos, ctr, i, rel>>
           \/ /\ ~EmptyLast(last, Len(s)) /\ Authentic(s, last)
              /\ rel' = rel \o s[1].data
              /\ pos' = end
              /\ ctr' = IncNonce(ctr)
              /\ i' = IncInt(i)
              /\ ph' = IF last THEN "ok"
                       ELSE IF Wrapped(ctr) THEN "toolong" ELSE ph
    /\ UNCHANGED <<by, n, ct, edits>>

DecFails ==
    /\ ph = "pldecrypt"
    /\ ph' = "failed"
    /\ UNCHANGED <<by, n, ct, pos, ctr, i, rel, edits>>

Stopped == ph \in Outcomes /\ UNCHANGED vars

Next == \/ EncChunk \/ EncFails \/ OtherSeals \/ OtherStops
        \/ Damage \/ Deliver \/ DecChunk \/ DecFails \/ Stopped

Spec == Init /\ [][Next]_vars

-----------------------------------------------------------------------------
(* Properties. *)

\* The format: how many chunks m bytes take, and the bytes of the stream.
Chunks(m) == IF m = 0 THEN 1 ELSE (m + ChunkLen - 1) \div ChunkLen
Stream(data) ==
    LET m == Len(data)
        chunk(k) == Seal(k, k = Chunks(m) - 1,
                         SubSeq(data, k * ChunkLen + 1, Least((k + 1) * ChunkLen, m)))
    IN  [j \in 1..(m + Chunks(m) * TagLen) |->
            LET k == (j - 1) \div SealLen IN chunk(k)[j - k * SealLen]]

\* plencrypt never seals two chunks under one nonce: a payload with more
\* chunks than the counter has values is refused in time (incnonce), and no
\* smaller one is.
NonceUnique ==
    /\ by = "plencrypt" /\ edits = 0 =>
         \A j, k \in 1..Len(ct) :
             /\ ct[j].ctr = ct[k].ctr /\ ct[j].last = ct[k].last
             /\ ct[j].i = ct[k].i
             => j = k
    /\ ph = "unwritten" => Chunks(n) > CtrLimit

\* Whatever was done to plencrypt's stream on the way, what pldecrypt has released is
\* at every moment a beginning of the plaintext: no chunk is lost, repeated or
\* moved, also when decryption fails later.
ReleasesAPrefix == by = "plencrypt" => IsPrefix(rel, Bytes(n))

\* pldecrypt accepts a stream if and only if it is the one plencrypt makes of
\* the plaintext, whatever its length (none, a whole number of chunks, as many
\* as the counter allows): a cut, an extension, a missing final chunk, an empty
\* final chunk or short chunks of another program are refused.
AcceptsExactlyTheStream ==
    /\ ph = "ok" => /\ ct = Stream(rel)
                    /\ by = "plencrypt" => rel = Bytes(n)
    /\ ph \in {"emptychunk", "refused", "toolong"} => ct # Stream(Bytes(n))
=============================================================================
