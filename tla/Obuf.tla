-------------------------------- MODULE Obuf --------------------------------
(***************************************************************************)
(* The output side of src/agec/io.c (bwrite, awrite, aflush, bflush,       *)
(* writeall) and the code that drives it: makehdr, payload and writebody   *)
(* of agecore.c on encryption, pldecrypt and the last bflush of            *)
(* decipher_payload on decryption.                                         *)
(*                                                                         *)
(* One step is one agewrite() or the code up to the next one.  Bytes are   *)
(* numbered in the order the caller hands them over.                       *)
(***************************************************************************)
EXTENDS ArmorText

CONSTANTS
    PieceLens,  \* sizes the callers hand to bwrite
    MaxPieces   \* bound: calls of bwrite

ASSUME PieceAssumption == PieceLens \subseteq Nat /\ MaxPieces \in Nat

VARIABLES
    isarmor,  \* b->isarmor
    obuf,      \* the first b->cur bytes of the union b->buf
    left,     \* bytes bwrite has been given and not yet taken
    pend,     \* what writeall has still to write, and the writealls after it
    fd,       \* what the descriptor has received
    wr        \* the caller: phase, bytes given, calls left, outcome

obufvars == <<isarmor, obuf, left, pend, fd, wr>>

Capacity == IF isarmor THEN ABufSize ELSE BufSize

ObufInit ==
    /\ isarmor \in BOOLEAN
    /\ obuf = <<>> /\ left = <<>> /\ pend = <<>> /\ fd = <<>>
    /\ wr = [phase |-> "first", given |-> 0, calls |-> MaxPieces,
             outcome |-> "none"]

\* The buffer has returned to its caller.
Returned == left = <<>> /\ pend = <<>>
WriterAt(phase) == Returned /\ wr.phase = phase
WriterGoto(phase) == wr' = [wr EXCEPT !.phase = phase]
WriterStop(o) == wr' = [wr EXCEPT !.phase = "stop", !.outcome = o]

\* A writeall of nothing does not call agewrite().
WriteAll(s) == IF s = <<>> THEN <<>> ELSE <<s>>
Before(s, k) == SubSeq(s, 1, k)
After(s, k) == SubSeq(s, k + 1, Len(s))

-----------------------------------------------------------------------------
(* The callers. *)

\* makehdr(): the BEGIN line goes to the descriptor, past the buffer.
ArmorFirst ==
    /\ WriterAt("first")
    /\ pend' = IF isarmor THEN <<BeginLine>> ELSE <<>>
    /\ WriterGoto("body")
    /\ UNCHANGED <<isarmor, obuf, left, fd>>

\* A header line, the MAC, the nonce or a chunk is handed to bwrite().
Give ==
    /\ WriterAt("body") /\ wr.calls > 0
    /\ \E n \in PieceLens :
          /\ left' = [i \in 1..n |-> <<"byte", wr.given + i>>]
          /\ wr' = [wr EXCEPT !.given = @ + n, !.calls = @ - 1]
    /\ UNCHANGED <<isarmor, obuf, pend, fd>>

\* Reading or decrypting the next chunk failed: the caller returns the error
\* and the buffer is not flushed.
Abandon ==
    /\ WriterAt("body")
    /\ WriterStop("failed")
    /\ UNCHANGED <<isarmor, obuf, left, pend, fd>>

\* bflush(), aflush(): what the buffer holds; nothing is not written.
Flush ==
    /\ WriterAt("body")
    /\ pend' = WriteAll(IF isarmor THEN Encode(obuf) ELSE obuf)
    /\ obuf' = <<>>
    /\ WriterGoto("last")
    /\ UNCHANGED <<isarmor, left, fd>>

\* writebody(): the END line.
ArmorLast ==
    /\ WriterAt("last")
    /\ pend' = IF isarmor THEN <<EndLine>> ELSE <<>>
    /\ WriterGoto("return")
    /\ UNCHANGED <<isarmor, obuf, left, fd>>

Return ==
    /\ WriterAt("return")
    /\ WriterStop("ok")
    /\ UNCHANGED <<isarmor, obuf, left, pend, fd>>

-----------------------------------------------------------------------------
(* bwrite and awrite. *)

\* bwrite(): fill the buffer; if that leaves it full, flush it and write the
\* rest of the piece directly.
Bwrite ==
    /\ left # <<>> /\ ~isarmor
    /\ LET rest == BufSize - Len(obuf)
           c == Least(rest, Len(left))
           filled == obuf \o Before(left, c)
       IN  IF rest > Len(left)
           THEN obuf' = filled /\ pend' = <<>>
           ELSE obuf' = <<>> /\ pend' = WriteAll(filled) \o WriteAll(After(left, c))
    /\ left' = <<>>
    /\ UNCHANGED <<isarmor, fd, wr>>

\* Mutant of Awrite: every call flushes.
AwriteFlushes ==
    /\ left # <<>> /\ isarmor /\ pend = <<>>
    /\ LET c == Least(ABufSize - Len(obuf), Len(left))
       IN  /\ left' = After(left, c)
           /\ obuf' = <<>>
           /\ pend' = <<Encode(obuf \o Before(left, c))>>
    /\ UNCHANGED <<isarmor, fd, wr>>

\* Mutant of Awrite: the full buffer is not flushed.
AwriteNeverFlushes ==
    /\ left # <<>> /\ isarmor /\ pend = <<>>
    /\ LET c == Least(ABufSize - Len(obuf), Len(left))
       IN  /\ left' = After(left, c)
           /\ obuf' = obuf \o Before(left, c)
    /\ UNCHANGED <<isarmor, pend, fd, wr>>

\* One iteration of awrite(): fill the buffer; a full one is encoded.
Awrite ==
    /\ left # <<>> /\ isarmor /\ pend = <<>>
    /\ LET c == Least(ABufSize - Len(obuf), Len(left))
           filled == obuf \o Before(left, c)
           full == Len(filled) = ABufSize
       IN  /\ left' = After(left, c)
           /\ obuf' = IF full THEN <<>> ELSE filled
           /\ pend' = IF full THEN <<Encode(filled)>> ELSE <<>>
    /\ UNCHANGED <<isarmor, fd, wr>>

\* Mutant of WriteSome: a short write is taken for a whole one.
WriteSomeIgnoresCount ==
    /\ pend # <<>>
    /\ \E k \in 1..Len(Head(pend)) :
          /\ fd' = fd \o Before(Head(pend), k)
          /\ pend' = Tail(pend)
    /\ UNCHANGED <<isarmor, obuf, left, wr>>

\* agewrite() takes any positive part; writeall() goes on with the rest.
WriteSome ==
    /\ pend # <<>>
    /\ \E k \in 1..Len(Head(pend)) :
          /\ fd' = fd \o Before(Head(pend), k)
          /\ pend' = WriteAll(After(Head(pend), k)) \o Tail(pend)
    /\ UNCHANGED <<isarmor, obuf, left, wr>>

\* Mutant of WriteFails: the caller does not look at the result.
WriteFailsUnnoticed ==
    /\ pend # <<>>
    /\ pend' = <<>>
    /\ UNCHANGED <<isarmor, obuf, left, fd, wr>>

\* agewrite() fails or takes nothing: every caller up to the transform returns
\* the error.
WriteFails ==
    /\ pend # <<>>
    /\ left' = <<>> /\ pend' = <<>>
    /\ WriterStop("failed")
    /\ UNCHANGED <<isarmor, obuf, fd>>

ObufNext == \/ ArmorFirst \/ Give \/ Abandon \/ Flush \/ ArmorLast \/ Return
            \/ Bwrite \/ Awrite \/ WriteSome \/ WriteFails

-----------------------------------------------------------------------------
(* Properties. *)

\* The text of n bytes, as Ibuf reads it.
Output(n) == IF isarmor THEN Armored(n) ELSE Bytes(n)

\* The buffer never holds more than its array (bwrite, awrite), and every
\* pending write has something to write.
ObufTypeOK ==
    /\ isarmor \in BOOLEAN
    /\ Len(obuf) <= Capacity
    /\ \A i \in 1..Len(pend) : pend[i] # <<>>
    /\ wr.outcome \in {"none", "ok", "failed"}

\* Every byte given to bwrite is, in order and once, at the descriptor, in a
\* write under way, in the buffer or still to be taken, whatever the short
\* writes and wherever a piece meets the end of the buffer.
Accounted ==
    wr.outcome = "none" =>
        OnlyBytes(fd \o FlattenSeq(pend)) \o obuf \o left = Bytes(wr.given)

\* What has reached the descriptor, also when the call fails half way, is a
\* beginning of the one canonical text: full armor lines, a short one only
\* before the END line, no line broken where two blocks meet (aflush).
CanonicalText == IsPrefix(fd, Output(wr.given))
=============================================================================
