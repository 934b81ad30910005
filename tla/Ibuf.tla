-------------------------------- MODULE Ibuf --------------------------------
(***************************************************************************)
(* The input side of src/agec/io.c (isarmor, bread, bpeek, aread,          *)
(* endcheck, recappend, recstop) driven by its callers: the header parser  *)
(* and validmac of agecore.c, and the chunk loops of payload.c (bread of a *)
(* chunk, then ateof).                                                     *)
(*                                                                         *)
(* One step is one iteration of a C loop, so a read() that returns less    *)
(* than it was asked for, or fails, can fall between any two of them.      *)
(***************************************************************************)
EXTENDS ArmorText

CONSTANTS
    MacLen,      \* bytes of the MAC line after the header (45)
    NonceLen,    \* bytes of the payload nonce (16)
    Chunk,       \* bytes of one payload read (65536, with tag 65552)
    HeaderLens,  \* lengths of the header up to the MAC line
    MaxLen       \* bound: longest content of an input that is not from Obuf

\* A chunk and a header with a stanza are longer than the probe.
ASSUME ReadAssumption ==
    /\ {MacLen, NonceLen, Chunk} \subseteq Nat \ {0}
    /\ ProbeLen <= Chunk
    /\ HeaderLens \subseteq Nat /\ \A h \in HeaderLens : ProbeLen < h
    /\ MaxLen \in Nat

-----------------------------------------------------------------------------
\* kind "damaged": armored text cut anywhere after the BEGIN line, or followed
\* by more text.
InputText(kind, n, cut) ==
    CASE kind = "plain" -> Bytes(n)
      [] kind = "armored" -> Armored(n)
      [] kind = "damaged" /\ cut < Len(Armored(n)) -> SubSeq(Armored(n), 1, cut)
      [] OTHER -> Append(Armored(n), NL)

-----------------------------------------------------------------------------
VARIABLES
    in,      \* the input: kind, n, file (its text), mode (decrypt or encrypt)
    fpos,    \* characters read from the descriptor
    b,       \* the scalar fields of struct Ibuf
    buf,     \* b->buf: overwritten from its start, never cleared
    abuf,    \* b->abuf[0..asize): bytes decoded from the last block
    rec,     \* b->rec: bytes recorded for the MAC
    op,      \* the buffer operation in progress, and what it has done so far
    got,     \* bytes handed to the caller
    cl       \* the caller: phase, header length, MAC data, outcome

ibufvars == <<in, fpos, b, buf, abuf, rec, op, got, cl>>

\* (usize)-2, what bpeek() stores when aread refuses the armor: 2^64 - 2 in the
\* code, of which only matters that it is beyond the buffer.
MinusTwo == BufSize + 1
\* It has: b->size no longer says how much is in the buffer.
Stale == b.size = MinusTwo

Idle == [name |-> "idle", want |-> 0, dest |-> <<>>, fill |-> 0, aread |-> FALSE]
Running == op.name # "idle"

\* What the caller must receive: the bytes behind the armor on decryption,
\* the caller's own data on encryption.
Content == IF in.mode = "encrypt" \/ in.kind = "plain" THEN in.file
           ELSE Bytes(in.n)

Rest == Len(in.file) - fpos
Text(k) == SubSeq(in.file, fpos + 1, fpos + k)

\* ibinit(); recording matters only for a file to decrypt, whose header is read
\* first.
Fresh(mode) ==
    [isarmor |-> "unchecked", eof |-> FALSE, cur |-> 0, size |-> 0, acur |-> 0,
     ended |-> FALSE, recording |-> mode = "decrypt", alloc |-> FALSE,
     recfail |-> FALSE]
Caller(mode, h) ==
    [phase |-> IF mode = "decrypt" THEN "header" ELSE "chunk", hdr |-> h,
     mac |-> <<"none", 0>>, eof |-> FALSE, short |-> FALSE, outcome |-> "none"]

IbufInit ==
    /\ \E kind \in {"plain", "armored", "damaged"}, n \in 0..MaxLen,
          mode \in {"decrypt", "encrypt"} :
          \E cut \in IF kind = "damaged" THEN ProbeLen..Len(Armored(n)) ELSE {0} :
              in = [kind |-> kind, n |-> n, mode |-> mode,
                    file |-> InputText(kind, n, cut)]
    /\ fpos = 0 /\ b = Fresh(in.mode)
    /\ buf = <<>> /\ abuf = <<>> /\ rec = <<>> /\ got = <<>>
    /\ op = Idle
    /\ \E h \in HeaderLens : cl = Caller(in.mode, h)

Stop(o) == cl' = [cl EXCEPT !.phase = "stop", !.outcome = o]

-----------------------------------------------------------------------------
(* Returning to the caller. *)

\* bread returns the bytes d; bpeek returns 1, or 0 at the end.
BreadReturns(d) == /\ got' = got \o d
                   /\ op' = Idle
                   /\ cl' = [cl EXCEPT !.short = Len(d) < op.want]
\* Mutant of BpeekReturns: the end is reported as a byte.
BpeekReturnsOne(end) == /\ op' = Idle
                        /\ cl' = [cl EXCEPT !.eof = FALSE]
                        /\ UNCHANGED got
BpeekReturns(end) == /\ op' = Idle
                     /\ cl' = [cl EXCEPT !.eof = end]
                     /\ UNCHANGED got
\* The end of the input, seen by either.
ReturnsAtEnd ==
    IF op.name = "bread" THEN BreadReturns(op.dest) ELSE BpeekReturns(TRUE)

\* Where a parser that is fed old bytes of the buffer may see the header end.
StaleEnds == {h \in 1..(Len(got) + BufSize + 1) : Len(got) < h /\ ProbeLen < h}

\* aread answers -2, leaving f of b: bread reports "armor format error".  bpeek
\* does not look, stores it as the size of the buffer and returns 1 with the byte
\* at its start, and what is read from there on is what the buffer held before.
ArmorError(f) ==
    /\ \/ op.name = "bread" /\ Stop("badarmor") /\ b' = f
       \/ /\ op.name = "bpeek"
          /\ b' = [f EXCEPT !.size = MinusTwo]
          /\ \E h \in IF cl.phase = "peeked" THEN StaleEnds ELSE {cl.hdr} :
                cl' = [cl EXCEPT !.eof = FALSE, !.hdr = h]
    /\ op' = Idle
    /\ UNCHANGED got

-----------------------------------------------------------------------------
(* The steps of bread and bpeek. *)

\* Mutant of Probe: the BEGIN line stays in the buffer.
ProbeKeepsLine ==
    /\ Running /\ b.isarmor = "unchecked"
    /\ LET k == Least(ProbeLen, Rest)
       IN  /\ buf' = Text(k)
           /\ fpos' = fpos + k
           /\ b' = [b EXCEPT !.isarmor = IF Text(k) = BeginLine THEN "yes" ELSE "no",
                             !.size = k, !.eof = k < ProbeLen]
    /\ UNCHANGED <<in, abuf, rec, op, got, cl>>

\* isarmor(): read as much as the BEGIN line has and compare.
Probe ==
    /\ Running /\ b.isarmor = "unchecked"
    /\ LET k == Least(ProbeLen, Rest)
           yes == Text(k) = BeginLine
       IN  /\ buf' = Text(k)
           /\ fpos' = fpos + k
           /\ b' = [b EXCEPT !.isarmor = IF yes THEN "yes" ELSE "no",
                             !.size = IF yes THEN 0 ELSE k,
                             !.eof = k < ProbeLen]
    /\ UNCHANGED <<in, abuf, rec, op, got, cl>>

Checked == Running /\ b.isarmor # "unchecked" /\ ~op.aread

\* recappend(buf, len): the record grows, or its allocation fails for good;
\* f is b with the fields its caller sets afterwards.
RecAppend(len, f) ==
    \/ /\ ~b.recfail
       /\ rec' = rec \o SubSeq(buf, 1, len)
       /\ b' = [f EXCEPT !.alloc = TRUE]
    \/ /\ rec' = rec
       /\ b' = [f EXCEPT !.recfail = TRUE]

\* Mutant of Recycle: the used-up buffer is not recorded.
RecycleUnrecorded ==
    /\ Checked /\ b.cur = b.size /\ b.size > 0
    /\ op.name = "bpeek" => ~b.eof
    /\ b' = [b EXCEPT !.cur = 0, !.size = 0]
    /\ UNCHANGED <<in, fpos, buf, abuf, rec, op, got, cl>>

\* The buffer is used up: record it if the header is being recorded, empty it.
\* bpeek at the end of the input returns before it gets here.
Recycle ==
    /\ Checked /\ b.cur = b.size /\ b.size > 0
    /\ op.name = "bpeek" => ~b.eof
    /\ LET f == [b EXCEPT !.cur = 0, !.size = 0]
       IN  \/ b.recording /\ RecAppend(b.size, f)
           \/ ~b.recording /\ b' = f /\ UNCHANGED rec
    /\ UNCHANGED <<in, fpos, buf, abuf, op, got, cl>>

Empty == Checked /\ b.size = 0 /\ ~b.eof

\* Mutant of Fill: a short read is taken for the end of the file.
FillShortIsEof ==
    /\ Empty /\ b.isarmor = "no" /\ Rest > 0
    /\ \E k \in 1..Least(BufSize, Rest) :
          /\ buf' = Text(k) \o SubSeq(buf, k + 1, Len(buf))
          /\ fpos' = fpos + k
          /\ b' = [b EXCEPT !.size = k, !.eof = k < BufSize]
    /\ UNCHANGED <<in, abuf, rec, op, got, cl>>

\* One read() of an input that is not armored: any positive part of the rest.
Fill ==
    /\ Empty /\ b.isarmor = "no" /\ Rest > 0
    /\ \E k \in 1..Least(BufSize, Rest) :
          /\ buf' = Text(k) \o SubSeq(buf, k + 1, Len(buf))
          /\ fpos' = fpos + k
          /\ b' = [b EXCEPT !.size = k]
    /\ UNCHANGED <<in, abuf, rec, op, got, cl>>

\* read() returns 0: eof is set and the operation returns.
FillEnd ==
    /\ Empty /\ b.isarmor = "no" /\ Rest = 0
    /\ b' = [b EXCEPT !.eof = TRUE]
    /\ ReturnsAtEnd
    /\ UNCHANGED <<in, fpos, buf, abuf, rec>>

\* The buffer is empty and eof was set before.
AtEnd ==
    /\ Checked /\ b.cur = b.size /\ b.eof
    /\ op.name = "bread" => b.size = 0
    /\ ReturnsAtEnd
    /\ UNCHANGED <<in, fpos, b, buf, abuf, rec>>

\* bread copies what the buffer holds, up to what is wanted.  Where the size is
\* bpeek's it goes past the end of the array, and nothing is defined from there.
Copy ==
    /\ Checked /\ op.name = "bread" /\ b.cur < b.size
    /\ LET left == op.want - Len(op.dest)
           c == Least(b.size - b.cur, left)
           d == op.dest \o SubSeq(buf, b.cur + 1, b.cur + c)
       IN  \/ /\ b.cur + c <= Len(buf)
              /\ b' = [b EXCEPT !.cur = @ + c]
              /\ IF c = left
                 THEN BreadReturns(d)
                 ELSE /\ op' = [op EXCEPT !.dest = d]
                      /\ UNCHANGED <<got, cl>>
           \/ /\ b.cur + c > Len(buf)
              /\ Stop("overread")
              /\ op' = Idle
              /\ UNCHANGED <<b, got>>
    /\ UNCHANGED <<in, fpos, buf, abuf, rec>>

\* bpeek finds a byte in the buffer.
Peek ==
    /\ Checked /\ op.name = "bpeek" /\ b.cur < b.size
    /\ BpeekReturns(FALSE)
    /\ UNCHANGED <<in, fpos, b, buf, abuf, rec>>

-----------------------------------------------------------------------------
(* The steps of aread, which fills the buffer from armored text. *)

AreadBegin ==
    /\ Empty /\ b.isarmor = "yes"
    /\ op' = [op EXCEPT !.aread = TRUE, !.fill = 0]
    /\ UNCHANGED <<in, fpos, b, buf, abuf, rec, got, cl>>

\* Mutant of EndCheck: the END line alone in its block is refused.
EndCheckNeedsMore(s) ==
    IF Len(s) <= EndLen THEN "bad"
    ELSE IF SubSeq(s, Len(s) - EndLen + 1, Len(s)) = EndLine THEN "full"
    ELSE IF s[Len(s) - EndLen + 1] = EndLine[1] THEN "bad"
    ELSE "none"

\* endcheck() of a block.  Its endpos is 0 at every call that has a block:
\* it is set to EndLen only by the last block, and never to a part.
EndCheck(s) ==
    IF Len(s) < EndLen THEN "bad"
    ELSE IF SubSeq(s, Len(s) - EndLen + 1, Len(s)) = EndLine THEN "full"
    ELSE IF s[Len(s) - EndLen + 1] = EndLine[1] THEN "bad"
    ELSE "none"

\* base64decode() of a block: whole lines, of which the last may be short.
LineEnds(s) == {j \in 1..Len(s) : j % (LineLen + 1) = 0}
Clean(s) == \A j \in 1..Len(s) :
               \/ s[j] = NL /\ (j \in LineEnds(s) \/ j = Len(s))
               \/ s[j][1] = "byte" /\ j \notin LineEnds(s)
\* Where the last line lacks its newline the decoder drops the last character
\* or refuses, depending on bits this model does not have.
Decodings(s) ==
    IF ~Clean(s) THEN {}
    ELSE IF s = <<>> \/ Last(s) = NL THEN {OnlyBytes(s)}
    ELSE {OnlyBytes(Front(s))}
MayRefuse(s) == ~Clean(s) \/ (s # <<>> /\ Last(s) # NL)

\* The text is over: after the END line aread returns what it has (0 sets eof
\* in the caller), before it that is a format error.
AreadEnd ==
    /\ op.aread /\ b.acur = Len(abuf) /\ Rest = 0
    /\ abuf' = <<>>
    /\ \/ ~b.ended /\ ArmorError([b EXCEPT !.acur = 0])
       \/ /\ b.ended
          /\ b' = [b EXCEPT !.acur = 0, !.size = op.fill, !.eof = op.fill = 0]
          /\ IF op.fill = 0 THEN ReturnsAtEnd
             ELSE op' = [op EXCEPT !.aread = FALSE] /\ UNCHANGED <<got, cl>>
    /\ UNCHANGED <<in, fpos, buf, rec>>

\* Read the next block, look for the END line, decode the rest.
AreadBlock ==
    /\ op.aread /\ b.acur = Len(abuf) /\ Rest > 0
    /\ LET raw == Text(Least(BlockLen, Rest))
           end == EndCheck(raw)
           body == SubSeq(raw, 1, Len(raw) - (IF end = "full" THEN EndLen ELSE 0))
       IN  /\ fpos' = fpos + Len(raw)
           /\ \/ /\ \/ end = "bad"
                    \/ MayRefuse(body)
                    \/ end = "full" /\ Rest > Len(raw)   \* text after the END line
                 /\ ArmorError(b)
                 /\ UNCHANGED abuf
              \/ /\ end # "bad"
                 /\ end = "full" => Rest = Len(raw)
                 /\ abuf' \in Decodings(body)
                 /\ b' = [b EXCEPT !.acur = 0, !.ended = end = "full"]
                 /\ UNCHANGED <<op, got, cl>>
    /\ UNCHANGED <<in, buf, rec>>

\* Mutant of AreadCopy: all of the block, whatever room the buffer has.
AreadCopyAll ==
    /\ op.aread /\ b.acur < Len(abuf)
    /\ LET c == Len(abuf) - b.acur
       IN  /\ buf' = SubSeq(buf, 1, op.fill) \o SubSeq(abuf, b.acur + 1, b.acur + c)
           /\ b' = [b EXCEPT !.acur = @ + c, !.size = op.fill + c]
           /\ op' = [op EXCEPT !.fill = @ + c, !.aread = op.fill + c < BufSize]
    /\ UNCHANGED <<in, fpos, abuf, rec, got, cl>>

\* Move decoded bytes to the buffer; return when it is full.
AreadCopy ==
    /\ op.aread /\ b.acur < Len(abuf)
    /\ LET c == Least(Len(abuf) - b.acur, BufSize - op.fill)
           full == op.fill + c = BufSize
       IN  /\ buf' = SubSeq(buf, 1, op.fill)
                       \o SubSeq(abuf, b.acur + 1, b.acur + c)
                       \o SubSeq(buf, op.fill + c + 1, Len(buf))
           /\ b' = [b EXCEPT !.acur = @ + c, !.size = IF full THEN BufSize ELSE @]
           /\ op' = [op EXCEPT !.fill = @ + c, !.aread = ~full]
    /\ UNCHANGED <<in, fpos, abuf, rec, got, cl>>

\* Any read() may fail; the caller gives up.
ReadFails ==
    /\ \/ Running /\ b.isarmor = "unchecked"
       \/ Empty /\ b.isarmor = "no"
       \/ op.aread /\ b.acur = Len(abuf)
    /\ Stop("ioerror")
    /\ op' = Idle
    /\ UNCHANGED <<in, fpos, b, buf, abuf, rec, got>>

-----------------------------------------------------------------------------
(* The callers. *)

Call(name, n, phase) ==
    /\ op' = [Idle EXCEPT !.name = name, !.want = n]
    /\ cl' = [cl EXCEPT !.phase = phase]
    /\ UNCHANGED <<in, fpos, b, buf, abuf, rec, got>>

\* The caller is at a phase, and its last read was not short.
At(phase) == ~Running /\ cl.phase = phase /\ ~cl.short
InHeader == At("header") /\ Len(got) < cl.hdr

\* getversion and getstanza read the header, in one piece or by character.
HeaderRead ==
    InHeader /\ \E n \in {1, cl.hdr - Len(got)} : Call("bread", n, "header")

\* getarg and skiparg peek, then read "not possible to fail after bpeek()".
HeaderPeek == InHeader /\ got # <<>> /\ Call("bpeek", 0, "peeked")
ReadPeeked == At("peeked") /\ ~cl.eof /\ Call("bread", 1, "peekedread")
PeekedRead ==
    /\ ~Running /\ cl.phase = "peekedread"
    /\ cl' = [cl EXCEPT !.phase = "header"]
    /\ UNCHANGED <<in, fpos, b, buf, abuf, rec, op, got>>

\* A header, MAC line or nonce that ends early is refused, and old bytes may be
\* none that the parser takes.
HeaderEnds ==
    /\ ~Running
    /\ \/ cl.short /\ cl.phase \in {"header", "mac", "check", "nonce"}
       \/ At("peeked") /\ cl.eof
       \/ At("header") /\ Stale
    /\ Stop("badheader")
    /\ UNCHANGED <<in, fpos, b, buf, abuf, rec, op, got>>

\* Mutant of RecStop: the bytes still in the buffer are not recorded.
RecStopForgetsTail ==
    /\ At("header") /\ Len(got) = cl.hdr
    /\ b' = [b EXCEPT !.recording = FALSE]
    /\ cl' = [cl EXCEPT !.phase = "mac",
                        !.mac = IF b.alloc THEN <<"rec", 0>> ELSE <<"buf", b.cur>>]
    /\ UNCHANGED <<in, fpos, buf, abuf, rec, op, got>>

\* recstop(): the data to MAC is a pointer, to the buffer itself if nothing was
\* recorded yet; otherwise the consumed part of the buffer is recorded too.
\* A failure of that last recappend is not looked at.
RecStop ==
    /\ At("header") /\ Len(got) = cl.hdr
    /\ LET f == [b EXCEPT !.recording = FALSE]
       IN  \/ /\ b.recfail
              /\ Stop("nomemory")
              /\ b' = f
              /\ UNCHANGED rec
           \/ /\ ~b.recfail /\ ~b.alloc
              /\ cl' = [cl EXCEPT !.phase = "mac", !.mac = <<"buf", b.cur>>]
              /\ b' = f
              /\ UNCHANGED rec
           \/ /\ ~b.recfail /\ b.alloc
              /\ cl' = [cl EXCEPT !.phase = "mac", !.mac = <<"rec", 0>>]
              /\ RecAppend(b.cur, f)
    /\ UNCHANGED <<in, fpos, buf, abuf, op, got>>

\* validmac(): getmac() reads the MAC line, then the MAC of the data is compared.
GetMac == At("mac") /\ Call("bread", MacLen, "check")

\* What the pointer shows now.
MacData == IF cl.mac[1] = "buf" THEN SubSeq(buf, 1, cl.mac[2]) ELSE rec

\* Old bytes are no MAC.
CheckMac ==
    /\ At("check")
    /\ IF MacData = SubSeq(got, 1, cl.hdr) /\ ~Stale
       THEN cl' = [cl EXCEPT !.phase = "nonce"]
       ELSE Stop("badmac")
    /\ UNCHANGED <<in, fpos, b, buf, abuf, rec, op, got>>

GetNonce == At("nonce") /\ Call("bread", NonceLen, "nonceread")
NonceRead ==
    /\ ~Running /\ cl.phase = "nonceread"
    /\ IF cl.short THEN Stop("badheader")
       ELSE cl' = [cl EXCEPT !.phase = "chunk"]
    /\ UNCHANGED <<in, fpos, b, buf, abuf, rec, op, got>>

\* The chunk loops: bread a chunk, then ateof(), which peeks unless eof is set.
ReadChunk == At("chunk") /\ Call("bread", Chunk, "ateof")
AtEof ==
    /\ ~Running /\ cl.phase = "ateof" /\ ~b.eof
    /\ op' = [Idle EXCEPT !.name = "bpeek"]
    /\ cl' = [cl EXCEPT !.phase = "chunkend", !.short = FALSE]
    /\ UNCHANGED <<in, fpos, b, buf, abuf, rec, got>>
MoreChunks ==
    /\ At("chunkend") /\ ~cl.eof
    /\ cl' = [cl EXCEPT !.phase = "chunk"]
    /\ UNCHANGED <<in, fpos, b, buf, abuf, rec, op, got>>
LastChunk ==
    /\ ~Running
    /\ \/ cl.phase = "ateof" /\ b.eof
       \/ cl.phase = "chunkend" /\ cl.eof
    /\ Stop("ok")
    /\ UNCHANGED <<in, fpos, b, buf, abuf, rec, op, got>>

Stopped == cl.phase = "stop" /\ UNCHANGED ibufvars

BufferStep == \/ Probe \/ Recycle \/ Fill \/ FillEnd \/ AtEnd \/ Copy \/ Peek
              \/ AreadBegin \/ AreadEnd \/ AreadBlock \/ AreadCopy \/ ReadFails
CallerStep == \/ HeaderRead \/ HeaderPeek \/ ReadPeeked \/ PeekedRead \/ HeaderEnds
              \/ RecStop \/ GetMac \/ CheckMac \/ GetNonce \/ NonceRead \/ ReadChunk \/ AtEof
              \/ MoreChunks \/ LastChunk

IbufNext == BufferStep \/ CallerStep
IbufSpec == IbufInit /\ [][IbufNext \/ Stopped]_ibufvars

-----------------------------------------------------------------------------
(* Properties. *)

Outcomes == {"none", "ok", "badarmor", "badheader", "badmac", "nomemory",
             "ioerror", "overread"}

\* The arrays of struct Ibuf are never written past their ends, and read past
\* them only where bpeek() has stored aread's -2 for a size: before that no
\* cursor leaves what was filled, and even after it b->cur stays inside b->buf
\* until the one copy that does not (bread, bpeek, aread).
IbufTypeOK ==
    /\ fpos \in 0..Len(in.file)
    /\ b.cur \in 0..b.size /\ b.size \in 0..BufSize \cup {MinusTwo}
    /\ b.cur <= Len(buf) /\ (Stale \/ b.size <= Len(buf))
    /\ cl.outcome = "overread" => Stale
    /\ Len(buf) <= BufSize /\ Len(abuf) <= BlockLen /\ b.acur \in 0..Len(abuf)
    /\ op.fill \in 0..BufSize /\ Len(op.dest) <= op.want
    /\ cl.outcome \in Outcomes
    /\ (cl.phase = "stop") = (cl.outcome # "none")

\* Encryption of data that begins with the BEGIN line: see EncryptsWhatItIsGiven.
LooksArmored == in.mode = "encrypt" /\ in.kind # "plain"

\* bread hands out the content in order, without loss, repetition or bytes of
\* the armor itself, whatever the short reads and whichever caller peeks, until a
\* refusal of the armor that bpeek() has dropped.
InOrder == ~LooksArmored /\ ~Stale => IsPrefix(got, Content)

\* A caller that concludes from ateof() that it has read everything has: a
\* short probe, a short read or an unread rest in the buffer is never taken for
\* the end, and armored text without its END line, or with text after it,
\* never ends well (aread, ateof).
EndIsEnd ==
    cl.outcome = "ok" /\ ~LooksArmored => got = Content /\ in.kind # "damaged"

\* While the header is recorded, the record and the consumed part of the
\* buffer are together exactly what was read (recappend at each refill).
RecordIsWhatWasRead ==
    b.recording /\ ~b.recfail /\ cl.phase # "stop" =>
        rec \o SubSeq(buf, 1, b.cur) = got \o op.dest

\* The read after a successful bpeek() neither fails nor comes back empty, as
\* parse.c relies on where it ignores the result of readc(); where the peek was
\* a dropped refusal it may leave the buffer instead.
PeekedByteIsThere ==
    [][cl.phase = "peekedread" =>
          cl'.outcome \in {"none", "overread"} /\ ~cl'.short]_ibufvars

\* An intact header is refused for its MAC only when memory ran out during the
\* recording, or the text is armored and its header lay whole in the first fill,
\* of which recstop() then keeps no copy (see IntactHeaderAccepted), or the text
\* was refused and the parser went on with old bytes.
MacCoversHeader ==
    cl.outcome = "badmac" =>
        b.recfail \/ (b.isarmor = "yes" /\ ~b.alloc) \/ Stale

\* Armored text is refused only when it is damaged, or its END line straddles
\* two blocks (see IntactArmorAccepted); only then does bpeek() drop a refusal,
\* are old bytes handed out, and is the buffer read past its end.
ArmorRefusedForCause ==
    cl.outcome \in {"badarmor", "overread"} \/ Stale =>
        in.kind = "damaged" \/ Straddles(in.n) \/ LooksArmored

(* What comments and tests say of this code, and the code does not do. *)

\* Armored text with its END line is accepted, also when that line does not
\* "fully reside in the buf" (endcheck).
IntactArmorAccepted ==
    in.mode = "decrypt" /\ in.kind = "armored" => cl.outcome # "badarmor"

\* The MAC of an intact header is computed over that header (validmac).
IntactHeaderAccepted == cl.outcome = "badmac" => b.recfail \/ Stale

\* Encryption encrypts the bytes it is given.
EncryptsWhatItIsGiven == in.mode = "encrypt" => IsPrefix(got, in.file)
=============================================================================
