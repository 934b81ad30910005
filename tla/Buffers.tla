------------------------------ MODULE Buffers --------------------------------
(***************************************************************************)
(* Buffers of fixed and of growing size: the message buffer of util.c and  *)
(* the memory sinks of memio.c.  A buffer is the sequence of its bytes.    *)
(***************************************************************************)
EXTENDS Integers, Sequences, SequencesExt

CONSTANTS
    EbufSize,    \* bytes of the message buffer (EBUFSIZE, 512)
    SizeBits,    \* bits of a size_t
    FirstCap,    \* first capacity of a sink (4096)
    Nul, Colon, Space    \* three characters

\* 2^n
TwoTo[n \in Nat] == IF n = 0 THEN 1 ELSE 2 * TwoTo[n - 1]
SizeVals == TwoTo[SizeBits]

ASSUME BuffersAssumption ==
    /\ EbufSize \in Nat /\ EbufSize > 3 /\ SizeBits \in Nat
    /\ FirstCap \in 1 .. SizeVals - 1
    /\ {Nul, Colon, Space} \subseteq Nat /\ Nul \notin {Colon, Space}

\* memcpy(buf + at, m, Len(m)).
Put(buf, at, m) ==
    SubSeq(buf, 1, at) \o m \o SubSeq(buf, at + Len(m) + 1, Len(buf))

\* The string that begins at buf.
CString(buf) ==
    SubSeq(buf, 1, (CHOOSE i \in DOMAIN buf :
                      buf[i] = Nul /\ \A j \in 1..(i - 1) : buf[j] # Nul) - 1)

----------------------------------------------------------------------------
\* strncpy() fills with NULs.
eset(ebuf, err) ==
    LET n == IF Len(err) < EbufSize THEN Len(err) ELSE EbufSize - 1
    IN SubSeq(err, 1, n) \o [i \in 1..(EbufSize - n) |-> Nul]

\* How much of outer and of inner ewrap takes.
Fitted(olen, ilen) ==
    IF olen + 2 + ilen + 1 <= EbufSize THEN <<olen, ilen>>
    ELSE IF olen + 2 + 1 > EbufSize THEN <<EbufSize - 2 - 1, 0>>
    ELSE <<olen, EbufSize - olen - 2 - 1>>
Ended(ebuf, olen, ilen) ==
    Put(Put(ebuf, olen, <<Colon, Space>>), olen + 2 + ilen, <<Nul>>)

\* inner is a message of its own, or <<>> for what ebuf holds.
Inner(ebuf, inner) == IF inner = <<>> THEN CString(ebuf) ELSE inner[1]
\* The first n bytes inner points to when the buffer is b.
From(b, inner, n) == SubSeq(IF inner = <<>> THEN b ELSE inner[1], 1, n)

\* Mutant of ewrap: outer is copied before inner is moved out of its way.
ewrap_copy_first(ebuf, outer, inner) ==
    LET fit == Fitted(Len(outer), Len(Inner(ebuf, inner)))
        copied == Put(ebuf, 0, SubSeq(outer, 1, fit[1]))
        moved == Put(copied, fit[1] + 2, From(copied, inner, fit[2]))
    IN Ended(moved, fit[1], fit[2])
ewrap(ebuf, outer, inner) ==
    LET fit == Fitted(Len(outer), Len(Inner(ebuf, inner)))
        moved == Put(ebuf, fit[1] + 2, From(ebuf, inner, fit[2]))
        copied == Put(moved, 0, SubSeq(outer, 1, fit[1]))
    IN Ended(copied, fit[1], fit[2])

----------------------------------------------------------------------------
\* The capacity that holds need, or 0: twice it would not be a size_t.
Doubled(cap, need) ==
    LET grown[c \in Nat] == IF c >= need THEN c
                            ELSE IF c > (SizeVals - 1) \div 2 THEN 0
                            ELSE grown[2 * c]
    IN grown[IF cap = 0 THEN FirstCap ELSE cap]

\* A sink: its bytes, the capacity it notes, the room realloc() has given it
\* (memclose() wipes cap bytes of that), and whether the last write succeeded.
NewSink == [data |-> <<>>, cap |-> 0, room |-> 0, ok |-> TRUE]

\* need, as a size_t, and the capacity for it.
Need(sink, buf) == (Len(sink.data) + Len(buf)) % SizeVals
NewCap(sink, need) == IF need > sink.cap THEN Doubled(sink.cap, need) ELSE sink.cap
TooLong(sink, need) == need < Len(sink.data) \/ (need > sink.cap /\ NewCap(sink, need) = 0)

\* Mutant of memwrite: the capacity is noted before realloc() has been asked.
memwrite_cap_first(sink, buf, gives) ==
    LET need == Need(sink, buf)
        cap == NewCap(sink, need)
    IN IF TooLong(sink, need) THEN [sink EXCEPT !.ok = FALSE]
       ELSE IF need > sink.cap /\ cap > gives THEN [sink EXCEPT !.cap = cap, !.ok = FALSE]
       ELSE [data |-> sink.data \o buf, cap |-> cap, room |-> cap, ok |-> TRUE]
\* realloc() gives up to so many bytes at this write.
memwrite(sink, buf, gives) ==
    LET need == Need(sink, buf)
        cap == NewCap(sink, need)
    IN IF TooLong(sink, need) \/ (need > sink.cap /\ cap > gives)
       THEN [sink EXCEPT !.ok = FALSE]
       ELSE [data |-> sink.data \o buf, cap |-> cap, ok |-> TRUE,
             room |-> IF need > sink.cap THEN cap ELSE sink.room]

----------------------------------------------------------------------------
(***************************************************************************)
(* The references.  A message is cut at the end, and one whose outer part  *)
(* alone is too long keeps the separator.                                  *)
(***************************************************************************)
Wrapped(outer, inner) ==
    IF Len(outer) + 3 > EbufSize
    THEN SubSeq(outer, 1, EbufSize - 3) \o <<Colon, Space>>
    ELSE LET all == outer \o <<Colon, Space>> \o inner
         IN IF Len(all) < EbufSize THEN all ELSE SubSeq(all, 1, EbufSize - 1)

\* n bytes fit in a capacity that realloc() can give: half of the address space
\* in one allocation is out of reach.
Holds(n, gives) == \E k \in 0..SizeBits : /\ FirstCap * TwoTo[k] >= n
                                          /\ FirstCap * TwoTo[k] < SizeVals
                                          /\ FirstCap * TwoTo[k] <= gives
=============================================================================
