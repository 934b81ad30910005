-------------------------------- MODULE Armor --------------------------------
(***************************************************************************)
(* Both ends of a file: what Obuf writes, wholly or until it is abandoned, *)
(* is what Ibuf reads.  The two are in different calls, mostly in          *)
(* different processes, and share nothing but the text at the descriptor.  *)
(* Inputs that do not come from Obuf (plaintexts, text that was cut or     *)
(* continued) are those of IbufInit.                                       *)
(***************************************************************************)
EXTENDS Ibuf, Obuf

vars == <<in, fpos, b, buf, abuf, rec, op, got, cl,
          isarmor, obuf, left, pend, fd, wr>>

\* The writer has not run, or its process has ended.
WriterGone == obuf = <<>> /\ left = <<>> /\ pend = <<>>
NoWriter == /\ WriterGone /\ isarmor = FALSE /\ fd = <<>>
            /\ wr = [phase |-> "gone", given |-> 0, calls |-> 0, outcome |-> "none"]

NoReader ==
    /\ in = [kind |-> "plain", n |-> 0, mode |-> "decrypt", file |-> <<>>]
    /\ fpos = 0 /\ b = Fresh("decrypt") /\ op = Idle
    /\ buf = <<>> /\ abuf = <<>> /\ rec = <<>> /\ got = <<>>
    /\ \E h \in HeaderLens :
          cl = [Caller("decrypt", h) EXCEPT !.phase = "waiting"]

Init == \/ ObufInit /\ NoReader
        \/ NoWriter /\ IbufInit

\* The text is opened for decryption, as it is or with something after it.
\* Armor that is cut inside its BEGIN line is a plain file.
OpenText ==
    /\ wr.phase = "stop" /\ cl.phase = "waiting"
    /\ \E more \in IF isarmor THEN BOOLEAN ELSE {FALSE} :
          in' = [kind |-> IF ~isarmor \/ Len(fd) < ProbeLen THEN "plain"
                          ELSE IF fd = Armored(wr.given) /\ ~more THEN "armored"
                          ELSE "damaged",
                 n |-> wr.given, mode |-> "decrypt",
                 file |-> IF more THEN Append(fd, NL) ELSE fd]
    /\ cl' = [cl EXCEPT !.phase = "header"]
    /\ wr' = [wr EXCEPT !.phase = "gone", !.calls = 0]
    /\ obuf' = <<>> /\ left' = <<>> /\ pend' = <<>>
    /\ UNCHANGED <<fpos, b, buf, abuf, rec, op, got, isarmor, fd>>

Done == cl.phase = "stop" /\ UNCHANGED vars

Next == \/ ObufNext /\ UNCHANGED ibufvars
        \/ OpenText
        \/ IbufNext /\ UNCHANGED obufvars
        \/ Done

Spec == Init /\ [][Next]_vars
\* Each call runs on one thread and its read() and write() calls return.
FairSpec == Spec /\ WF_vars(Next)

-----------------------------------------------------------------------------
(* Properties: those of Ibuf and Obuf, and of the two together. *)

\* Neither buffer is written past its ends; of the two only the reader's is read
\* past them, by a copy after a refusal that bpeek() dropped (struct Ibuf, struct
\* Obuf).
TypeOK == IbufTypeOK /\ ObufTypeOK

Written == wr.phase = "gone" /\ wr.outcome # "none"

\* Reading back what was written.  After a call that reported success every byte
\* it was given comes back, in one piece and nothing else; it is refused only
\* for a reader's failure (memory, I/O, the stale record of MacCoversHeader), a
\* file too short for its header, more text after it, or an END line on the edge
\* of two read blocks; in the last two cases a header may also be refused for
\* the old bytes that a dropped refusal left in the buffer.  After a call that
\* failed, armor is never read to a good end, wherever the write stopped
\* (writebody, bflush; aread, endcheck).
ReadsBack ==
    Written =>
        /\ cl.outcome = "ok" =>
              /\ isarmor => wr.outcome = "ok"
              /\ wr.outcome = "ok" => got = Bytes(wr.given)
        /\ wr.outcome = "ok" =>
              /\ cl.outcome \in {"badarmor", "overread"} \/ Stale =>
                    Straddles(wr.given) \/ in.kind = "damaged"
              /\ cl.outcome = "badheader" =>
                    wr.given < cl.hdr + MacLen + NonceLen \/ Stale

\* Both calls come to an end, at a result or at an error.
Ends == <>(cl.phase = "stop")
=============================================================================
