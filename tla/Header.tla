------------------------------- MODULE Header -------------------------------
(***************************************************************************)
(* The header of an age file: makehdr and encipher of agecore.c with the   *)
(* stanza writers of x25519.c and scrypt.c, and its reading: getstanza and *)
(* the functions under it in parse.c, match, findx25519, validatemac,      *)
(* age_decipher and age_decipher_passphrase in agecore.c.                  *)
(*                                                                         *)
(* The unit of text is the line, classified by what the parser tells apart *)
(* in it; the character loops of parse.c are one step per line.  Key wraps *)
(* and the MAC are ideal; what the MAC is computed over is what Ibuf has   *)
(* left of the header (see Ibuf's RecStop).  A header is written by this   *)
(* package and may then be changed on the way, or it comes from another    *)
(* program, which may write any lines at all (they are chosen as they are  *)
(* read).                                                                  *)
(***************************************************************************)
EXTENDS Naturals, Sequences, SequencesExt, FiniteSets

CONSTANTS
    Keys,       \* X25519 key pairs: recipients and identities
    MinCost,    \* SCRYPT_MINCOST, SCRYPT_MAXCOST: bounds of encryption (2, 22)
    MaxCost,
    MaxCostIn,  \* SCRYPTMAXCOST: bound of decryption (22)
    Costs,      \* work factors another program writes
    MaxIds,     \* bound: identities of the caller
    MaxLines,   \* bound: lines of another program's header
    MaxEdits    \* bound: changes made on the way

ASSUME CostAssumption ==
    /\ {MinCost, MaxCost, MaxCostIn} \subseteq Nat /\ Costs \subseteq Nat
    /\ MaxCost <= MaxCostIn /\ {MaxIds, MaxLines, MaxEdits} \subseteq Nat

\* The package's file key, and one of another file.
FileKeys == {"this", "another"}

Zero == "zero"                          \* a share of low order
Pass == "passphrase"                    \* the right one

\* The share made for a key pair is not of low order (x25519stanza checks it).
ASSUME KeyAssumption == Zero \notin Keys

\* A line is <<kind, data>>.  Opening lines: "X25519" (a share made for the
\* recipient, or the zero share), "scrypt" (salt and cost), "other" (another
\* type with valid arguments), "malformed".  Body lines: "wrap" (32 bytes: a
\* file key wrapped to someone), "short" (less than 64 characters), "full" (64),
\* "junk".  "end" is the line that begins with ---.
Line(kind, data) == <<kind, data>>
End == Line("end", 0)
ShareOf(k) == Line("X25519", k)
Wrap(who, fk) == Line("wrap", <<who, fk>>)

Lines ==
    {ShareOf(k) : k \in Keys \cup {Zero}}
    \cup {Line("scrypt", c) : c \in Costs \cup (MinCost..MaxCost)}
    \cup {Line(kind, 0) : kind \in {"other", "malformed", "short", "full", "junk"}}
    \cup {Wrap(w, fk) : w \in Keys \cup {Pass}, fk \in FileKeys}
    \cup {End}

VARIABLES
    by,       \* who writes: "package" or "other"
    hdr,      \* the lines of the file
    sent,     \* the lines as the package wrote them, which its MAC covers
    edits,    \* changes made on the way
    mode,     \* age_decipher ("keys") or age_decipher_passphrase ("pass")
    ids,      \* the caller's identities in order; whether its passphrase is right
    pos,      \* lines read
    st,       \* match's locals: n, seenscrypt, found, the stanza s, the file key
    data,     \* what recstop() returned for the MAC, and what has become of it
    ph        \* where the call is, or its outcome

vars == <<by, hdr, sent, edits, mode, ids, pos, st, data, ph>>

NoStanza == [type |-> "none", arg |-> 0, body |-> <<0, 0>>]
Start == [n |-> 0, seenscrypt |-> FALSE, found |-> FALSE, s |-> NoStanza, fk |-> "none"]

Refusals == {"badversion", "badheader", "headerends", "zeroshare", "notalone",
             "needspassphrase", "noscrypt", "nomatch", "costtoolarge",
             "wrongpassphrase", "badmac"}
Outcomes == Refusals \cup {"payload", "notwritten", "ioerror", "nomemory"}

\* The bytes that recstop() points at: a copy of the header, the header in the
\* input buffer itself, a copy that lacks its end because its last allocation
\* failed, or a buffer that was refilled since.
Data == {"none", "copy", "buffer", "short", "refilled"}
Spoilt == {"short", "refilled"}

Init ==
    /\ by \in {"package", "other"}
    /\ mode \in {"keys", "pass"}
    /\ ids \in {s \in UNION {[1..k -> Keys] : k \in 0..MaxIds} : IsInjective(s)}
    /\ hdr = <<>> /\ sent = <<>> /\ edits = 0 /\ pos = 0 /\ st = Start
    /\ data = "none"
    /\ ph = IF by = "package" THEN "makehdr" ELSE "getstanza"

\* The passphrase of a caller of age_decipher_passphrase: right if ids is empty.
RightPass == ids = <<>>

-----------------------------------------------------------------------------
(* Writing: hdrappend() appends lines and MACs them. *)

Stanzas == Len(hdr) \div 2

\* pubenc(): one X25519 stanza for each recipient.
X25519Stanza ==
    /\ ph = "makehdr" /\ Stanzas < Cardinality(Keys)
    /\ \A i \in 1..Len(hdr) : hdr[i][1] # "scrypt"
    /\ \E k \in Keys : hdr' = hdr \o <<ShareOf(k), Wrap(k, "this")>>
    /\ UNCHANGED <<by, sent, edits, mode, ids, pos, st, data, ph>>

\* Or the one scrypt stanza, with a cost that check_cost() has let through.
ScryptStanza ==
    /\ ph = "makehdr" /\ hdr = <<>>
    /\ \E c \in MinCost..MaxCost :
          hdr' = <<Line("scrypt", c), Wrap(Pass, "this")>>
    /\ UNCHANGED <<by, sent, edits, mode, ids, pos, st, data, ph>>

\* The --- line and the MAC of all of it.
HdrFinish ==
    /\ ph = "makehdr" /\ hdr # <<>>
    /\ hdr' = Append(hdr, End) /\ sent' = hdr'
    /\ ph' = "transport"
    /\ UNCHANGED <<by, edits, mode, ids, pos, st, data>>

\* No randomness, no memory for scrypt(), a low order recipient or a failed write.
MakeHdrFails ==
    /\ ph = "makehdr"
    /\ ph' = "notwritten"
    /\ UNCHANGED <<by, hdr, sent, edits, mode, ids, pos, st, data>>

\* A line is lost, repeated or replaced, or two are swapped.
Damage ==
    /\ ph = "transport" /\ edits < MaxEdits
    /\ \E i \in 1..Len(hdr) :
          \/ hdr' = RemoveAt(hdr, i)
          \/ \E l \in Lines : hdr' = InsertAt(hdr, i, l)
          \/ \E l \in Lines : hdr' = ReplaceAt(hdr, i, l)
          \/ i < Len(hdr) /\ hdr' = [hdr EXCEPT ![i] = hdr[i + 1], ![i + 1] = hdr[i]]
    /\ edits' = edits + 1
    /\ UNCHANGED <<by, sent, mode, ids, pos, st, data, ph>>

\* getversion(): the version line is there and right, or it has been changed.
GetVersion ==
    /\ ph = "transport"
    /\ \/ ph' = "getstanza" /\ UNCHANGED edits
       \/ ph' = "badversion" /\ edits < MaxEdits /\ edits' = edits + 1
    /\ UNCHANGED <<by, hdr, sent, mode, ids, pos, st, data>>

-----------------------------------------------------------------------------
(* Reading. *)

\* Read one line: the next one of the file, or any that another program wrote.
Reads(l) ==
    /\ pos' = pos + 1
    /\ \/ pos < Len(hdr) /\ l = hdr[pos + 1] /\ UNCHANGED hdr
       \/ /\ by = "other" /\ pos = Len(hdr) /\ pos < MaxLines
          /\ hdr' = Append(hdr, l)
    /\ UNCHANGED <<by, sent, edits, mode, ids, data>>

\* getstanza() as far as the opening line: the --- ends the header; a known
\* type needs its own arguments; s is not touched at the end.
GetStanza ==
    /\ ph = "getstanza"
    /\ \E l \in Lines :
          /\ Reads(l)
          /\ LET known == l[1] \in {"X25519", "scrypt"}
             IN  st' = IF known \/ l[1] = "other"
                       THEN [st EXCEPT !.s.type = l[1], !.s.arg = l[2]]
                       ELSE st
          /\ ph' = CASE l[1] = "end" -> "matched"
                     [] l[1] \in {"X25519", "scrypt"} -> "getbody"
                     [] l[1] = "other" -> "skipargbody"
                     [] OTHER -> "badheader"

\* Mutant of SkipArgBody: a full line may be the last of a body.
SkipArgBodyOneLine ==
    /\ ph = "skipargbody"
    /\ \E l \in Lines :
          /\ Reads(l)
          /\ ph' = IF l[1] \in {"short", "wrap", "full"} THEN "getstanza" ELSE "badheader"
          /\ st' = IF ph' = "getstanza" THEN [st EXCEPT !.n = @ + 1] ELSE st

\* skipstanza(): full lines up to the first shorter one.
SkipArgBody ==
    /\ ph = "skipargbody"
    /\ \E l \in Lines :
          /\ Reads(l)
          /\ ph' = CASE l[1] = "full" -> "skipargbody"
                     [] l[1] \in {"short", "wrap"} -> "getstanza"
                     [] OTHER -> "badheader"
          /\ st' = IF ph' = "getstanza" THEN [st EXCEPT !.n = @ + 1] ELSE st

\* x25519getkey(): the body opens for the identity the share was made for.
Matches(s) == s.body[1] = s.arg /\ \E i \in 1..Len(ids) : ids[i] = s.arg

\* Mutant of FindX25519: a stanza after the match is tried as well.
FindX25519Last(s) ==
    [found |-> st.found \/ Matches(s),
     fk |-> IF Matches(s) THEN s.body[2] ELSE st.fk]
\* findx25519() for this stanza, unless a stanza has matched before.
FindX25519(s) ==
    [found |-> st.found \/ Matches(s),
     fk |-> IF ~st.found /\ Matches(s) THEN s.body[2] ELSE st.fk]

\* A share of low order is an error for any identity that tries it.
ZeroShare(s) == ~st.found /\ s.arg = Zero /\ mode = "keys" /\ ids # <<>>

\* getx25519(), getscrypt(): the body is one line of 32 bytes; then the part of
\* match() that looks at the stanza.  match() gets no identities in mode pass.
GetBody ==
    /\ ph = "getbody"
    /\ \E l \in Lines :
          /\ Reads(l)
          /\ LET s == [st.s EXCEPT !.body = l[2]]
                 f == IF s.type = "X25519" /\ mode = "keys" THEN FindX25519(s)
                      ELSE [found |-> st.found \/ s.type = "scrypt", fk |-> st.fk]
             IN  \/ /\ l[1] # "wrap"
                    /\ ph' = "badheader"
                    /\ UNCHANGED st
                 \/ /\ l[1] = "wrap" /\ s.type = "X25519" /\ ZeroShare(s)
                    /\ ph' = "zeroshare"
                    /\ UNCHANGED st
                 \/ /\ l[1] = "wrap" /\ ~(s.type = "X25519" /\ ZeroShare(s))
                    /\ ph' = "getstanza"
                    /\ st' = [n |-> st.n + 1, s |-> s, found |-> f.found, fk |-> f.fk,
                              seenscrypt |-> st.seenscrypt \/ s.type = "scrypt"]

\* The input ends inside the header.
HeaderEnds ==
    /\ ph \in {"getstanza", "skipargbody", "getbody"}
    /\ pos = Len(hdr)
    /\ ph' = "headerends"
    /\ UNCHANGED <<by, hdr, sent, edits, mode, ids, pos, st, data>>

\* A read fails, or an allocation of the record (seen by recstop).
ReadFails ==
    /\ ph \in {"getstanza", "skipargbody", "getbody", "validatemac"}
    /\ ph' = "ioerror"
    /\ UNCHANGED <<by, hdr, sent, edits, mode, ids, pos, st, data>>

\* Mutant of NotAlone: other stanzas are let through.
NotAloneIgnored == FALSE
\* The check at the end of match().
NotAlone == st.n > 1 /\ st.seenscrypt

\* Mutant of CostTooLarge: the greatest cost that encryption allows is refused.
CostTooLargeAtMax == st.s.arg >= MaxCostIn
\* Mutant of CostTooLarge: the first cost above the bound is let through.
CostTooLargePast == st.s.arg > MaxCostIn + 1
CostTooLarge == st.s.arg > MaxCostIn

\* age_decipher() after match().
Decipher ==
    /\ ph = "matched" /\ mode = "keys"
    /\ ph' = CASE NotAlone -> "notalone"
               [] ~NotAlone /\ st.found /\ st.s.type = "scrypt" -> "needspassphrase"
               [] ~NotAlone /\ ~st.found -> "nomatch"
               [] OTHER -> "validatemac"
    /\ UNCHANGED <<by, hdr, sent, edits, mode, ids, pos, st, data>>

\* age_decipher_passphrase() after match(): scryptgetkey() needs memory for
\* scrypt(), and opens the body with the right passphrase only.
DecipherPassphrase ==
    /\ ph = "matched" /\ mode = "pass"
    /\ LET scrypt == st.found /\ st.s.type = "scrypt"
           opens == RightPass /\ st.s.body[1] = Pass
       IN  /\ ph' \in CASE NotAlone -> {"notalone"}
                         [] ~NotAlone /\ ~scrypt -> {"noscrypt"}
                         [] ~NotAlone /\ scrypt /\ CostTooLarge -> {"costtoolarge"}
                         [] OTHER -> {"nomemory", IF opens THEN "validatemac" ELSE "wrongpassphrase"}
           /\ st' = IF ph' = "validatemac" THEN [st EXCEPT !.fk = st.s.body[2]] ELSE st
    /\ UNCHANGED <<by, hdr, sent, edits, mode, ids, pos, data>>

\* recstop(), which validmac() calls: the header was copied if the input buffer
\* was ever refilled while it was read; the failure of the last allocation of
\* that copy is not looked at.
RecStop ==
    /\ ph = "validatemac" /\ data = "none"
    /\ data' \in {"copy", "buffer", "short"}
    /\ UNCHANGED <<by, hdr, sent, edits, mode, ids, pos, st, ph>>

\* The MAC line of the package's file covers what it wrote, under its key.
MacIsValid == st.fk = "this" /\ data' \notin Spoilt /\ SubSeq(hdr, 1, pos) = sent

\* validatemac(): getmac() reads the MAC line, which may refill the buffer, and
\* may have been changed too; then the MAC of the data, under the file key,
\* against it.  Another program may have written either MAC.
ValidateMac ==
    /\ ph = "validatemac" /\ data # "none"
    /\ data' \in IF data = "buffer" THEN {"buffer", "refilled"} ELSE {data}
    /\ \/ by = "package" /\ ph' = (IF MacIsValid THEN "payload" ELSE "badmac") /\ UNCHANGED edits
       \/ by = "package" /\ edits < MaxEdits /\ edits' = edits + 1 /\ ph' = "badmac"
       \/ by = "other" /\ ph' \in {"payload", "badmac"} /\ UNCHANGED edits
    /\ UNCHANGED <<by, hdr, sent, mode, ids, pos, st>>

Stopped == ph \in Outcomes /\ UNCHANGED vars

Next == \/ X25519Stanza \/ ScryptStanza \/ HdrFinish \/ MakeHdrFails
        \/ Damage \/ GetVersion
        \/ GetStanza \/ SkipArgBody \/ GetBody \/ HeaderEnds \/ ReadFails
        \/ Decipher \/ DecipherPassphrase \/ RecStop \/ ValidateMac \/ Stopped

Spec == Init /\ [][Next]_vars

-----------------------------------------------------------------------------
(* Properties. *)

\* The format, as the pairs of lines that may follow one another.
Openings == {"X25519", "scrypt", "other", "end"}
Follows(kind) == CASE kind \in {"X25519", "scrypt"} -> {"wrap"}
                   [] kind \in {"other", "full"} -> {"full", "short", "wrap"}
                   [] kind \in {"short", "wrap"} -> Openings
                   [] OTHER -> {}
WellFormed(h) ==
    /\ h # <<>> => h[1][1] \in Openings
    /\ \A i \in 1..(Len(h) - 1) : h[i + 1][1] \in Follows(h[i][1])
ReadLines == SubSeq(hdr, 1, pos)

\* What may follow once match() has seen the whole header.
Decided == {"matched", "notalone", "needspassphrase", "noscrypt", "nomatch",
            "costtoolarge", "nomemory", "wrongpassphrase", "validatemac", "badmac", "payload"}

\* The parser reads exactly the format: it goes on only while what it has read
\* is the beginning of a well-formed header, it refuses only what is not, it
\* finds the end only at the --- after a whole stanza, and it never takes a line
\* of a body for a stanza (getstanza, skipstanza).
ParsesTheFormat ==
    /\ ph \notin Outcomes => WellFormed(ReadLines)
    /\ ph \in Decided => WellFormed(ReadLines) /\ Last(ReadLines) = End
    /\ ph = "badheader" => ~WellFormed(ReadLines)

\* The stanzas of what was read, by their first lines.
StanzasFor(k) == {i \in 1..(pos - 1) : hdr[i] = ShareOf(k) /\ hdr[i + 1][1] = "wrap"}
Ours == {i \in UNION {StanzasFor(k) : k \in Range(ids)} : hdr[i + 1][2][1] = hdr[i][2]}

\* The file key comes from the first stanza that any identity opens, whatever
\* stanzas, also of unknown types, lie before and after it; and there is a
\* match only if there is such a stanza (match, findx25519).
FirstMatchWins ==
    mode = "keys" /\ ph \in {"validatemac", "payload", "badmac", "nomatch"} =>
        /\ (ph = "nomatch") <=> (Ours = {})
        /\ \A i \in Ours : (\A j \in Ours : i <= j) => st.fk = hdr[i + 1][2][2]

\* Nothing is decrypted with a passphrase if the header has any other stanza,
\* and nothing with a key if it has a scrypt stanza.
ScryptAlone ==
    ph = "payload" =>
        \/ mode = "pass" /\ Len(ReadLines) = 3 /\ hdr[1][1] = "scrypt"
        \/ mode = "keys" /\ \A i \in 1..pos : hdr[i][1] # "scrypt"

\* scrypt() is run, with the time and memory its cost asks for, only once the
\* whole header is read and is one scrypt stanza, and for no cost above
\* SCRYPTMAXCOST, so that 1 << cost does not overflow either: what match() has left
\* in s is that stanza, whatever the writer of the header put into it
\* (age_decipher_passphrase, match).
ScryptWork ==
    mode = "pass" /\ ph \in {"nomemory", "wrongpassphrase", "validatemac", "badmac", "payload"} =>
        /\ pos = 3 /\ hdr[1][1] = "scrypt" /\ hdr[2][1] = "wrap" /\ hdr[3] = End
        /\ hdr[1][2] <= MaxCostIn

\* A header the package wrote is refused by none of its recipients, nor with its
\* passphrase at any cost encryption allows, but for its MAC where recstop() has
\* no whole copy of it: memory ran out during the last allocation, or the MAC
\* line refilled the buffer (see Ibuf's IntactHeaderAccepted).
RecipientsDecrypt ==
    by = "package" /\ edits = 0 /\ ph \in Refusals =>
        \/ ph = "badmac" /\ data \in Spoilt
        \/ /\ \A k \in Range(ids) : ShareOf(k) \in Range(sent) => mode = "pass"
           /\ mode = "pass" /\ RightPass => sent[1][1] # "scrypt"
=============================================================================
