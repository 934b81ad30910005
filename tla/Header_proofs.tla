---------------------------- MODULE Header_proofs ----------------------------
(***************************************************************************)
(* TLAPS proofs about Header, for any keys, costs, length of a foreign     *)
(* header and number of changes on the way.                                *)
(***************************************************************************)
EXTENDS Header, SequenceTheorems, TLAPS

-----------------------------------------------------------------------------
(* Types. *)

LineKinds == {"X25519", "scrypt", "other", "malformed", "wrap", "short", "full", "junk", "end"}
Args == {l[2] : l \in Lines} \cup {0}
Bodies == (Keys \cup {Pass, 0}) \X (FileKeys \cup {0})
Stanza == [type : {"none", "X25519", "scrypt", "other"}, arg : Args, body : Bodies]
Locals == [n : Nat, seenscrypt : BOOLEAN, found : BOOLEAN, s : Stanza, fk : FileKeys \cup {"none", 0}]

Writing == {"makehdr", "transport"}
Reading == {"getstanza", "skipargbody", "getbody"}
Phases == Writing \cup Reading \cup {"matched", "validatemac"} \cup Outcomes

Types ==
    /\ by \in {"package", "other"} /\ mode \in {"keys", "pass"}
    /\ hdr \in Seq(Lines) /\ pos \in 0..Len(hdr) /\ edits \in Nat
    /\ ids \in Seq(Keys) /\ st \in Locals /\ data \in Data /\ ph \in Phases

LEMMA LineIs ==
    ASSUME NEW l \in Lines
    PROVE  /\ l[1] \in LineKinds /\ l[2] \in Args
           /\ l[1] = "wrap" => l[2] \in Bodies /\ l[2][2] \in FileKeys /\ l = Wrap(l[2][1], l[2][2])
           /\ l[1] = "end" <=> l = End
           /\ l[1] = "X25519" => l = ShareOf(l[2])
           /\ l = Line(l[1], l[2])
<1>1. l[2] \in Args
  BY DEF Args
<1>2. CASE l \in {ShareOf(k) : k \in Keys \cup {Zero}}
  BY <1>1, <1>2 DEF ShareOf, Line, LineKinds, End
<1>3. CASE l \in {Line("scrypt", c) : c \in Costs \cup (MinCost..MaxCost)}
  BY <1>1, <1>3 DEF Line, LineKinds, End
<1>4. CASE l \in {Line(kind, 0) : kind \in {"other", "malformed", "short", "full", "junk"}}
  BY <1>1, <1>4 DEF Line, LineKinds, End
<1>5. CASE l \in {Wrap(w, fk) : w \in Keys \cup {Pass}, fk \in FileKeys}
  <2>1. PICK w \in Keys \cup {Pass}, fk \in FileKeys : l = Wrap(w, fk)
    BY <1>5
  <2>2. l[1] = "wrap" /\ l[2] = <<w, fk>> /\ l[2][1] = w /\ l[2][2] = fk
    BY <2>1 DEF Wrap, Line
  <2>3. l[2] \in Bodies
    BY <2>2 DEF Bodies
  <2>4. l = Line(l[1], l[2])
    BY <2>1, <2>2 DEF Wrap
  <2> QED
    BY <1>1, <2>1, <2>2, <2>3, <2>4 DEF LineKinds, End, Line
<1>6. CASE l = End
  BY <1>1, <1>6 DEF End, Line, LineKinds
<1> QED
  BY <1>2, <1>3, <1>4, <1>5, <1>6 DEF Lines

LEMMA CostIs == ASSUME NEW l \in Lines, l[1] = "scrypt" PROVE l[2] \in Nat
  BY CostAssumption DEF Lines, ShareOf, Wrap, End, Line

-----------------------------------------------------------------------------
(* What has been read, by its lines. *)

\* The first j lines are the beginning of a well-formed header.
WellUpto(j) ==
    /\ j >= 1 => hdr[1][1] \in Openings
    /\ \A i \in 1..(j - 1) : hdr[i + 1][1] \in Follows(hdr[i][1])

LEMMA ReadLinesIs ==
    ASSUME Types
    PROVE  /\ ReadLines \in Seq(Lines) /\ Len(ReadLines) = pos /\ pos \in Nat
           /\ \A i \in 1..pos : ReadLines[i] = hdr[i]
<1>1. hdr \in Seq(Lines) /\ pos \in 0..Len(hdr) /\ Len(hdr) \in Nat
  BY LenProperties DEF Types
<1> QED
  BY <1>1, SubSeqProperties DEF ReadLines

LEMMA WellIs == ASSUME Types PROVE WellFormed(ReadLines) <=> WellUpto(pos)
<1> DEFINE h == ReadLines
<1>1. h \in Seq(Lines) /\ Len(h) = pos /\ pos \in Nat /\ \A i \in 1..pos : h[i] = hdr[i]
  BY ReadLinesIs
<1> HIDE DEF h
<1>2. h # <<>> <=> pos >= 1
  BY <1>1, EmptySeq
<1>3. pos >= 1 => h[1] = hdr[1]
  BY <1>1
<1>4. \A i \in 1..(pos - 1) : h[i] = hdr[i] /\ h[i + 1] = hdr[i + 1]
  BY <1>1
<1>5. WellFormed(h) <=> WellUpto(pos)
  BY <1>1, <1>2, <1>3, <1>4 DEF WellFormed, WellUpto
<1> QED
  BY <1>5 DEF h

\* One more line is read.
LEMMA ReadsIs ==
    ASSUME Types, NEW l \in Lines, Reads(l)
    PROVE  /\ hdr' \in Seq(Lines) /\ pos' = pos + 1 /\ pos' \in 0..Len(hdr') /\ pos \in Nat
           /\ hdr'[pos'] = l /\ (\A i \in 1..pos : hdr'[i] = hdr[i])
           /\ by = "package" => hdr' = hdr /\ pos < Len(hdr)
           /\ by' = by /\ sent' = sent /\ edits' = edits /\ mode' = mode /\ ids' = ids /\ data' = data
<1>1. hdr \in Seq(Lines) /\ pos \in 0..Len(hdr) /\ Len(hdr) \in Nat /\ pos \in Nat
  BY LenProperties DEF Types
<1>2. CASE pos < Len(hdr) /\ l = hdr[pos + 1] /\ UNCHANGED hdr
  BY <1>1, <1>2 DEF Reads
<1>3. CASE by = "other" /\ pos = Len(hdr) /\ hdr' = Append(hdr, l)
  <2>1. /\ hdr' \in Seq(Lines) /\ Len(hdr') = Len(hdr) + 1 /\ hdr'[Len(hdr) + 1] = l
        /\ \A i \in 1..Len(hdr) : hdr'[i] = hdr[i]
    BY <1>1, <1>3, AppendProperties
  <2> QED
    BY <1>1, <1>3, <2>1 DEF Reads
<1> QED
  BY <1>2, <1>3 DEF Reads

\* What that makes of the format.
LEMMA WellGoesOn ==
    ASSUME Types, NEW l \in Lines, Reads(l)
    PROVE  WellUpto(pos)' <=> /\ WellUpto(pos)
                              /\ pos = 0 => l[1] \in Openings
                              /\ pos # 0 => l[1] \in Follows(hdr[pos][1])
<1>1. /\ pos' = pos + 1 /\ pos \in Nat /\ hdr'[pos + 1] = l
      /\ \A i \in 1..pos : hdr'[i] = hdr[i]
  BY ReadsIs
<1>2. WellUpto(pos)' <=> /\ hdr'[1][1] \in Openings
                         /\ \A i \in 1..pos : hdr'[i + 1][1] \in Follows(hdr'[i][1])
  BY <1>1 DEF WellUpto
<1>3. CASE pos = 0
  BY <1>1, <1>2, <1>3 DEF WellUpto
<1>4. CASE pos # 0
  <2>1. pos \in 1..pos /\ hdr'[1] = hdr[1] /\ hdr'[pos] = hdr[pos] /\ pos >= 1
    BY <1>1, <1>4
  <2>2. \A i \in 1..(pos - 1) : i \in 1..pos /\ hdr'[i] = hdr[i] /\ hdr'[i + 1] = hdr[i + 1]
    BY <1>1, <1>4
  <2>3. \A i \in 1..pos : i = pos \/ i \in 1..(pos - 1)
    BY <1>1
  <2> QED
    BY <1>1, <1>2, <1>4, <2>1, <2>2, <2>3 DEF WellUpto
<1> QED
  BY <1>3, <1>4

-----------------------------------------------------------------------------
(* The invariant.                                                          *)

Parsing == Reading \cup Decided
\* Lines of the stanzas that match() has looked at, or skipped.
Upto == IF ph \in {"getstanza", "skipargbody"} THEN pos ELSE pos - 1

\* What each place of getstanza has read, and what its refusal means.
Format ==
    /\ ph \in Writing => pos = 0 /\ st = Start
    /\ ph \in Parsing => WellUpto(pos)
    /\ ph \in Decided => pos >= 1 /\ hdr[pos] = End
    /\ ph = "badheader" => ~WellUpto(pos)
    /\ ph = "getstanza" => pos = 0 \/ hdr[pos][1] \in {"short", "wrap"}
    /\ ph = "getbody" => /\ pos >= 1 /\ st.s.type \in {"X25519", "scrypt"}
                         /\ hdr[pos] = Line(st.s.type, st.s.arg)
    /\ ph = "skipargbody" => pos >= 1 /\ hdr[pos][1] \in {"other", "full"} /\ st.s.type = "other"

\* The stanzas counted, and whether one is a scrypt stanza.
Counted ==
    /\ st.seenscrypt => st.n >= 1 /\ st.found
    /\ ph \in Parsing => /\ ph # "skipargbody" => (st.n = 0 <=> Upto = 0)
                         /\ ~st.seenscrypt => \A i \in 1..Upto : hdr[i][1] # "scrypt"
    /\ ph \in Decided \cup {"getstanza"} =>
          /\ st.s.type = "scrypt" => st.seenscrypt
          /\ st.n = 1 /\ st.seenscrypt => /\ Upto = 2 /\ hdr[1][1] = "scrypt" /\ hdr[1][2] = st.s.arg
                                           /\ st.s.type = "scrypt"

\* Where a key is used, which stanzas the header has.
Alone ==
    ph \in {"nomemory", "wrongpassphrase", "validatemac", "payload", "badmac"} =>
        \/ mode = "pass" /\ pos = 3 /\ hdr[1][1] = "scrypt" /\ hdr[1][2] <= MaxCostIn
        \/ mode = "keys" /\ ~st.seenscrypt

\* Lines i and i + 1 are a stanza that one of the identities opens.
Mine(i) == \E k \in Range(ids) :
              hdr[i] = ShareOf(k) /\ hdr[i + 1][1] = "wrap" /\ hdr[i + 1][2][1] = k

MineIn(u) == {i \in 1..(u - 1) : Mine(i)}

\* The file key is that of the first of them.
FirstOf(S) == \A i \in S : (\A j \in S : i <= j) => st.fk = hdr[i + 1][2][2]
Chosen ==
    mode = "keys" =>
        /\ ph \in Parsing /\ ~st.seenscrypt => (st.found <=> MineIn(Upto) # {}) /\ FirstOf(MineIn(Upto))
        /\ ph = "nomatch" => ~st.found
        /\ ph \in {"validatemac", "payload", "badmac"} => st.found

\* What the package has written so far, and at the end.
ForKey(h, i) == \E k \in Keys : i < Len(h) /\ h[i] = ShareOf(k) /\ h[i + 1] = Wrap(k, "this")
Unfinished(h) ==
    /\ h # <<>> => h[1][1] = "X25519"
    /\ \A i \in 1..Len(h) : \/ ForKey(h, i)
                            \/ h[i][1] = "wrap" /\ (i < Len(h) => h[i + 1][1] = "X25519")
ForKeys(h) ==
    /\ h # <<>> /\ h[1][1] = "X25519"
    /\ \A i \in 1..Len(h) : \/ ForKey(h, i)
                            \/ /\ h[i][1] = "wrap" /\ i < Len(h)
                               /\ h[i + 1][1] = "X25519" \/ h[i + 1] = End
                            \/ h[i] = End /\ i = Len(h)
ForPassphrase(h) ==
    \E c \in MinCost..MaxCost : h = <<Line("scrypt", c), Wrap(Pass, "this"), End>>

\* A header that nobody has changed.
Intact == by = "package" /\ edits = 0
Unchanged ==
    /\ ph = "makehdr" => by = "package" /\ (Unfinished(hdr) \/ \E c \in MinCost..MaxCost :
                                              hdr = <<Line("scrypt", c), Wrap(Pass, "this")>>)
    /\ Intact /\ ph \notin {"makehdr", "notwritten"} =>
          /\ hdr = sent /\ (ForKeys(sent) \/ ForPassphrase(sent))
          /\ ph \notin {"skipargbody", "badheader", "headerends", "badversion", "zeroshare"}

\* How an intact header is read by those who can open it.
\* Refused, and not for the want of a whole copy of it.
Refused == ph \in Refusals /\ ~(ph = "badmac" /\ data \in Spoilt)
Called == \E k \in Range(ids) : ShareOf(k) \in Range(sent)
KeysOpen ==
    /\ ~st.seenscrypt
    /\ mode = "keys" => st.fk = IF st.found THEN "this" ELSE "none"
    /\ mode = "keys" /\ Called => ~Refused
PassOpens ==
    /\ ph \in Decided \cup {"getstanza"} /\ pos >= 2 =>
          /\ st.n = 1 /\ st.found /\ st.s.type = "scrypt" /\ st.s.arg = sent[1][2]
          /\ st.s.body = <<Pass, "this">>
    /\ ph \in {"validatemac", "payload", "badmac"} => st.fk = "this"
    /\ ~Refused
Opens ==
    Intact /\ ph \notin {"makehdr", "notwritten"} =>
        /\ ForKeys(sent) => KeysOpen
        /\ ForPassphrase(sent) /\ mode = "pass" /\ RightPass => PassOpens

HInv == Types /\ Format /\ Counted /\ Alone /\ Chosen /\ Unchanged /\ Opens

-----------------------------------------------------------------------------
(* What the steps of the parser do. *)

\* The counts and the file key stay.
SameCounts == st'.n = st.n /\ st'.seenscrypt = st.seenscrypt /\ st'.found = st.found /\ st'.fk = st.fk
\* The stanza of the line l begins.
Begun(l) == /\ st' \in Locals /\ SameCounts
            /\ st'.s.type = l[1] /\ st'.s.arg = l[2] /\ st'.s.body = st.s.body

LEMMA LocalsAre ==
    ASSUME st \in Locals
    PROVE  /\ st.n \in Nat /\ st.seenscrypt \in BOOLEAN /\ st.found \in BOOLEAN
           /\ st.s \in Stanza /\ st.fk \in FileKeys \cup {"none", 0}
           /\ st.s.type \in {"none", "X25519", "scrypt", "other"} /\ st.s.arg \in Args /\ st.s.body \in Bodies
  BY DEF Locals, Stanza

LEMMA NewStanza ==
    ASSUME NEW r \in Stanza, NEW x, NEW a
    PROVE  [[r EXCEPT !.type = x] EXCEPT !.arg = a] = [type |-> x, arg |-> a, body |-> r.body]
<1>1. r = [type |-> r.type, arg |-> r.arg, body |-> r.body]
  BY DEF Stanza
<1>2. [r EXCEPT !.type = x] = [type |-> x, arg |-> r.arg, body |-> r.body]
  BY <1>1
<1> DEFINE y == [type |-> x, arg |-> r.arg, body |-> r.body]
<1>3. [y EXCEPT !.arg = a] = [type |-> x, arg |-> a, body |-> r.body]
  OBVIOUS
<1> HIDE DEF y
<1>4. [r EXCEPT !.type = x] = y
  BY <1>2 DEF y
<1> QED
  BY <1>3, <1>4

LEMMA BeginsStanza ==
    ASSUME st \in Locals, NEW l \in Lines, l[1] \in {"X25519", "scrypt", "other"},
           st' = [st EXCEPT !.s.type = l[1], !.s.arg = l[2]]
    PROVE  Begun(l)
<1>1. /\ st.n \in Nat /\ st.seenscrypt \in BOOLEAN /\ st.found \in BOOLEAN
      /\ st.s \in Stanza /\ st.fk \in FileKeys \cup {"none", 0}
  BY LocalsAre
<1> DEFINE z == [type |-> l[1], arg |-> l[2], body |-> st.s.body]
<1>2. l[2] \in Args /\ st.s.body \in Bodies
  BY LineIs, LocalsAre
<1>3. z \in Stanza /\ z.type = l[1] /\ z.arg = l[2] /\ z.body = st.s.body
  BY <1>2 DEF Stanza
<1> DEFINE y == [st.s EXCEPT !.type = l[1]]
           t == [st EXCEPT !.s = y]
<1>6. t.s = y
  BY DEF Locals
<1>7. [y EXCEPT !.arg = l[2]] = z
  <2>1. \A x, a : [[st.s EXCEPT !.type = x] EXCEPT !.arg = a] = [type |-> x, arg |-> a, body |-> st.s.body]
    BY <1>1, NewStanza
  <2> QED
    BY <2>1
<1>8. st' = [t EXCEPT !.s = [t.s EXCEPT !.arg = l[2]]]
  OBVIOUS
<1> HIDE DEF z, y
<1>9. st' = [t EXCEPT !.s = z]
  BY <1>6, <1>7, <1>8
<1>4. st' = [st EXCEPT !.s = z]
  BY <1>1, <1>9 DEF Locals
<1> HIDE DEF t
<1>5. /\ st'.n = st.n /\ st'.seenscrypt = st.seenscrypt /\ st'.found = st.found /\ st'.fk = st.fk
      /\ st'.s = z /\ st' \in Locals
  BY <1>1, <1>3, <1>4 DEF Locals
<1> QED
  BY <1>3, <1>5 DEF Begun, SameCounts

GetStanzaOf(l) ==
    /\ Reads(l) /\ ph = "getstanza"
    /\ \/ l = End /\ ph' = "matched" /\ st' = st
       \/ l[1] \in {"X25519", "scrypt"} /\ ph' = "getbody" /\ Begun(l)
       \/ l[1] = "other" /\ ph' = "skipargbody" /\ Begun(l)
       \/ l[1] \notin Openings /\ ph' = "badheader" /\ st' = st

LEMMA GetStanzaIs == ASSUME Types, GetStanza PROVE \E l \in Lines : GetStanzaOf(l)
<1>1. PICK l \in Lines :
         /\ Reads(l)
         /\ st' = IF l[1] \in {"X25519", "scrypt"} \/ l[1] = "other"
                  THEN [st EXCEPT !.s.type = l[1], !.s.arg = l[2]] ELSE st
         /\ ph' = CASE l[1] = "end" -> "matched"
                    [] l[1] \in {"X25519", "scrypt"} -> "getbody"
                    [] l[1] = "other" -> "skipargbody"
                    [] OTHER -> "badheader"
  BY DEF GetStanza
<1>2. l[1] = "end" <=> l = End
  BY LineIs
<1>3. st \in Locals /\ ph = "getstanza"
  BY DEF Types, GetStanza
<1>4. CASE l[1] = "end"
  BY <1>1, <1>2, <1>3, <1>4 DEF GetStanzaOf
<1>5. CASE l[1] \in {"X25519", "scrypt"}
  <2>1. Begun(l)
    BY <1>1, <1>3, <1>5, BeginsStanza
  <2> QED
    BY <1>1, <1>3, <1>5, <2>1 DEF GetStanzaOf
<1>6. CASE l[1] = "other"
  <2>1. Begun(l)
    BY <1>1, <1>3, <1>6, BeginsStanza
  <2> QED
    BY <1>1, <1>3, <1>6, <2>1 DEF GetStanzaOf
<1>7. CASE l[1] \notin {"end", "X25519", "scrypt", "other"}
  BY <1>1, <1>3, <1>7 DEF GetStanzaOf, Openings
<1> QED
  BY <1>4, <1>5, <1>6, <1>7

\* A stanza is skipped.
Skipped == /\ st' \in Locals /\ st'.n = st.n + 1 /\ st'.seenscrypt = st.seenscrypt
           /\ st'.found = st.found /\ st'.fk = st.fk /\ st'.s = st.s

SkipArgBodyOf(l) ==
    /\ Reads(l) /\ ph = "skipargbody"
    /\ \/ l[1] = "full" /\ ph' = "skipargbody" /\ st' = st
       \/ l[1] \in {"short", "wrap"} /\ ph' = "getstanza" /\ Skipped
       \/ l[1] \notin {"full", "short", "wrap"} /\ ph' = "badheader" /\ st' = st

LEMMA SkipArgBodyIs == ASSUME Types, SkipArgBody PROVE \E l \in Lines : SkipArgBodyOf(l)
<1>1. PICK l \in Lines :
         /\ Reads(l)
         /\ ph' = CASE l[1] = "full" -> "skipargbody"
                    [] l[1] \in {"short", "wrap"} -> "getstanza"
                    [] OTHER -> "badheader"
         /\ st' = IF ph' = "getstanza" THEN [st EXCEPT !.n = @ + 1] ELSE st
  BY DEF SkipArgBody
<1>2. st \in Locals /\ ph = "skipargbody"
  BY DEF Types, SkipArgBody
<1>3. CASE l[1] = "full"
  BY <1>1, <1>2, <1>3 DEF SkipArgBodyOf
<1>4. CASE l[1] \in {"short", "wrap"}
  <2>1. ph' = "getstanza" /\ st' = [st EXCEPT !.n = @ + 1]
    BY <1>1, <1>4
  <2>2. Skipped
    BY <1>2, <2>1 DEF Skipped, Locals
  <2> QED
    BY <1>1, <1>2, <1>4, <2>1, <2>2 DEF SkipArgBodyOf
<1>5. CASE l[1] \notin {"full", "short", "wrap"}
  BY <1>1, <1>2, <1>5 DEF SkipArgBodyOf
<1> QED
  BY <1>3, <1>4, <1>5

\* The body line l of the stanza is its last: the stanza has been looked at.
Taken(l) ==
    /\ st' \in Locals /\ st'.n = st.n + 1
    /\ st'.s.type = st.s.type /\ st'.s.arg = st.s.arg /\ st'.s.body = l[2]
    /\ st'.seenscrypt <=> st.seenscrypt \/ st.s.type = "scrypt"
    /\ IF st.s.type = "X25519" /\ mode = "keys"
       THEN /\ st'.found <=> st.found \/ Matches([st.s EXCEPT !.body = l[2]])
            /\ st'.fk = IF ~st.found /\ Matches([st.s EXCEPT !.body = l[2]]) THEN l[2][2] ELSE st.fk
       ELSE /\ st'.found <=> st.found \/ st.s.type = "scrypt"
            /\ st'.fk = st.fk

GetBodyOf(l) ==
    /\ Reads(l) /\ ph = "getbody"
    /\ \/ l[1] # "wrap" /\ ph' = "badheader" /\ st' = st
       \/ /\ l[1] = "wrap" /\ st.s.type = "X25519" /\ st.s.arg = Zero /\ mode = "keys"
          /\ ph' = "zeroshare" /\ st' = st
       \/ l[1] = "wrap" /\ ph' = "getstanza" /\ Taken(l)

LEMMA GetBodyIs == ASSUME Types, GetBody PROVE \E l \in Lines : GetBodyOf(l)
<1> DEFINE S(l) == [st.s EXCEPT !.body = l[2]]
           F(l) == IF S(l).type = "X25519" /\ mode = "keys" THEN FindX25519(S(l))
                   ELSE [found |-> st.found \/ S(l).type = "scrypt", fk |-> st.fk]
<1>1. PICK l \in Lines :
         /\ Reads(l)
         /\ \/ l[1] # "wrap" /\ ph' = "badheader" /\ st' = st
            \/ l[1] = "wrap" /\ S(l).type = "X25519" /\ ZeroShare(S(l)) /\ ph' = "zeroshare" /\ st' = st
            \/ /\ l[1] = "wrap" /\ ph' = "getstanza"
               /\ st' = [n |-> st.n + 1, s |-> S(l), found |-> F(l).found, fk |-> F(l).fk,
                         seenscrypt |-> st.seenscrypt \/ S(l).type = "scrypt"]
  BY DEF GetBody
<1>2. st \in Locals /\ ph = "getbody"
  BY DEF Types, GetBody
<1> DEFINE z == S(l)
<1>3. /\ st.n \in Nat /\ st.seenscrypt \in BOOLEAN /\ st.found \in BOOLEAN
      /\ st.s \in Stanza /\ st.fk \in FileKeys \cup {"none", 0}
  BY <1>2, LocalsAre
<1>4. z.type = st.s.type /\ z.arg = st.s.arg /\ z.body = l[2]
  BY <1>3 DEF Stanza
<1>5. CASE l[1] # "wrap" /\ ph' = "badheader" /\ st' = st
  BY <1>1, <1>2, <1>5 DEF GetBodyOf
<1>6. CASE l[1] = "wrap" /\ z.type = "X25519" /\ ZeroShare(z) /\ ph' = "zeroshare" /\ st' = st
  BY <1>1, <1>2, <1>4, <1>6 DEF GetBodyOf, ZeroShare
<1>7. CASE /\ l[1] = "wrap" /\ ph' = "getstanza"
           /\ st' = [n |-> st.n + 1, s |-> z, found |-> F(l).found, fk |-> F(l).fk,
                     seenscrypt |-> st.seenscrypt \/ z.type = "scrypt"]
  <2>1. l[2] \in Bodies /\ l[2][2] \in FileKeys
    BY <1>7, LineIs
  <2>2. z \in Stanza
    BY <1>3, <2>1 DEF Stanza
  <2> DEFINE m == Matches(z)
             q == st.s.type = "X25519" /\ mode = "keys"
             fo == IF q THEN st.found \/ m ELSE st.found \/ st.s.type = "scrypt"
             ke == IF q /\ ~st.found /\ m THEN l[2][2] ELSE st.fk
             se == st.seenscrypt \/ st.s.type = "scrypt"
  <2>3. F(l).found = fo /\ F(l).fk = ke
    <3> HIDE DEF z, m
    <3>1. CASE q
      <4>1. F(l) = [found |-> st.found \/ m, fk |-> IF ~st.found /\ m THEN l[2][2] ELSE st.fk]
        BY <1>4, <3>1 DEF FindX25519, m, z
      <4> QED
        BY <3>1, <4>1
    <3>2. CASE ~q
      <4>1. F(l) = [found |-> st.found \/ st.s.type = "scrypt", fk |-> st.fk]
        BY <1>4, <3>2 DEF z
      <4> QED
        BY <3>2, <4>1
    <3> QED
      BY <3>1, <3>2
  <2>4. m \in BOOLEAN
    BY DEF Matches
  <2>5. fo \in BOOLEAN /\ se \in BOOLEAN /\ ke \in FileKeys \cup {"none", 0} /\ st.n + 1 \in Nat
    <3> HIDE DEF m
    <3>1. fo \in BOOLEAN
      BY <1>3, <2>4, ZenonT(20)
    <3>2. se \in BOOLEAN
      BY <1>3
    <3>3. ke \in FileKeys \cup {"none", 0} /\ st.n + 1 \in Nat
      BY <1>3, <2>1
    <3> QED
      BY <3>1, <3>2, <3>3
  <2>6. st' = [n |-> st.n + 1, s |-> z, found |-> fo, fk |-> ke, seenscrypt |-> se]
    BY <1>4, <1>7, <2>3
  <2>7. /\ fo <=> IF q THEN st.found \/ m ELSE st.found \/ st.s.type = "scrypt"
        /\ ke = IF q /\ ~st.found /\ m THEN l[2][2] ELSE st.fk
        /\ se <=> st.seenscrypt \/ st.s.type = "scrypt"
    BY <1>3, <2>4
  <2> HIDE DEF fo, ke, se, z
  <2>8. st' \in Locals /\ st'.n = st.n + 1 /\ st'.s = z /\ st'.found = fo /\ st'.fk = ke /\ st'.seenscrypt = se
    BY <2>2, <2>5, <2>6 DEF Locals
  <2>9. Taken(l)
    <3>1. m <=> Matches([st.s EXCEPT !.body = l[2]])
      BY DEF z
    <3> HIDE DEF m
    <3> QED
      BY <1>4, <2>7, <2>8, <3>1 DEF Taken
  <2> QED
    BY <1>1, <1>2, <1>7, <2>9 DEF GetBodyOf
<1> QED
  BY <1>1, <1>5, <1>6, <1>7

-----------------------------------------------------------------------------
(* The types. *)

LEMMA Written ==
    /\ End \in Lines
    /\ \A k \in Keys : ShareOf(k) \in Lines /\ Wrap(k, "this") \in Lines
    /\ Wrap(Pass, "this") \in Lines /\ \A c \in MinCost..MaxCost : Line("scrypt", c) \in Lines
  BY DEF Lines, FileKeys

LEMMA Two ==
    ASSUME NEW x \in Lines, NEW y \in Lines
    PROVE  <<x, y>> \in Seq(Lines) /\ Len(<<x, y>>) = 2 /\ <<x, y>>[1] = x /\ <<x, y>>[2] = y
  OBVIOUS

LEMMA Damaged ==
    ASSUME NEW h \in Seq(Lines), NEW i \in 1..Len(h), NEW l \in Lines
    PROVE  /\ RemoveAt(h, i) \in Seq(Lines) /\ InsertAt(h, i, l) \in Seq(Lines) /\ ReplaceAt(h, i, l) \in Seq(Lines)
           /\ i < Len(h) => [h EXCEPT ![i] = h[i + 1], ![i + 1] = h[i]] \in Seq(Lines)
<1>1. Len(h) \in Nat /\ i \in Nat /\ 1 <= i /\ i <= Len(h)
  BY LenProperties
<1>2. SubSeq(h, 1, i - 1) \in Seq(Lines) /\ SubSeq(h, i, Len(h)) \in Seq(Lines) /\ SubSeq(h, i + 1, Len(h)) \in Seq(Lines)
  BY <1>1, SubSeqProperties
<1>3. <<l>> \in Seq(Lines)
  OBVIOUS
<1>4. RemoveAt(h, i) \in Seq(Lines)
  BY <1>2, ConcatProperties DEF RemoveAt
<1>5. InsertAt(h, i, l) \in Seq(Lines)
  <2>1. SubSeq(h, 1, i - 1) \o <<l>> \in Seq(Lines)
    BY <1>2, <1>3, ConcatProperties
  <2> QED
    BY <1>2, <2>1, ConcatProperties DEF InsertAt
<1>6. ReplaceAt(h, i, l) \in Seq(Lines)
  BY <1>1, ExceptSeq DEF ReplaceAt
<1>7. ASSUME i < Len(h) PROVE [h EXCEPT ![i] = h[i + 1], ![i + 1] = h[i]] \in Seq(Lines)
  <2>1. h[i + 1] \in Lines /\ h[i] \in Lines /\ i + 1 \in 1..Len(h)
    BY <1>1, <1>7, ElementOfSeq
  <2> DEFINE g == [h EXCEPT ![i] = h[i + 1]]
  <2>2. g \in Seq(Lines) /\ Len(g) = Len(h)
    BY <2>1, ExceptSeq
  <2> HIDE DEF g
  <2>3. [g EXCEPT ![i + 1] = h[i]] \in Seq(Lines)
    BY <2>1, <2>2, ExceptSeq
  <2> QED
    BY <2>3 DEF g
<1> QED
  BY <1>4, <1>5, <1>6, <1>7

LEMMA ReadingTypes ==
    ASSUME Types, GetStanza \/ SkipArgBody \/ GetBody PROVE Types'
<1>1. PICK l \in Lines : Reads(l) /\ st' \in Locals /\ ph' \in Phases
  <2>1. st \in Locals
    BY DEF Types
  <2>2. CASE GetStanza
    BY <2>1, <2>2, GetStanzaIs DEF GetStanzaOf, Begun, Phases, Reading, Outcomes, Refusals
  <2>3. CASE SkipArgBody
    BY <2>1, <2>3, SkipArgBodyIs DEF SkipArgBodyOf, Skipped, Phases, Reading, Outcomes, Refusals
  <2>4. CASE GetBody
    BY <2>1, <2>4, GetBodyIs DEF GetBodyOf, Taken, Phases, Reading, Outcomes, Refusals
  <2> QED
    BY <2>2, <2>3, <2>4
<1>2. /\ hdr' \in Seq(Lines) /\ pos' \in 0..Len(hdr')
      /\ by' = by /\ edits' = edits /\ mode' = mode /\ ids' = ids /\ data' = data
  BY <1>1, ReadsIs
<1> QED
  BY <1>1, <1>2 DEF Types

\* The header grows, or is changed, before anything is read.
LEMMA WritingTypes ==
    ASSUME Types, Format, X25519Stanza \/ ScryptStanza \/ HdrFinish \/ Damage
    PROVE  Types' /\ pos' = 0 /\ st' = Start
<1>1. /\ ph \in Writing /\ by' = by /\ mode' = mode /\ ids' = ids /\ pos' = pos /\ st' = st
      /\ data' = data /\ ph' \in Writing
  BY DEF X25519Stanza, ScryptStanza, HdrFinish, Damage, Writing
<1>2. /\ hdr \in Seq(Lines) /\ edits \in Nat /\ st \in Locals
  BY DEF Types
<1>3. pos = 0 /\ st = Start
  BY <1>1 DEF Format
<1>4. hdr' \in Seq(Lines)
  <2>1. CASE X25519Stanza
    <3>1. PICK k \in Keys : hdr' = hdr \o <<ShareOf(k), Wrap(k, "this")>>
      BY <2>1 DEF X25519Stanza
    <3>2. <<ShareOf(k), Wrap(k, "this")>> \in Seq(Lines)
      BY Written, Two
    <3> QED
      BY <1>2, <3>1, <3>2, ConcatProperties
  <2>2. CASE ScryptStanza
    BY <2>2, Written, Two DEF ScryptStanza
  <2>3. CASE HdrFinish
    BY <1>2, <2>3, Written, AppendProperties DEF HdrFinish
  <2>4. CASE Damage
    <3>1. PICK i \in 1..Len(hdr) :
             \/ hdr' = RemoveAt(hdr, i)
             \/ \E l \in Lines : hdr' = InsertAt(hdr, i, l)
             \/ \E l \in Lines : hdr' = ReplaceAt(hdr, i, l)
             \/ i < Len(hdr) /\ hdr' = [hdr EXCEPT ![i] = hdr[i + 1], ![i + 1] = hdr[i]]
      BY <2>4 DEF Damage
    <3>2. \A l \in Lines : /\ RemoveAt(hdr, i) \in Seq(Lines) /\ InsertAt(hdr, i, l) \in Seq(Lines)
                           /\ ReplaceAt(hdr, i, l) \in Seq(Lines)
                           /\ i < Len(hdr) =>
                                 [hdr EXCEPT ![i] = hdr[i + 1], ![i + 1] = hdr[i]] \in Seq(Lines)
      BY <1>2, Damaged
    <3>3. End \in Lines
      BY Written
    <3> QED
      BY <3>1, <3>2, <3>3
  <2> QED
    BY <2>1, <2>2, <2>3, <2>4
<1>5. edits' \in Nat
  BY <1>2 DEF X25519Stanza, ScryptStanza, HdrFinish, Damage
<1>6. pos' \in 0..Len(hdr')
  BY <1>1, <1>3, <1>4, LenProperties
<1> QED
  BY <1>1, <1>2, <1>3, <1>4, <1>5, <1>6 DEF Types, Phases

\* The steps that read and write no line.
Quiet == MakeHdrFails \/ GetVersion \/ HeaderEnds \/ ReadFails \/ Decipher \/ DecipherPassphrase
         \/ RecStop \/ ValidateMac

LEMMA QuietIs ==
    ASSUME Types, Quiet
    PROVE  /\ by' = by /\ hdr' = hdr /\ sent' = sent /\ mode' = mode /\ ids' = ids /\ pos' = pos
           /\ st' \in Locals /\ st'.n = st.n /\ st'.seenscrypt = st.seenscrypt /\ st'.found = st.found /\ st'.s = st.s
           /\ st' = st \/ (mode = "pass" /\ st'.fk = st.s.body[2] /\ ph = "matched" /\ ph' = "validatemac")
           /\ ph' \in Phases /\ edits' \in Nat /\ Types'
<1>1. /\ by' = by /\ hdr' = hdr /\ sent' = sent /\ mode' = mode /\ ids' = ids /\ pos' = pos
  BY DEF Quiet, MakeHdrFails, GetVersion, HeaderEnds, ReadFails, Decipher, DecipherPassphrase, RecStop, ValidateMac
<1>2. st \in Locals /\ edits \in Nat
  BY DEF Types
<1>3. edits' \in Nat
  BY <1>2 DEF Quiet, MakeHdrFails, GetVersion, HeaderEnds, ReadFails, Decipher, DecipherPassphrase, RecStop, ValidateMac
<1>4. /\ st' \in Locals /\ st'.n = st.n /\ st'.seenscrypt = st.seenscrypt /\ st'.found = st.found /\ st'.s = st.s
      /\ st' = st \/ (mode = "pass" /\ st'.fk = st.s.body[2] /\ ph = "matched" /\ ph' = "validatemac")
  <2>1. CASE DecipherPassphrase
    <3>1. st' = (IF ph' = "validatemac" THEN [st EXCEPT !.fk = st.s.body[2]] ELSE st) /\ ph = "matched" /\ mode = "pass"
      BY <2>1 DEF DecipherPassphrase
    <3>2. CASE st' = st
      BY <1>2, <3>2
    <3>3. CASE st' = [st EXCEPT !.fk = st.s.body[2]] /\ ph' = "validatemac"
      <4>1. st.s.body[2] \in FileKeys \cup {"none", 0}
        BY <1>2, LocalsAre DEF Bodies
      <4> QED
        BY <1>2, <3>1, <3>3, <4>1 DEF Locals
    <3> QED
      BY <3>1, <3>2, <3>3
  <2>2. CASE ~DecipherPassphrase
    <3>1. st' = st
      BY <2>2 DEF Quiet, MakeHdrFails, GetVersion, HeaderEnds, ReadFails, Decipher, RecStop, ValidateMac
    <3> QED
      BY <1>2, <3>1
  <2> QED
    BY <2>1, <2>2
<1>5. ph' \in Phases
  <2>1. CASE DecipherPassphrase
    BY <2>1 DEF DecipherPassphrase, Phases, Outcomes, Refusals
  <2>2. CASE Decipher
    BY <2>2 DEF Decipher, Phases, Outcomes, Refusals
  <2>3. CASE ~DecipherPassphrase /\ ~Decipher
    BY <2>3 DEF Quiet, MakeHdrFails, GetVersion, HeaderEnds, ReadFails, RecStop, ValidateMac, Phases, Reading, Outcomes, Refusals
  <2> QED
    BY <2>1, <2>2, <2>3
<1>6. data' \in Data
  <2>1. data \in Data
    BY DEF Types
  <2> QED
    BY <2>1 DEF Quiet, MakeHdrFails, GetVersion, HeaderEnds, ReadFails, Decipher, DecipherPassphrase, RecStop, ValidateMac, Data
<1>7. Types'
  BY <1>1, <1>3, <1>4, <1>5, <1>6 DEF Types
<1> QED
  BY <1>1, <1>3, <1>4, <1>5, <1>7

-----------------------------------------------------------------------------
(* The format. *)

LEMMA GetStanzaFormat == ASSUME Types, Format, GetStanza PROVE Format'
<1>1. PICK l \in Lines : GetStanzaOf(l)
  BY GetStanzaIs
<1>2. Reads(l) /\ ph = "getstanza"
  BY <1>1 DEF GetStanzaOf
<1>3. pos \in Nat /\ pos' = pos + 1 /\ hdr'[pos'] = l
  BY <1>2, ReadsIs
<1>4. WellUpto(pos) /\ (pos = 0 \/ hdr[pos][1] \in {"short", "wrap"})
  BY <1>2 DEF Format, Parsing, Reading
<1>5. WellUpto(pos)' <=> l[1] \in Openings
  <2>1. pos # 0 => Follows(hdr[pos][1]) = Openings
    BY <1>4 DEF Follows
  <2> QED
    BY <1>2, <1>4, <2>1, WellGoesOn
<1>6. l = Line(l[1], l[2]) /\ (l[1] = "end" <=> l = End)
  BY LineIs
<1>7. pos' >= 1
  BY <1>3
<1>8. CASE l = End /\ ph' = "matched"
  BY <1>3, <1>5, <1>6, <1>7, <1>8 DEF Format, Parsing, Reading, Writing, Decided, Openings
<1>9. CASE l[1] \in {"X25519", "scrypt"} /\ ph' = "getbody" /\ Begun(l)
  <2>1. st'.s.type = l[1] /\ st'.s.arg = l[2]
    BY <1>9 DEF Begun
  <2>2. hdr'[pos'] = Line(st'.s.type, st'.s.arg)
    BY <1>3, <1>6, <2>1
  <2> QED
    BY <1>5, <1>7, <1>9, <2>1, <2>2 DEF Format, Parsing, Reading, Writing, Decided, Openings
<1>10. CASE l[1] = "other" /\ ph' = "skipargbody" /\ Begun(l)
  <2>1. st'.s.type = l[1] /\ hdr'[pos'][1] = l[1]
    BY <1>3, <1>10 DEF Begun
  <2> QED
    BY <1>5, <1>7, <1>10, <2>1 DEF Format, Parsing, Reading, Writing, Decided, Openings
<1>11. CASE l[1] \notin Openings /\ ph' = "badheader"
  BY <1>5, <1>11 DEF Format, Parsing, Reading, Writing, Decided
<1> QED
  BY <1>1, <1>8, <1>9, <1>10, <1>11 DEF GetStanzaOf

LEMMA SkipArgBodyFormat == ASSUME Types, Format, SkipArgBody PROVE Format'
<1>1. PICK l \in Lines : SkipArgBodyOf(l)
  BY SkipArgBodyIs
<1>2. Reads(l) /\ ph = "skipargbody"
  BY <1>1 DEF SkipArgBodyOf
<1>3. pos \in Nat /\ pos' = pos + 1 /\ hdr'[pos'] = l /\ hdr'[pos'][1] = l[1]
  BY <1>2, ReadsIs
<1>4. WellUpto(pos) /\ pos # 0 /\ hdr[pos][1] \in {"other", "full"} /\ st.s.type = "other"
  BY <1>2, <1>3 DEF Format, Parsing, Reading
<1>5. WellUpto(pos)' <=> l[1] \in {"full", "short", "wrap"}
  <2>1. Follows(hdr[pos][1]) = {"full", "short", "wrap"}
    BY <1>4 DEF Follows
  <2> QED
    BY <1>2, <1>4, <2>1, WellGoesOn
<1>6. pos' >= 1
  BY <1>3
<1>7. CASE l[1] = "full" /\ ph' = "skipargbody" /\ st' = st
  BY <1>3, <1>4, <1>5, <1>6, <1>7 DEF Format, Parsing, Reading, Writing, Decided
<1>8. CASE l[1] \in {"short", "wrap"} /\ ph' = "getstanza"
  BY <1>3, <1>5, <1>8 DEF Format, Parsing, Reading, Writing, Decided
<1>9. CASE l[1] \notin {"full", "short", "wrap"} /\ ph' = "badheader"
  BY <1>5, <1>9 DEF Format, Parsing, Reading, Writing, Decided
<1> QED
  BY <1>1, <1>7, <1>8, <1>9 DEF SkipArgBodyOf

LEMMA GetBodyFormat == ASSUME Types, Format, GetBody PROVE Format'
<1>1. PICK l \in Lines : GetBodyOf(l)
  BY GetBodyIs
<1>2. Reads(l) /\ ph = "getbody"
  BY <1>1 DEF GetBodyOf
<1>3. pos \in Nat /\ pos' = pos + 1 /\ hdr'[pos'] = l
  BY <1>2, ReadsIs
<1>4. WellUpto(pos) /\ pos # 0 /\ hdr[pos][1] \in {"X25519", "scrypt"}
  BY <1>2, <1>3 DEF Format, Parsing, Reading, Line
<1>5. WellUpto(pos)' <=> l[1] = "wrap"
  <2>1. Follows(hdr[pos][1]) = {"wrap"}
    BY <1>4 DEF Follows
  <2> QED
    BY <1>2, <1>4, <2>1, WellGoesOn
<1>6. CASE l[1] # "wrap" /\ ph' = "badheader"
  BY <1>5, <1>6 DEF Format, Parsing, Reading, Writing, Decided
<1>7. CASE ph' = "zeroshare"
  BY <1>7 DEF Format, Parsing, Reading, Writing, Decided
<1>8. CASE l[1] = "wrap" /\ ph' = "getstanza"
  BY <1>3, <1>5, <1>8 DEF Format, Parsing, Reading, Writing, Decided
<1> QED
  BY <1>1, <1>6, <1>7, <1>8 DEF GetBodyOf

LEMMA QuietFormat == ASSUME Types, Format, Quiet PROVE Format'
<1>1. hdr' = hdr /\ pos' = pos /\ st'.s = st.s
  BY QuietIs
<1>2. WellUpto(pos)' <=> WellUpto(pos)
  BY <1>1 DEF WellUpto
<1>3. CASE MakeHdrFails \/ HeaderEnds \/ ReadFails
  <2>1. ph' \in {"notwritten", "headerends", "ioerror"}
    BY <1>3 DEF MakeHdrFails, HeaderEnds, ReadFails
  <2> QED
    BY <2>1 DEF Format, Parsing, Reading, Writing, Decided
<1>4. CASE GetVersion
  <2>1. pos = 0
    BY <1>4 DEF GetVersion, Format, Writing
  <2>2. WellUpto(pos)
    BY <2>1 DEF WellUpto
  <2>3. ph' \in {"getstanza", "badversion"}
    BY <1>4 DEF GetVersion
  <2> QED
    BY <1>1, <1>2, <2>1, <2>2, <2>3 DEF Format, Parsing, Reading, Writing, Decided
<1>5. CASE Decipher \/ DecipherPassphrase \/ RecStop \/ ValidateMac
  <2>1. ph \in {"matched", "validatemac"}
    BY <1>5 DEF Decipher, DecipherPassphrase, RecStop, ValidateMac
  <2>2. WellUpto(pos) /\ pos >= 1 /\ hdr[pos] = End
    BY <2>1 DEF Format, Parsing, Decided
  <2>3. ph' \in Decided \ {"matched"}
    <3>1. CASE Decipher
      BY <3>1 DEF Decipher, Decided
    <3>2. CASE DecipherPassphrase
      BY <3>2 DEF DecipherPassphrase, Decided
    <3>3. CASE RecStop \/ ValidateMac
      BY <3>3 DEF RecStop, ValidateMac, Decided
    <3> QED
      BY <1>5, <3>1, <3>2, <3>3
  <2>4. ph' \notin Writing \cup {"badheader", "getstanza", "getbody", "skipargbody"}
    BY <2>3 DEF Writing, Decided
  <2> QED
    BY <1>1, <1>2, <2>2, <2>3, <2>4 DEF Format, Parsing
<1> QED
  BY <1>3, <1>4, <1>5 DEF Quiet

LEMMA WritingFormat ==
    ASSUME Types, Format, X25519Stanza \/ ScryptStanza \/ HdrFinish \/ Damage
    PROVE  Format'
<1>1. pos' = 0 /\ st' = Start
  BY WritingTypes
<1>2. ph' \in Writing
  BY DEF X25519Stanza, ScryptStanza, HdrFinish, Damage, Writing
<1> QED
  BY <1>1, <1>2 DEF Format, Parsing, Reading, Writing, Decided

-----------------------------------------------------------------------------
(* The count of the stanzas. *)

LEMMA GetStanzaCounted == ASSUME Types, Format, Counted, GetStanza PROVE Counted'
<1>1. PICK l \in Lines : GetStanzaOf(l)
  BY GetStanzaIs
<1>2. Reads(l) /\ ph = "getstanza"
  BY <1>1 DEF GetStanzaOf
<1>3. /\ pos \in Nat /\ pos' = pos + 1 /\ hdr'[pos'] = l /\ hdr'[pos + 1] = l
      /\ \A i \in 1..pos : hdr'[i] = hdr[i]
  BY <1>2, ReadsIs
<1>4. st \in Locals /\ st.n \in Nat
  BY LocalsAre DEF Types
<1>5. Upto = pos
  BY <1>2 DEF Upto
<1>6. /\ st.seenscrypt => st.n >= 1 /\ st.found
      /\ st.n = 0 <=> pos = 0
      /\ ~st.seenscrypt => \A i \in 1..pos : hdr[i][1] # "scrypt"
      /\ st.s.type = "scrypt" => st.seenscrypt
      /\ st.n = 1 /\ st.seenscrypt => /\ pos = 2 /\ hdr[1][1] = "scrypt" /\ hdr[1][2] = st.s.arg
                                       /\ st.s.type = "scrypt"
  BY <1>2, <1>5 DEF Counted, Parsing, Reading
<1>7. ~st.seenscrypt => \A i \in 1..pos : hdr'[i][1] # "scrypt"
  BY <1>3, <1>6
<1>8. CASE l = End /\ ph' = "matched" /\ st' = st
  <2>1. Upto' = pos
    BY <1>3, <1>8 DEF Upto
  <2>2. pos = 2 => hdr'[1] = hdr[1]
    BY <1>3
  <2> QED
    BY <1>6, <1>7, <1>8, <2>1, <2>2 DEF Counted, Parsing, Reading, Decided
<1>9. CASE ph' = "getbody" /\ SameCounts
  <2>1. Upto' = pos
    BY <1>3, <1>9 DEF Upto
  <2> QED
    BY <1>6, <1>7, <1>9, <2>1 DEF Counted, Parsing, Reading, Decided, SameCounts
<1>10. CASE l[1] = "other" /\ ph' = "skipargbody" /\ SameCounts
  <2>1. Upto' = pos + 1
    BY <1>3, <1>10 DEF Upto
  <2>2. ~st.seenscrypt => \A i \in 1..(pos + 1) : hdr'[i][1] # "scrypt"
    <3>1. \A i \in 1..(pos + 1) : i \in 1..pos \/ i = pos + 1
      BY <1>3
    <3> QED
      BY <1>3, <1>7, <1>10, <3>1
  <2> QED
    BY <1>6, <1>10, <2>1, <2>2 DEF Counted, Parsing, Reading, Decided, SameCounts
<1>11. CASE ph' = "badheader" /\ st' = st
  BY <1>6, <1>11 DEF Counted, Parsing, Reading, Decided
<1> QED
  BY <1>1, <1>8, <1>9, <1>10, <1>11 DEF GetStanzaOf, Begun

LEMMA SkipArgBodyCounted == ASSUME Types, Format, Counted, SkipArgBody PROVE Counted'
<1>1. PICK l \in Lines : SkipArgBodyOf(l)
  BY SkipArgBodyIs
<1>2. Reads(l) /\ ph = "skipargbody"
  BY <1>1 DEF SkipArgBodyOf
<1>3. /\ pos \in Nat /\ pos' = pos + 1 /\ hdr'[pos'] = l /\ hdr'[pos + 1] = l
      /\ \A i \in 1..pos : hdr'[i] = hdr[i]
  BY <1>2, ReadsIs
<1>4. st \in Locals /\ st.n \in Nat
  BY LocalsAre DEF Types
<1>5. Upto = pos
  BY <1>2 DEF Upto
<1>6. /\ st.seenscrypt => st.n >= 1 /\ st.found
      /\ ~st.seenscrypt => \A i \in 1..pos : hdr[i][1] # "scrypt"
      /\ st.s.type = "other"
  BY <1>2, <1>5 DEF Counted, Format, Parsing, Reading
<1>7. ASSUME l[1] # "scrypt", ~st.seenscrypt PROVE \A i \in 1..(pos + 1) : hdr'[i][1] # "scrypt"
  <2>1. \A i \in 1..(pos + 1) : i \in 1..pos \/ i = pos + 1
    BY <1>3
  <2> QED
    BY <1>3, <1>6, <1>7, <2>1
<1>8. CASE l[1] = "full" /\ ph' = "skipargbody" /\ st' = st
  <2>1. Upto' = pos + 1
    BY <1>3, <1>8 DEF Upto
  <2> QED
    BY <1>6, <1>7, <1>8, <2>1 DEF Counted, Parsing, Reading, Decided
<1>9. CASE l[1] \in {"short", "wrap"} /\ ph' = "getstanza" /\ Skipped
  <2>1. Upto' = pos + 1 /\ pos + 1 # 0
    BY <1>3, <1>9 DEF Upto
  <2>2. /\ st'.n = st.n + 1 /\ st'.seenscrypt = st.seenscrypt /\ st'.found = st.found /\ st'.s.type = "other"
    BY <1>6, <1>9 DEF Skipped
  <2>3. st'.n # 0 /\ (st'.n = 1 => ~st.seenscrypt) /\ (st.seenscrypt => st'.n >= 1)
    BY <1>4, <1>6, <2>2
  <2> QED
    BY <1>6, <1>7, <1>9, <2>1, <2>2, <2>3 DEF Counted, Parsing, Reading, Decided
<1>10. CASE ph' = "badheader" /\ st' = st
  BY <1>6, <1>10 DEF Counted, Parsing, Reading, Decided
<1> QED
  BY <1>1, <1>8, <1>9, <1>10 DEF SkipArgBodyOf

LEMMA GetBodyCounted == ASSUME Types, Format, Counted, GetBody PROVE Counted'
<1>1. PICK l \in Lines : GetBodyOf(l)
  BY GetBodyIs
<1>2. Reads(l) /\ ph = "getbody"
  BY <1>1 DEF GetBodyOf
<1>3. /\ pos \in Nat /\ pos' = pos + 1 /\ hdr'[pos'] = l /\ hdr'[pos + 1] = l
      /\ \A i \in 1..pos : hdr'[i] = hdr[i]
  BY <1>2, ReadsIs
<1>4. st \in Locals /\ st.n \in Nat
  BY LocalsAre DEF Types
<1>5. Upto = pos - 1
  BY <1>2 DEF Upto
<1>6. /\ st.seenscrypt => st.n >= 1 /\ st.found
      /\ st.n = 0 <=> pos - 1 = 0
      /\ ~st.seenscrypt => \A i \in 1..(pos - 1) : hdr[i][1] # "scrypt"
      /\ pos >= 1 /\ hdr[pos][1] = st.s.type /\ hdr[pos][2] = st.s.arg /\ st.s.type \in {"X25519", "scrypt"}
  BY <1>2, <1>5 DEF Counted, Format, Parsing, Reading, Line
<1>7. CASE l[1] = "wrap" /\ ph' = "getstanza" /\ Taken(l)
  <2>1. Upto' = pos + 1 /\ pos + 1 # 0
    BY <1>3, <1>7 DEF Upto
  <2>2. /\ st'.n = st.n + 1 /\ st'.s.type = st.s.type /\ st'.s.arg = st.s.arg
        /\ st'.seenscrypt <=> st.seenscrypt \/ st.s.type = "scrypt"
        /\ st.found \/ st.s.type = "scrypt" => st'.found
    BY <1>7 DEF Taken
  <2>3. st'.n # 0 /\ st'.n >= 1 /\ (st'.n = 1 => st.n = 0)
    BY <1>4, <2>2
  <2>4. st'.seenscrypt => st'.n >= 1 /\ st'.found
    BY <1>6, <2>2, <2>3
  <2>5. ASSUME ~st'.seenscrypt PROVE \A i \in 1..(pos + 1) : hdr'[i][1] # "scrypt"
    <3>1. \A i \in 1..(pos + 1) : i \in 1..(pos - 1) \/ i = pos \/ i = pos + 1
      BY <1>3
    <3>2. \A i \in 1..(pos - 1) : hdr'[i] = hdr[i]
      BY <1>3
    <3>3. hdr'[pos] = hdr[pos]
      BY <1>3, <1>6
    <3> QED
      BY <1>3, <1>6, <1>7, <2>2, <2>5, <3>1, <3>2, <3>3
  <2>6. ASSUME st'.n = 1, st'.seenscrypt
        PROVE  pos + 1 = 2 /\ hdr'[1][1] = "scrypt" /\ hdr'[1][2] = st'.s.arg /\ st'.s.type = "scrypt"
    <3>1. pos = 1 /\ ~st.seenscrypt
      BY <1>3, <1>4, <1>6, <2>3, <2>6
    <3>2. hdr'[1] = hdr[1] /\ hdr[1][1] = st.s.type /\ hdr[1][2] = st.s.arg
      BY <1>3, <1>6, <3>1
    <3> QED
      BY <1>3, <2>2, <2>6, <3>1, <3>2
  <2> QED
    BY <1>7, <2>1, <2>2, <2>3, <2>4, <2>5, <2>6 DEF Counted, Parsing, Reading, Decided
<1>8. CASE ph' \in {"badheader", "zeroshare"} /\ st' = st
  BY <1>6, <1>8 DEF Counted, Parsing, Reading, Decided
<1> QED
  BY <1>1, <1>7, <1>8 DEF GetBodyOf

LEMMA QuietCounted == ASSUME Types, Format, Counted, Quiet PROVE Counted'
<1>1. /\ hdr' = hdr /\ pos' = pos /\ st'.s = st.s
      /\ st'.n = st.n /\ st'.seenscrypt = st.seenscrypt /\ st'.found = st.found
  BY QuietIs
<1>2. CASE MakeHdrFails \/ HeaderEnds \/ ReadFails
  <2>1. ph' \in {"notwritten", "headerends", "ioerror"}
    BY <1>2 DEF MakeHdrFails, HeaderEnds, ReadFails
  <2> QED
    BY <1>1, <2>1 DEF Counted, Parsing, Reading, Decided
<1>3. CASE GetVersion
  <2>1. pos = 0 /\ st = Start
    BY <1>3 DEF GetVersion, Format, Writing
  <2>2. st.n = 0 /\ ~st.seenscrypt /\ st.s.type = "none"
    BY <2>1 DEF Start, NoStanza
  <2>3. ph' \in {"getstanza", "badversion"}
    BY <1>3 DEF GetVersion
  <2>4. ph' = "getstanza" => Upto' = 0
    BY <1>1, <2>1 DEF Upto
  <2> QED
    BY <1>1, <2>1, <2>2, <2>3, <2>4 DEF Counted, Parsing, Reading, Decided
<1>4. CASE Decipher \/ DecipherPassphrase \/ RecStop \/ ValidateMac
  <2>1. ph \in {"matched", "validatemac"}
    BY <1>4 DEF Decipher, DecipherPassphrase, RecStop, ValidateMac
  <2>2. ph' \in Decided
    <3>1. CASE Decipher
      BY <3>1 DEF Decipher, Decided
    <3>2. CASE DecipherPassphrase
      BY <3>2 DEF DecipherPassphrase, Decided
    <3>3. CASE RecStop \/ ValidateMac
      BY <3>3 DEF RecStop, ValidateMac, Decided
    <3> QED
      BY <1>4, <3>1, <3>2, <3>3
  <2>3. ph \in Decided /\ ph \notin {"getstanza", "skipargbody"} /\ ph' \notin {"getstanza", "skipargbody"}
    BY <2>1, <2>2 DEF Decided
  <2>4. Upto' = Upto
    BY <1>1, <2>3 DEF Upto
  <2> QED
    BY <1>1, <2>2, <2>3, <2>4 DEF Counted, Parsing
<1> QED
  BY <1>2, <1>3, <1>4 DEF Quiet

LEMMA WritingCounted ==
    ASSUME Types, Format, X25519Stanza \/ ScryptStanza \/ HdrFinish \/ Damage
    PROVE  Counted'
<1>1. st' = Start
  BY WritingTypes
<1>2. ph' \in Writing
  BY DEF X25519Stanza, ScryptStanza, HdrFinish, Damage, Writing
<1> QED
  BY <1>1, <1>2 DEF Counted, Parsing, Reading, Writing, Decided, Start

-----------------------------------------------------------------------------
(* The choice of the key. *)

\* What is read later changes nothing about the stanzas before.
LEMMA MineKept ==
    ASSUME Types, NEW l \in Lines, Reads(l), NEW i \in 1..(pos - 1)
    PROVE  (Mine(i)' <=> Mine(i)) /\ hdr'[i + 1] = hdr[i + 1]
<1>1. pos \in Nat /\ ids' = ids /\ \A j \in 1..pos : hdr'[j] = hdr[j]
  BY ReadsIs
<1>2. i \in 1..pos /\ i + 1 \in 1..pos
  BY <1>1
<1>3. hdr'[i] = hdr[i] /\ hdr'[i + 1] = hdr[i + 1]
  BY <1>1, <1>2
<1> QED
  BY <1>1, <1>3 DEF Mine

\* The same stanzas, the same choice.
LEMMA ChosenKept ==
    ASSUME Types, Chosen, mode' = mode, st'.seenscrypt = st.seenscrypt, st'.found = st.found, st'.fk = st.fk,
           ph \in Parsing,
           ph' \in Parsing => /\ MineIn(Upto)' = MineIn(Upto)
                              /\ \A i \in MineIn(Upto) : hdr'[i + 1] = hdr[i + 1],
           ph' \notin {"nomatch", "validatemac", "payload", "badmac"}
    PROVE  Chosen'
<1> SUFFICES ASSUME mode = "keys", ph' \in Parsing, ~st.seenscrypt
             PROVE  (st'.found <=> MineIn(Upto)' # {}) /\ FirstOf(MineIn(Upto))'
  BY DEF Chosen
<1> DEFINE S == MineIn(Upto)
           N == MineIn(Upto)'
<1>1. (st.found <=> S # {}) /\ FirstOf(S)
  BY DEF Chosen
<1>2. N = S /\ \A i \in S : hdr'[i + 1] = hdr[i + 1]
  OBVIOUS
<1>3. FirstOf(MineIn(Upto))' <=> \A i \in N : (\A j \in N : i <= j) => st'.fk = hdr'[i + 1][2][2]
  BY DEF FirstOf
<1> HIDE DEF S, N
<1>4. FirstOf(MineIn(Upto))'
  BY <1>1, <1>2, <1>3 DEF FirstOf
<1> QED
  BY <1>1, <1>2, <1>4 DEF N

LEMMA GetStanzaChosen == ASSUME Types, Format, Chosen, GetStanza PROVE Chosen'
<1>1. PICK l \in Lines : GetStanzaOf(l)
  BY GetStanzaIs
<1>2. Reads(l) /\ ph = "getstanza" /\ st'.seenscrypt = st.seenscrypt /\ st'.found = st.found /\ st'.fk = st.fk
  BY <1>1 DEF GetStanzaOf, Begun, SameCounts
<1>3. /\ pos \in Nat /\ pos' = pos + 1 /\ hdr'[pos'] = l /\ mode' = mode
      /\ \A i \in 1..pos : hdr'[i] = hdr[i]
  BY <1>2, ReadsIs
<1>4. pos = 0 \/ hdr[pos][1] \in {"short", "wrap"}
  BY <1>2 DEF Format
<1>5. Upto = pos /\ ph \in Parsing
  BY <1>2 DEF Upto, Parsing, Reading
<1>6. \A i \in 1..(pos - 1) : (Mine(i)' <=> Mine(i)) /\ hdr'[i + 1] = hdr[i + 1]
  BY <1>2, MineKept
<1>7. ASSUME NEW i, i = pos, pos # 0 PROVE ~Mine(i)'
  <2>1. hdr'[i][1] # "X25519"
    BY <1>3, <1>4, <1>7
  <2> QED
    BY <2>1 DEF Mine, ShareOf, Line
<1>8. Upto' \in {pos, pos + 1}
  BY <1>3 DEF Upto
<1>9. MineIn(Upto)' = {i \in 1..(Upto' - 1) : Mine(i)'} /\ MineIn(Upto) = {i \in 1..(pos - 1) : Mine(i)}
  BY <1>5 DEF MineIn
<1>10. MineIn(Upto)' = MineIn(Upto)
  <2>1. CASE Upto' = pos
    BY <1>6, <1>9, <2>1
  <2>2. CASE Upto' = pos + 1
    <3>1. \A i \in 1..(Upto' - 1) : i \in 1..(pos - 1) \/ (i = pos /\ pos # 0)
      BY <1>3, <2>2
    <3>2. \A i \in 1..(pos - 1) : i \in 1..(Upto' - 1)
      BY <1>3, <2>2
    <3> QED
      BY <1>6, <1>7, <1>9, <3>1, <3>2
  <2> QED
    BY <1>8, <2>1, <2>2
<1>11. \A i \in MineIn(Upto) : hdr'[i + 1] = hdr[i + 1]
  BY <1>6, <1>9
<1>12. ph' \notin {"nomatch", "validatemac", "payload", "badmac"}
  BY <1>1 DEF GetStanzaOf
<1> QED
  BY <1>2, <1>3, <1>5, <1>10, <1>11, <1>12, ChosenKept

LEMMA SkipArgBodyChosen == ASSUME Types, Format, Chosen, SkipArgBody PROVE Chosen'
<1>1. PICK l \in Lines : SkipArgBodyOf(l)
  BY SkipArgBodyIs
<1>2. Reads(l) /\ ph = "skipargbody" /\ st'.seenscrypt = st.seenscrypt /\ st'.found = st.found /\ st'.fk = st.fk
  BY <1>1 DEF SkipArgBodyOf, Skipped
<1>3. /\ pos \in Nat /\ pos' = pos + 1 /\ mode' = mode /\ \A i \in 1..pos : hdr'[i] = hdr[i]
  BY <1>2, ReadsIs
<1>4. pos >= 1 /\ hdr[pos][1] \in {"other", "full"}
  BY <1>2 DEF Format
<1>5. Upto = pos /\ ph \in Parsing
  BY <1>2 DEF Upto, Parsing, Reading
<1>6. \A i \in 1..(pos - 1) : (Mine(i)' <=> Mine(i)) /\ hdr'[i + 1] = hdr[i + 1]
  BY <1>2, MineKept
<1>7. ASSUME NEW i, i = pos PROVE ~Mine(i)'
  <2>1. hdr'[i][1] # "X25519"
    BY <1>3, <1>4, <1>7
  <2> QED
    BY <2>1 DEF Mine, ShareOf, Line
<1>8. ph' \in {"skipargbody", "getstanza", "badheader"}
  BY <1>1 DEF SkipArgBodyOf
<1>9. MineIn(Upto)' = {i \in 1..(Upto' - 1) : Mine(i)'} /\ MineIn(Upto) = {i \in 1..(pos - 1) : Mine(i)}
  BY <1>5 DEF MineIn
<1>10. ASSUME ph' \in Parsing PROVE MineIn(Upto)' = MineIn(Upto)
  <2>1. Upto' = pos + 1
    BY <1>3, <1>8, <1>10 DEF Upto, Parsing, Reading, Decided
  <2>2. \A i \in 1..(Upto' - 1) : i \in 1..(pos - 1) \/ i = pos
    BY <1>3, <2>1
  <2>3. \A i \in 1..(pos - 1) : i \in 1..(Upto' - 1)
    BY <1>3, <2>1
  <2> QED
    BY <1>6, <1>7, <1>9, <2>2, <2>3
<1>11. \A i \in MineIn(Upto) : hdr'[i + 1] = hdr[i + 1]
  BY <1>6, <1>9
<1> QED
  BY <1>2, <1>3, <1>5, <1>8, <1>10, <1>11, ChosenKept

\* The stanza that ends with the line l is one of ours if one of the identities opens it.
LEMMA TakenMine ==
    ASSUME Types, NEW l \in Lines, Reads(l), l[1] = "wrap", st.s.type = "X25519", NEW i, i = pos,
           pos >= 1, hdr[pos] = Line(st.s.type, st.s.arg)
    PROVE  Mine(i)' <=> Matches([st.s EXCEPT !.body = l[2]])
<1> DEFINE z == [st.s EXCEPT !.body = l[2]]
<1>1. z.body = l[2] /\ z.arg = st.s.arg
  BY LocalsAre DEF Types, Stanza
<1>2. /\ pos \in Nat /\ pos' = pos + 1 /\ hdr'[pos'] = l /\ ids' = ids
      /\ \A j \in 1..pos : hdr'[j] = hdr[j]
  BY ReadsIs
<1>3. hdr'[i] = ShareOf(st.s.arg) /\ hdr'[i + 1] = l
  BY <1>2 DEF ShareOf
<1>4. Mine(i)' <=> \E k \in Range(ids) : ShareOf(st.s.arg) = ShareOf(k) /\ l[2][1] = k
  BY <1>2, <1>3 DEF Mine
<1>5. \A k : ShareOf(st.s.arg) = ShareOf(k) <=> k = st.s.arg
  BY DEF ShareOf, Line
<1>6. Mine(i)' <=> l[2][1] = st.s.arg /\ st.s.arg \in Range(ids)
  BY <1>4, <1>5
<1>7. st.s.arg \in Range(ids) <=> \E j \in 1..Len(ids) : ids[j] = st.s.arg
  BY LenProperties DEF Types, Range
<1> HIDE DEF z
<1>8. Matches(z) <=> l[2][1] = st.s.arg /\ st.s.arg \in Range(ids)
  BY <1>1, <1>7 DEF Matches
<1> QED
  BY <1>6, <1>8 DEF z

LEMMA GetBodyChosen == ASSUME Types, Format, Chosen, GetBody PROVE Chosen'
<1>1. PICK l \in Lines : GetBodyOf(l)
  BY GetBodyIs
<1>2. Reads(l) /\ ph = "getbody"
  BY <1>1 DEF GetBodyOf
<1>3. /\ pos \in Nat /\ pos' = pos + 1 /\ hdr'[pos'] = l /\ mode' = mode
      /\ \A i \in 1..pos : hdr'[i] = hdr[i]
  BY <1>2, ReadsIs
<1>4. pos >= 1 /\ st.s.type \in {"X25519", "scrypt"} /\ hdr[pos] = Line(st.s.type, st.s.arg)
  BY <1>2 DEF Format
<1>5. Upto = pos - 1 /\ ph \in Parsing
  BY <1>2 DEF Upto, Parsing, Reading
<1>6. CASE ph' \in {"badheader", "zeroshare"}
  BY <1>6 DEF Chosen, Parsing, Reading, Decided
<1>7. CASE l[1] = "wrap" /\ ph' = "getstanza" /\ Taken(l)
  <2> SUFFICES ASSUME mode = "keys", ~st'.seenscrypt
               PROVE  (st'.found <=> MineIn(Upto)' # {}) /\ FirstOf(MineIn(Upto))'
    BY <1>3, <1>7 DEF Chosen
  <2>1. st.s.type = "X25519" /\ ~st.seenscrypt
    BY <1>4, <1>7 DEF Taken
  <2> DEFINE S == MineIn(Upto)
             N == MineIn(Upto)'
             m == Matches([st.s EXCEPT !.body = l[2]])
  <2>2. /\ st'.found <=> st.found \/ m
        /\ st'.fk = IF ~st.found /\ m THEN l[2][2] ELSE st.fk
    BY <1>7, <2>1 DEF Taken
  <2>3. (st.found <=> S # {}) /\ FirstOf(S)
    BY <1>5, <2>1 DEF Chosen
  <2>4. Upto' = pos + 1
    BY <1>3, <1>7 DEF Upto
  <2>5. N = {i \in 1..pos : Mine(i)'} /\ S = {i \in 1..(pos - 2) : Mine(i)}
    BY <1>3, <1>5, <2>4 DEF MineIn
  <2>6. \A i \in 1..(pos - 2) : (Mine(i)' <=> Mine(i)) /\ hdr'[i + 1] = hdr[i + 1]
    <3>1. \A i \in 1..(pos - 1) : (Mine(i)' <=> Mine(i)) /\ hdr'[i + 1] = hdr[i + 1]
      BY <1>2, MineKept
    <3>2. \A i \in 1..(pos - 2) : i \in 1..(pos - 1)
      BY <1>3
    <3> QED
      BY <3>1, <3>2
  <2>7. \A i : i = pos => (Mine(i)' <=> m)
    BY <1>2, <1>4, <1>7, <2>1, TakenMine
  <2>8. ASSUME NEW i, i = pos - 1 PROVE ~Mine(i)'
    <3>1. hdr'[i + 1][1] = "X25519"
      BY <1>3, <1>4, <2>1, <2>8 DEF Line
    <3> QED
      BY <3>1 DEF Mine
  <2>9. \A i \in 1..pos : i \in 1..(pos - 2) \/ i = pos - 1 \/ i = pos
    BY <1>3
  <2>10. \A i \in 1..(pos - 2) : i \in 1..pos /\ i \in Nat /\ i < pos
    BY <1>3
  <2>11. pos \in 1..pos
    BY <1>3, <1>4
  <2>12. \A i : i \in N <=> i \in S \/ (i = pos /\ m)
    BY <2>5, <2>6, <2>7, <2>8, <2>9, <2>10, <2>11
  <2>13. \A i \in S : i \in Nat /\ i < pos /\ hdr'[i + 1] = hdr[i + 1]
    BY <2>5, <2>6, <2>10
  <2>14. FirstOf(MineIn(Upto))' <=> \A i \in N : (\A j \in N : i <= j) => st'.fk = hdr'[i + 1][2][2]
    BY DEF FirstOf
  <2>15. hdr'[pos + 1] = l
    BY <1>3
  <2> HIDE DEF S, N, m
  <2>16. st'.found <=> N # {}
    BY <2>2, <2>3, <2>12
  <2>17. ASSUME NEW i \in N, \A j \in N : i <= j PROVE st'.fk = hdr'[i + 1][2][2]
    <3>1. CASE st.found
      <4>1. PICK j \in S : TRUE
        BY <2>3, <3>1
      <4>2. i \in S
        BY <1>3, <2>12, <2>13, <2>17, <4>1
      <4>3. \A k \in S : i <= k
        BY <2>12, <2>17
      <4> QED
        BY <2>2, <2>3, <2>13, <3>1, <4>2, <4>3 DEF FirstOf
    <3>2. CASE ~st.found
      <4>1. i = pos /\ m
        BY <2>3, <2>12, <2>17, <3>2
      <4> QED
        BY <2>2, <2>15, <3>2, <4>1
    <3> QED
      BY <3>1, <3>2
  <2> QED
    BY <2>14, <2>16, <2>17 DEF N
<1> QED
  BY <1>1, <1>6, <1>7 DEF GetBodyOf

LEMMA QuietChosen == ASSUME Types, Format, Counted, Chosen, Quiet PROVE Chosen'
<1>1. /\ hdr' = hdr /\ pos' = pos /\ mode' = mode /\ ids' = ids
      /\ st'.seenscrypt = st.seenscrypt /\ st'.found = st.found
      /\ mode = "keys" => st' = st
  BY QuietIs DEF Types
<1> SUFFICES ASSUME mode = "keys" PROVE Chosen'
  BY <1>1 DEF Chosen
<1>2. CASE MakeHdrFails \/ HeaderEnds \/ ReadFails
  <2>1. ph' \in {"notwritten", "headerends", "ioerror"}
    BY <1>2 DEF MakeHdrFails, HeaderEnds, ReadFails
  <2> QED
    BY <2>1 DEF Chosen, Parsing, Reading, Decided
<1>3. CASE GetVersion
  <2>1. pos = 0 /\ st = Start
    BY <1>3 DEF GetVersion, Format, Writing
  <2>2. ph' \in {"getstanza", "badversion"}
    BY <1>3 DEF GetVersion
  <2>3. ~st'.found
    BY <1>1, <2>1 DEF Start
  <2>4. ph' = "getstanza" => MineIn(Upto)' = {}
    <3>1. ph' = "getstanza" => Upto' = 0
      BY <1>1, <2>1 DEF Upto
    <3> QED
      BY <3>1 DEF MineIn
  <2> QED
    BY <2>2, <2>3, <2>4 DEF Chosen, Parsing, Reading, Decided, FirstOf
<1>4. CASE Decipher \/ DecipherPassphrase \/ RecStop \/ ValidateMac
  <2>1. ph \in {"matched", "validatemac"} /\ (ph = "matched" \/ RecStop \/ ValidateMac)
    BY <1>4 DEF Decipher, DecipherPassphrase, RecStop, ValidateMac
  <2>2. /\ ph' \in Decided /\ (ph' = "nomatch" => ~st.found)
        /\ ph' \in {"validatemac", "payload", "badmac"} => st.found
    <3>1. CASE Decipher
      BY <3>1 DEF Decipher, Decided
    <3>2. CASE DecipherPassphrase
      BY <3>2 DEF DecipherPassphrase
    <3>3. CASE RecStop \/ ValidateMac
      BY <3>3 DEF RecStop, ValidateMac, Decided, Chosen
    <3> QED
      BY <1>4, <3>1, <3>2, <3>3
  <2>3. ph \in Parsing /\ ph \notin {"getstanza", "skipargbody"} /\ ph' \notin {"getstanza", "skipargbody"}
    BY <2>1, <2>2 DEF Decided, Parsing
  <2>4. Upto' = Upto
    BY <1>1, <2>3 DEF Upto
  <2>5. MineIn(Upto)' = MineIn(Upto)
    BY <1>1, <2>4 DEF MineIn, Mine
  <2>6. ~st.seenscrypt => (st.found <=> MineIn(Upto) # {}) /\ FirstOf(MineIn(Upto))
    BY <2>3 DEF Chosen
  <2>7. FirstOf(MineIn(Upto))' <=> FirstOf(MineIn(Upto))
    BY <1>1, <2>5 DEF FirstOf
  <2> QED
    BY <1>1, <2>2, <2>5, <2>6, <2>7 DEF Chosen
<1> QED
  BY <1>2, <1>3, <1>4 DEF Quiet

LEMMA WritingChosen ==
    ASSUME Types, Format, X25519Stanza \/ ScryptStanza \/ HdrFinish \/ Damage
    PROVE  Chosen'
<1>1. ph' \in Writing
  BY DEF X25519Stanza, ScryptStanza, HdrFinish, Damage, Writing
<1> QED
  BY <1>1 DEF Chosen, Parsing, Reading, Writing, Decided

-----------------------------------------------------------------------------
(* What stands where a key is used. *)

LEMMA AloneKeeps == ASSUME Types, Counted, Alone, Quiet PROVE Alone'
<1>1. /\ hdr' = hdr /\ pos' = pos /\ mode' = mode /\ st'.seenscrypt = st.seenscrypt
  BY QuietIs
<1>2. st.n \in Nat /\ pos \in Nat
  BY LocalsAre, LenProperties DEF Types
<1>3. CASE Decipher
  <2>1. ph = "matched" /\ mode = "keys"
    BY <1>3 DEF Decipher
  <2> SUFFICES ASSUME ph' \in {"nomemory", "wrongpassphrase", "validatemac", "payload", "badmac"}
               PROVE  ~st.seenscrypt
    BY <1>1, <2>1 DEF Alone
  <2>2. ~NotAlone /\ st.found /\ st.s.type # "scrypt"
    BY <1>3 DEF Decipher
  <2>3. st.seenscrypt => st.n >= 1 /\ (st.n = 1 => st.s.type = "scrypt")
    BY <2>1 DEF Counted, Decided
  <2> QED
    BY <1>2, <2>2, <2>3 DEF NotAlone
<1>4. CASE DecipherPassphrase
  <2>1. ph = "matched" /\ mode = "pass"
    BY <1>4 DEF DecipherPassphrase
  <2> SUFFICES ASSUME ph' \in {"nomemory", "wrongpassphrase", "validatemac", "payload", "badmac"}
               PROVE  pos = 3 /\ hdr[1][1] = "scrypt" /\ hdr[1][2] <= MaxCostIn
    BY <1>1, <2>1 DEF Alone
  <2>2. ~NotAlone /\ st.s.type = "scrypt" /\ ~CostTooLarge
    BY <1>4 DEF DecipherPassphrase
  <2>3. st.seenscrypt /\ st.n >= 1 /\ (st.n = 1 => Upto = 2 /\ hdr[1][1] = "scrypt" /\ hdr[1][2] = st.s.arg)
    BY <2>1, <2>2 DEF Counted, Decided
  <2>4. Upto = pos - 1
    BY <2>1 DEF Upto
  <2>5. st.n = 1
    BY <1>2, <2>2, <2>3 DEF NotAlone
  <2>6. pos = 3 /\ hdr[1] \in Lines
    BY <1>2, <2>3, <2>4, <2>5, ElementOfSeq DEF Types
  <2>7. hdr[1][2] \in Nat
    BY <2>3, <2>5, <2>6, CostIs
  <2> QED
    BY <2>2, <2>3, <2>5, <2>6, <2>7, CostAssumption DEF CostTooLarge
<1>5. CASE RecStop \/ ValidateMac
  BY <1>1, <1>5 DEF RecStop, ValidateMac, Alone
<1>6. CASE MakeHdrFails \/ GetVersion \/ HeaderEnds \/ ReadFails
  BY <1>6 DEF MakeHdrFails, GetVersion, HeaderEnds, ReadFails, Alone
<1> QED
  BY <1>3, <1>4, <1>5, <1>6 DEF Quiet

\* Elsewhere no key is used.
LEMMA NotYet ==
    ASSUME ph' \in Writing \cup Reading \cup {"matched", "badheader", "zeroshare"}
    PROVE  Alone'
  BY DEF Alone, Writing, Reading

-----------------------------------------------------------------------------
(* An intact header. *)

\* The lines of a header for keys, one by one.
LEMMA KeysLine ==
    ASSUME NEW h, ForKeys(h), NEW i \in 1..Len(h)
    PROVE  \/ /\ i < Len(h)
              /\ \E k \in Keys : h[i] = ShareOf(k) /\ h[i][1] = "X25519" /\ h[i] # End /\ h[i + 1] = Wrap(k, "this")
           \/ h[i][1] = "wrap" /\ i < Len(h) /\ (h[i + 1][1] = "X25519" \/ h[i + 1] = End) /\ h[i] # End
           \/ h[i] = End /\ h[i][1] = "end" /\ i = Len(h)
<1>1. End[1] = "end" /\ \A k : ShareOf(k)[1] = "X25519"
  BY DEF End, ShareOf, Line
<1>2. \/ ForKey(h, i)
      \/ /\ h[i][1] = "wrap" /\ i < Len(h)
         /\ h[i + 1][1] = "X25519" \/ h[i + 1] = End
      \/ h[i] = End /\ i = Len(h)
  BY DEF ForKeys
<1> QED
  BY <1>1, <1>2 DEF ForKey

LEMMA PassLines ==
    ASSUME NEW h, ForPassphrase(h)
    PROVE  /\ Len(h) = 3 /\ h[1] = Line("scrypt", h[1][2]) /\ h[1][1] = "scrypt" /\ h[1][2] \in MinCost..MaxCost
           /\ h[2] = Wrap(Pass, "this") /\ h[2][1] = "wrap" /\ h[2][2] = <<Pass, "this">>
           /\ h[3] = End /\ h[3][1] = "end"
<1>1. PICK c \in MinCost..MaxCost : h = <<Line("scrypt", c), Wrap(Pass, "this"), End>>
  BY DEF ForPassphrase
<1>2. Len(h) = 3 /\ h[1] = Line("scrypt", c) /\ h[2] = Wrap(Pass, "this") /\ h[3] = End
  BY <1>1
<1> QED
  BY <1>2 DEF Line, Wrap, End

\* What the parser meets in it next.
LEMMA KeysNext ==
    ASSUME Types, Format, Unchanged, Intact, ForKeys(sent), ph \in Reading
    PROVE  /\ hdr = sent /\ pos < Len(hdr)
           /\ \/ ph = "getstanza" /\ (hdr[pos + 1] = End \/ hdr[pos + 1][1] = "X25519")
              \/ /\ ph = "getbody" /\ st.s.type = "X25519" /\ st.s.arg \in Keys
                 /\ hdr[pos + 1] = Wrap(st.s.arg, "this")
<1>1. hdr = sent /\ ph # "skipargbody" /\ ForKeys(hdr)
  BY DEF Unchanged, Reading
<1>2. Len(hdr) \in Nat /\ pos \in Nat /\ pos <= Len(hdr) /\ hdr \in Seq(Lines)
  BY LenProperties DEF Types
<1>3. hdr # <<>> /\ hdr[1][1] = "X25519"
  BY <1>1 DEF ForKeys
<1>4. Len(hdr) > 0
  BY <1>2, <1>3, EmptySeq
<1>5. CASE ph = "getstanza"
  <2>1. CASE pos = 0
    BY <1>1, <1>3, <1>4, <1>5, <2>1
  <2>2. CASE pos # 0
    <3>1. hdr[pos][1] \in {"short", "wrap"} /\ pos \in 1..Len(hdr)
      BY <1>2, <1>5, <2>2 DEF Format
    <3>2. hdr[pos][1] = "wrap" /\ pos < Len(hdr) /\ (hdr[pos + 1][1] = "X25519" \/ hdr[pos + 1] = End)
      BY <1>1, <3>1, KeysLine
    <3> QED
      BY <1>1, <1>5, <3>2
  <2> QED
    BY <2>1, <2>2
<1>6. CASE ph = "getbody"
  <2>1. /\ pos \in 1..Len(hdr) /\ st.s.type \in {"X25519", "scrypt"} /\ hdr[pos] = Line(st.s.type, st.s.arg)
        /\ hdr[pos][1] = st.s.type /\ hdr[pos][2] = st.s.arg
    BY <1>2, <1>6 DEF Format, Line
  <2>2. /\ pos < Len(hdr)
        /\ \E k \in Keys : hdr[pos] = ShareOf(k) /\ hdr[pos][1] = "X25519" /\ hdr[pos + 1] = Wrap(k, "this")
    BY <1>1, <2>1, KeysLine
  <2>3. \A k : hdr[pos] = ShareOf(k) => k = st.s.arg
    BY <2>1 DEF ShareOf, Line
  <2> QED
    BY <1>1, <1>6, <2>1, <2>2, <2>3
<1> QED
  BY <1>1, <1>5, <1>6 DEF Reading

LEMMA PassNext ==
    ASSUME Types, Format, Unchanged, Intact, ForPassphrase(sent), ph \in Reading
    PROVE  /\ hdr = sent /\ pos < Len(hdr)
           /\ \/ ph = "getstanza" /\ pos = 0 /\ hdr[pos + 1][1] = "scrypt"
              \/ ph = "getstanza" /\ pos = 2 /\ hdr[pos + 1] = End
              \/ /\ ph = "getbody" /\ pos = 1 /\ st.s.type = "scrypt" /\ st.s.arg = sent[1][2]
                 /\ hdr[pos + 1] = Wrap(Pass, "this")
<1>1. hdr = sent /\ ph # "skipargbody"
  BY DEF Unchanged, Reading
<1>2. pos \in Nat /\ pos <= Len(hdr)
  BY LenProperties DEF Types
<1>3. /\ Len(hdr) = 3 /\ hdr[1] = Line("scrypt", hdr[1][2]) /\ hdr[1][1] = "scrypt"
      /\ hdr[2] = Wrap(Pass, "this") /\ hdr[2][1] = "wrap" /\ hdr[3] = End /\ hdr[3][1] = "end"
  BY <1>1, PassLines
<1>4. pos \in {0, 1, 2, 3}
  BY <1>2, <1>3
<1>5. CASE ph = "getstanza"
  <2>1. pos = 0 \/ hdr[pos][1] \in {"short", "wrap"}
    BY <1>5 DEF Format
  <2>2. pos = 0 \/ pos = 2
    BY <1>3, <1>4, <2>1
  <2> QED
    BY <1>1, <1>3, <1>5, <2>2
<1>6. CASE ph = "getbody"
  <2>1. /\ pos >= 1 /\ st.s.type \in {"X25519", "scrypt"} /\ hdr[pos] = Line(st.s.type, st.s.arg)
        /\ hdr[pos][1] = st.s.type /\ hdr[pos][2] = st.s.arg
    BY <1>6 DEF Format, Line
  <2>2. pos = 1
    BY <1>3, <1>4, <2>1
  <2> QED
    BY <1>1, <1>3, <1>6, <2>1, <2>2
<1> QED
  BY <1>1, <1>5, <1>6 DEF Reading

\* Its end is the end of the file's header.
LEMMA SentEnds ==
    ASSUME Types, Format, Unchanged, Intact, ph \in Decided
    PROVE  hdr = sent /\ pos = Len(hdr) /\ SubSeq(hdr, 1, pos) = sent
<1>1. hdr = sent /\ (ForKeys(hdr) \/ ForPassphrase(hdr))
  BY DEF Unchanged, Decided
<1>2. Len(hdr) \in Nat /\ pos \in 1..Len(hdr) /\ hdr \in Seq(Lines) /\ hdr[pos] = End
  BY LenProperties DEF Types, Format
<1>3. pos = Len(hdr)
  <2>1. CASE ForKeys(hdr)
    BY <1>2, <2>1, KeysLine
  <2>2. CASE ForPassphrase(hdr)
    <3>1. /\ Len(hdr) = 3 /\ hdr[1][1] = "scrypt" /\ hdr[2][1] = "wrap"
      BY <2>2, PassLines
    <3>2. hdr[pos][1] = "end"
      BY <1>2 DEF End, Line
    <3>3. pos \in {1, 2, 3}
      BY <1>2, <3>1
    <3> QED
      BY <3>1, <3>2, <3>3
  <2> QED
    BY <1>1, <2>1, <2>2
<1>4. SubSeq(hdr, 1, Len(hdr)) = hdr
  BY <1>2, SubSeqFull
<1> QED
  BY <1>1, <1>3, <1>4

LEMMA Appended ==
    \A h \in Seq(Lines), z \in Lines :
        /\ Append(h, z) \in Seq(Lines) /\ Len(Append(h, z)) = Len(h) + 1 /\ Append(h, z)[Len(h) + 1] = z
        /\ \A i \in 1..Len(h) : Append(h, z)[i] = h[i]
  BY AppendProperties

LEMMA Three ==
    ASSUME NEW x \in Lines, NEW y \in Lines, NEW z \in Lines
    PROVE  Append(<<x, y>>, z) = <<x, y, z>>
<1>1. <<x, y>> \in Seq(Lines) /\ Len(<<x, y>>) = 2 /\ <<x, y>>[1] = x /\ <<x, y>>[2] = y
  BY Two
<1> DEFINE p == <<x, y>>
           a == Append(p, z)
           t == <<x, y, z>>
<1>2. t \in Seq(Lines) /\ Len(t) = 3 /\ t[1] = x /\ t[2] = y /\ t[3] = z
  OBVIOUS
<1> HIDE DEF p, t
<1>3. a \in Seq(Lines) /\ Len(a) = 3 /\ a[1] = x /\ a[2] = y /\ a[3] = z
  <2>1. p \in Seq(Lines) /\ Len(p) = 2 /\ p[1] = x /\ p[2] = y
    BY <1>1 DEF p
  <2>2. /\ a \in Seq(Lines) /\ Len(a) = Len(p) + 1 /\ a[Len(p) + 1] = z
        /\ \A i \in 1..Len(p) : a[i] = p[i]
    BY <2>1, Appended
  <2> HIDE DEF a
  <2>3. 1 \in 1..Len(p) /\ 2 \in 1..Len(p) /\ Len(p) + 1 = 3
    BY <2>1
  <2> QED
    BY <2>1, <2>2, <2>3
<1> HIDE DEF a
<1>4. \A i \in 1..3 : a[i] = t[i]
  <2>1. \A i \in 1..3 : i = 1 \/ i = 2 \/ i = 3
    OBVIOUS
  <2> QED
    BY <1>2, <1>3, <2>1
<1>5. a = t
  BY <1>2, <1>3, <1>4, SeqEqual
<1> QED
  BY <1>5 DEF a, t, p

\* The package's recipients one after another.
LEMMA OneMore ==
    ASSUME NEW h \in Seq(Lines), Unfinished(h), NEW k \in Keys
    PROVE  Unfinished(h \o <<ShareOf(k), Wrap(k, "this")>>)
<1> DEFINE t == <<ShareOf(k), Wrap(k, "this")>>
           g == h \o t
           n == Len(h)
<1>1. t \in Seq(Lines) /\ Len(t) = 2 /\ t[1] = ShareOf(k) /\ t[2] = Wrap(k, "this")
  BY Written, Two
<1>2. n \in Nat
  BY LenProperties
<1> HIDE DEF t
<1>3. /\ Len(g) = n + 2 /\ g \in Seq(Lines)
      /\ \A i \in 1..n : g[i] = h[i]
      /\ g[n + 1] = ShareOf(k) /\ g[n + 2] = Wrap(k, "this")
  <2>1. /\ g \in Seq(Lines) /\ Len(g) = Len(h) + Len(t)
        /\ \A i \in 1..(Len(h) + Len(t)) : g[i] = IF i <= Len(h) THEN h[i] ELSE t[i - Len(h)]
    BY <1>1, ConcatProperties
  <2>2. n + 1 - n = 1 /\ n + 2 - n = 2
    BY <1>2
  <2> QED
    BY <1>1, <1>2, <2>1, <2>2
<1> HIDE DEF g, n
<1>4. ShareOf(k)[1] = "X25519" /\ Wrap(k, "this")[1] = "wrap"
  BY DEF ShareOf, Wrap, Line
<1>5. g[1][1] = "X25519"
  <2>1. CASE n = 0
    BY <1>3, <1>4, <2>1
  <2>2. CASE n # 0
    <3>1. h # <<>> /\ 1 \in 1..n
      BY <1>2, <2>2 DEF n
    <3> QED
      BY <1>3, <3>1 DEF Unfinished
  <2> QED
    BY <2>1, <2>2
<1>6. ASSUME NEW i \in 1..(n + 2)
      PROVE  \/ ForKey(g, i)
             \/ g[i][1] = "wrap" /\ (i < n + 2 => g[i + 1][1] = "X25519")
  <2>1. i \in 1..n \/ i = n + 1 \/ i = n + 2
    BY <1>2, <1>6
  <2>2. CASE i \in 1..n
    <3>1. ForKey(h, i) \/ (h[i][1] = "wrap" /\ (i < n => h[i + 1][1] = "X25519"))
      BY <2>2 DEF Unfinished, n
    <3>2. g[i] = h[i] /\ i < n + 2 /\ (i < n => g[i + 1] = h[i + 1]) /\ (i < n \/ i = n)
      BY <1>2, <1>3, <2>2
    <3>3. ForKey(h, i) => ForKey(g, i)
      BY <1>3, <3>2 DEF ForKey, n
    <3>4. i = n => g[i + 1][1] = "X25519"
      BY <1>3, <1>4
    <3> QED
      BY <3>1, <3>2, <3>3, <3>4
  <2>3. CASE i = n + 1
    <3>1. i < Len(g) /\ g[i] = ShareOf(k) /\ g[i + 1] = Wrap(k, "this")
      BY <1>2, <1>3, <2>3
    <3> QED
      BY <3>1 DEF ForKey
  <2>4. CASE i = n + 2
    BY <1>2, <1>3, <1>4, <2>4
  <2> QED
    BY <2>1, <2>2, <2>3, <2>4
<1>7. Unfinished(g)
  BY <1>3, <1>5, <1>6 DEF Unfinished
<1> QED
  BY <1>7 DEF g, t

LEMMA AllOfThem ==
    ASSUME NEW h \in Seq(Lines), Unfinished(h), h # <<>>
    PROVE  ForKeys(Append(h, End))
<1> DEFINE g == Append(h, End)
           n == Len(h)
<1>1. n \in Nat /\ n > 0
  BY LenProperties, EmptySeq
<1>2. /\ Len(g) = n + 1 /\ g[n + 1] = End /\ g # <<>>
      /\ \A i \in 1..n : g[i] = h[i]
  <2>1. End \in Lines
    BY Written
  <2>2. Len(g) = n + 1 /\ g[n + 1] = End /\ \A i \in 1..n : g[i] = h[i]
    BY <2>1, AppendProperties
  <2> QED
    BY <1>1, <2>2
<1> HIDE DEF g, n
<1>3. g[1][1] = "X25519"
  BY <1>1, <1>2 DEF Unfinished
<1>4. ASSUME NEW i \in 1..(n + 1)
      PROVE  \/ ForKey(g, i)
             \/ g[i][1] = "wrap" /\ i < Len(g) /\ (g[i + 1][1] = "X25519" \/ g[i + 1] = End)
             \/ g[i] = End /\ i = Len(g)
  <2>1. i \in 1..n \/ i = n + 1
    BY <1>1, <1>4
  <2>2. CASE i \in 1..n
    <3>1. ForKey(h, i) \/ (h[i][1] = "wrap" /\ (i < n => h[i + 1][1] = "X25519"))
      BY <2>2 DEF Unfinished, n
    <3>2. g[i] = h[i] /\ i < Len(g) /\ (i < n => g[i + 1] = h[i + 1]) /\ (i < n \/ i = n)
      BY <1>1, <1>2, <2>2
    <3>3. ForKey(h, i) => ForKey(g, i)
      BY <3>2 DEF ForKey, n
    <3>4. i = n => g[i + 1] = End
      BY <1>2
    <3> QED
      BY <3>1, <3>2, <3>3, <3>4
  <2>3. CASE i = n + 1
    BY <1>2, <2>3
  <2> QED
    BY <2>1, <2>2, <2>3
<1>5. ForKeys(g)
  BY <1>2, <1>3, <1>4 DEF ForKeys
<1> QED
  BY <1>5 DEF g

LEMMA WritingUnchanged ==
    ASSUME Types, Unchanged, X25519Stanza \/ ScryptStanza \/ HdrFinish \/ Damage
    PROVE  Unchanged'
<1>1. hdr \in Seq(Lines) /\ edits \in Nat
  BY DEF Types
<1>2. CASE X25519Stanza
  <2>1. PICK k \in Keys : hdr' = hdr \o <<ShareOf(k), Wrap(k, "this")>>
    BY <1>2 DEF X25519Stanza
  <2>2. ph = "makehdr" /\ ph' = ph /\ by' = by /\ \A i \in 1..Len(hdr) : hdr[i][1] # "scrypt"
    BY <1>2 DEF X25519Stanza
  <2>3. by = "package" /\ (Unfinished(hdr) \/ \E c \in MinCost..MaxCost :
                                              hdr = <<Line("scrypt", c), Wrap(Pass, "this")>>)
    BY <2>2 DEF Unchanged
  <2>4. \A c : hdr = <<Line("scrypt", c), Wrap(Pass, "this")>> => 1 \in 1..Len(hdr) /\ hdr[1][1] = "scrypt"
    BY DEF Line
  <2>5. Unfinished(hdr)
    BY <2>2, <2>3, <2>4
  <2>6. Unfinished(hdr')
    BY <1>1, <2>1, <2>5, OneMore
  <2> QED
    BY <2>2, <2>3, <2>6 DEF Unchanged
<1>3. CASE ScryptStanza
  BY <1>3 DEF ScryptStanza, Unchanged
<1>4. CASE HdrFinish
  <2>1. ph = "makehdr" /\ hdr # <<>> /\ hdr' = Append(hdr, End) /\ sent' = hdr' /\ ph' = "transport"
    BY <1>4 DEF HdrFinish
  <2>2. ForKeys(sent') \/ ForPassphrase(sent')
    <3>1. CASE Unfinished(hdr)
      BY <1>1, <2>1, <3>1, AllOfThem
    <3>2. CASE \E c \in MinCost..MaxCost : hdr = <<Line("scrypt", c), Wrap(Pass, "this")>>
      <4>1. PICK c \in MinCost..MaxCost : hdr = <<Line("scrypt", c), Wrap(Pass, "this")>>
        BY <3>2
      <4>2. Append(hdr, End) = <<Line("scrypt", c), Wrap(Pass, "this"), End>>
        BY <4>1, Written, Three
      <4> QED
        BY <2>1, <4>2 DEF ForPassphrase
    <3> QED
      BY <2>1, <3>1, <3>2 DEF Unchanged
  <2> QED
    BY <2>1, <2>2 DEF Unchanged
<1>5. CASE Damage
  <2>1. ph' = "transport" /\ edits' = edits + 1
    BY <1>5 DEF Damage
  <2>2. edits' # 0
    BY <1>1, <2>1
  <2> QED
    BY <2>1, <2>2 DEF Unchanged, Intact
<1> QED
  BY <1>2, <1>3, <1>4, <1>5

\* A header that came as it was sent is read to its end without a complaint.
LEMMA ReadingUnchanged ==
    ASSUME Types, Format, Unchanged, GetStanza \/ SkipArgBody \/ GetBody
    PROVE  Unchanged'
<1>1. ph \in Reading /\ ph' # "makehdr" /\ by' = by /\ edits' = edits /\ sent' = sent
  <2>1. \E l \in Lines : Reads(l)
    BY DEF GetStanza, SkipArgBody, GetBody
  <2>2. by' = by /\ edits' = edits /\ sent' = sent
    BY <2>1 DEF Reads
  <2>3. CASE GetStanza
    BY <2>2, <2>3, GetStanzaIs DEF GetStanzaOf, Reading
  <2>4. CASE SkipArgBody
    BY <2>2, <2>4, SkipArgBodyIs DEF SkipArgBodyOf, Reading
  <2>5. CASE GetBody
    BY <2>2, <2>5, GetBodyIs DEF GetBodyOf, Reading
  <2> QED
    BY <2>3, <2>4, <2>5
<1> SUFFICES ASSUME Intact
             PROVE  hdr' = sent /\ ph' \notin {"skipargbody", "badheader", "headerends", "badversion", "zeroshare"}
  <2>1. ph \notin {"makehdr", "notwritten"}
    BY <1>1 DEF Reading
  <2> QED
    BY <1>1, <2>1 DEF Unchanged, Intact
<1>2. hdr = sent /\ ph # "skipargbody" /\ (ForKeys(sent) \/ ForPassphrase(sent)) /\ by = "package"
  BY <1>1 DEF Unchanged, Intact, Reading
<1>3. hdr' = hdr
  <2>1. \E l \in Lines : Reads(l)
    BY DEF GetStanza, SkipArgBody, GetBody
  <2> QED
    BY <1>2, <2>1 DEF Reads
<1>4. \/ ph = "getstanza" /\ (hdr[pos + 1] = End \/ hdr[pos + 1][1] \in {"X25519", "scrypt"})
      \/ ph = "getbody" /\ hdr[pos + 1][1] = "wrap" /\ ~(st.s.type = "X25519" /\ st.s.arg = Zero)
  <2>1. \A k : Wrap(k, "this")[1] = "wrap"
    BY DEF Wrap, Line
  <2>2. CASE ForKeys(sent)
    BY <1>1, <2>1, <2>2, KeysNext, KeyAssumption
  <2>3. CASE ForPassphrase(sent)
    BY <1>1, <2>1, <2>3, PassNext
  <2> QED
    BY <1>2, <2>2, <2>3
<1>5. \A l \in Lines : Reads(l) => l = hdr[pos + 1]
  <2>1. ASSUME NEW l \in Lines, Reads(l) PROVE l = hdr[pos + 1]
    BY <1>2, <2>1 DEF Reads
  <2> QED
    BY <2>1
<1>6. CASE ph = "getstanza"
  <2>1. PICK l \in Lines : GetStanzaOf(l)
    BY <1>6, GetStanzaIs DEF SkipArgBody, GetBody
  <2>2. l = End \/ l[1] \in {"X25519", "scrypt"}
    BY <1>4, <1>5, <1>6, <2>1 DEF GetStanzaOf
  <2> QED
    BY <1>2, <1>3, <2>1, <2>2 DEF GetStanzaOf, Openings, End, Line
<1>7. CASE ph = "getbody"
  <2>1. PICK l \in Lines : GetBodyOf(l)
    BY <1>7, GetBodyIs DEF SkipArgBody, GetStanza
  <2>2. l[1] = "wrap"
    BY <1>4, <1>5, <1>7, <2>1 DEF GetBodyOf
  <2> QED
    BY <1>2, <1>3, <1>4, <1>7, <2>1, <2>2 DEF GetBodyOf
<1> QED
  BY <1>4, <1>6, <1>7

\* A change to the MAC line is a change.
LEMMA MacLine == ASSUME Types, ValidateMac, Intact' PROVE edits' = edits
<1>1. edits \in Nat /\ edits' = 0
  BY DEF Types, Intact
<1>2. edits + 1 # 0
  BY <1>1
<1> QED
  BY <1>1, <1>2 DEF ValidateMac

LEMMA QuietUnchanged == ASSUME Types, Format, Unchanged, Quiet PROVE Unchanged'
<1>1. hdr' = hdr /\ sent' = sent /\ by' = by
  BY QuietIs
<1>2. CASE MakeHdrFails \/ ReadFails
  <2>1. ph' \in {"notwritten", "ioerror"} /\ edits' = edits /\ (ph' = "ioerror" => ph \notin {"makehdr", "notwritten"})
    BY <1>2 DEF MakeHdrFails, ReadFails
  <2> QED
    BY <1>1, <2>1 DEF Unchanged, Intact
<1>3. CASE GetVersion
  <2>1. ph = "transport" /\ ((ph' = "getstanza" /\ edits' = edits) \/ (ph' = "badversion" /\ edits' = edits + 1))
    BY <1>3 DEF GetVersion
  <2>2. edits \in Nat
    BY DEF Types
  <2>3. Intact' => Intact /\ ph' = "getstanza"
    BY <1>1, <2>1, <2>2 DEF Intact
  <2> QED
    BY <1>1, <2>1, <2>3 DEF Unchanged
<1>4. CASE HeaderEnds
  <2>1. ph \in Reading /\ pos = Len(hdr) /\ ph' = "headerends" /\ edits' = edits
    BY <1>4 DEF HeaderEnds, Reading
  <2>2. Len(hdr) \in Nat
    BY LenProperties DEF Types
  <2>3. ~Intact
    <3> SUFFICES ASSUME Intact PROVE FALSE
      OBVIOUS
    <3>1. ForKeys(sent) \/ ForPassphrase(sent)
      BY <2>1 DEF Unchanged, Reading
    <3>2. pos < Len(hdr)
      BY <2>1, <3>1, KeysNext, PassNext
    <3> QED
      BY <2>1, <2>2, <3>2
  <2> QED
    BY <1>1, <2>1, <2>3 DEF Unchanged, Intact
<1>5. CASE Decipher \/ DecipherPassphrase \/ RecStop \/ ValidateMac
  <2>1. ph \in {"matched", "validatemac"} /\ (Intact' => Intact)
    BY <1>1, <1>5, MacLine DEF Decipher, DecipherPassphrase, RecStop, ValidateMac, Intact
  <2>2. ph' \in Decided
    <3>1. CASE Decipher
      BY <3>1 DEF Decipher, Decided
    <3>2. CASE DecipherPassphrase
      BY <3>2 DEF DecipherPassphrase, Decided
    <3>3. CASE RecStop \/ ValidateMac
      BY <3>3 DEF RecStop, ValidateMac, Decided
    <3> QED
      BY <1>5, <3>1, <3>2, <3>3
  <2> QED
    BY <1>1, <2>1, <2>2 DEF Unchanged, Intact, Decided
<1> QED
  BY <1>2, <1>3, <1>4, <1>5 DEF Quiet

-----------------------------------------------------------------------------
(* Those who can open it do. *)

LEMMA WritingOpens ==
    ASSUME Types, Format, X25519Stanza \/ ScryptStanza \/ HdrFinish \/ Damage
    PROVE  Opens'
<1>1. st' = Start
  BY WritingTypes
<1>2. CASE ph' = "makehdr"
  BY <1>2 DEF Opens
<1>3. CASE HdrFinish
  <2>1. ph' = "transport"
    BY <1>3 DEF HdrFinish
  <2>2. KeysOpen' /\ PassOpens'
    BY <1>1, <2>1 DEF KeysOpen, PassOpens, Start, Decided, Refusals, Refused
  <2> QED
    BY <2>2 DEF Opens
<1>4. CASE Damage
  <2>1. edits' = edits + 1 /\ edits \in Nat
    BY <1>4 DEF Damage, Types
  <2>2. edits' # 0
    BY <2>1
  <2> QED
    BY <2>2 DEF Opens, Intact
<1> QED
  BY <1>2, <1>3, <1>4 DEF X25519Stanza, ScryptStanza

LEMMA GetStanzaOpens == ASSUME Types, Format, Unchanged, Unchanged', Opens, GetStanza PROVE Opens'
<1>1. PICK l \in Lines : GetStanzaOf(l)
  BY GetStanzaIs
<1>2. Reads(l) /\ ph = "getstanza"
  BY <1>1 DEF GetStanzaOf
<1>3. pos' = pos + 1 /\ by' = by /\ sent' = sent /\ edits' = edits /\ mode' = mode /\ ids' = ids /\ pos \in Nat
  BY <1>2, ReadsIs
<1> SUFFICES ASSUME Intact PROVE /\ ForKeys(sent) => KeysOpen'
                                 /\ ForPassphrase(sent) /\ mode = "pass" /\ RightPass => PassOpens'
  BY <1>3 DEF Opens, Intact, RightPass
<1>4. ph' \notin {"skipargbody", "badheader"}
  BY <1>1, <1>3 DEF Unchanged, Intact, GetStanzaOf
<1>5. /\ ph' \in {"matched", "getbody"} /\ (ph' = "matched" => st' = st) /\ SameCounts
      /\ ph' = "matched" => l = End
  BY <1>1, <1>4 DEF GetStanzaOf, Begun, SameCounts
<1>6. ph' \notin Refusals \cup {"validatemac", "payload", "badmac"} /\ ~Refused'
  BY <1>5 DEF Refusals, Refused
<1>7. ASSUME ForKeys(sent) PROVE KeysOpen'
  <2>1. KeysOpen
    BY <1>2, <1>7 DEF Opens
  <2> QED
    BY <1>3, <1>5, <1>6, <2>1 DEF KeysOpen, SameCounts
<1>8. ASSUME ForPassphrase(sent), mode = "pass", RightPass PROVE PassOpens'
  <2>1. PassOpens
    BY <1>2, <1>8 DEF Opens
  <2>2. (pos = 0 /\ hdr[pos + 1][1] = "scrypt") \/ pos = 2
    BY <1>2, <1>8, PassNext DEF Reading
  <2>3. l = hdr[pos + 1]
    BY <1>2 DEF Reads, Intact
  <2>4. CASE ph' = "getbody"
    BY <1>6, <2>4 DEF PassOpens, Decided
  <2>5. CASE ph' = "matched"
    <3>1. pos = 2
      BY <1>5, <2>2, <2>3, <2>5 DEF End, Line
    <3>2. st' = st
      BY <1>5, <2>5
    <3> QED
      BY <1>2, <1>3, <1>6, <2>1, <3>1, <3>2 DEF PassOpens
  <2> QED
    BY <1>5, <2>4, <2>5
<1> QED
  BY <1>7, <1>8

LEMMA GetBodyOpens == ASSUME Types, Format, Counted, Unchanged, Unchanged', Opens, GetBody PROVE Opens'
<1>1. PICK l \in Lines : GetBodyOf(l)
  BY GetBodyIs
<1>2. Reads(l) /\ ph = "getbody"
  BY <1>1 DEF GetBodyOf
<1>3. pos' = pos + 1 /\ by' = by /\ sent' = sent /\ edits' = edits /\ mode' = mode /\ ids' = ids /\ pos \in Nat
  BY <1>2, ReadsIs
<1> SUFFICES ASSUME Intact PROVE /\ ForKeys(sent) => KeysOpen'
                                 /\ ForPassphrase(sent) /\ mode = "pass" /\ RightPass => PassOpens'
  BY <1>3 DEF Opens, Intact, RightPass
<1>4. ph' \notin {"zeroshare", "badheader"}
  BY <1>1, <1>3 DEF Unchanged, Intact, GetBodyOf
<1>5. ph' = "getstanza" /\ Taken(l)
  BY <1>1, <1>4 DEF GetBodyOf
<1>6. ph' \notin Refusals \cup {"validatemac", "payload", "badmac"} /\ ~Refused'
  BY <1>5 DEF Refusals, Refused
<1>7. l = hdr[pos + 1]
  BY <1>2 DEF Reads, Intact
<1>8. st \in Locals /\ st.n \in Nat /\ st.found \in BOOLEAN
  BY LocalsAre DEF Types
<1>9. ASSUME ForKeys(sent) PROVE KeysOpen'
  <2>1. KeysOpen
    BY <1>2, <1>9 DEF Opens
  <2>2. st.s.type = "X25519" /\ l = Wrap(st.s.arg, "this")
    BY <1>2, <1>7, <1>9, KeysNext DEF Reading
  <2>3. l[2][2] = "this"
    BY <2>2 DEF Wrap, Line
  <2> DEFINE m == Matches([st.s EXCEPT !.body = l[2]])
  <2>4. /\ st'.seenscrypt <=> st.seenscrypt
        /\ mode = "keys" => /\ st'.found <=> st.found \/ m
                            /\ st'.fk = IF ~st.found /\ m THEN "this" ELSE st.fk
    BY <1>5, <2>2, <2>3 DEF Taken
  <2> HIDE DEF m
  <2>5. mode = "keys" => st'.fk = IF st'.found THEN "this" ELSE "none"
    BY <1>8, <2>1, <2>4 DEF KeysOpen
  <2> QED
    BY <1>3, <1>6, <2>1, <2>4, <2>5 DEF KeysOpen
<1>10. ASSUME ForPassphrase(sent), mode = "pass", RightPass PROVE PassOpens'
  <2>1. pos = 1 /\ st.s.type = "scrypt" /\ st.s.arg = sent[1][2] /\ l = Wrap(Pass, "this")
    BY <1>2, <1>7, <1>10, PassNext DEF Reading
  <2>2. l[2] = <<Pass, "this">>
    BY <2>1 DEF Wrap, Line
  <2>3. st.n = 0
    <3>1. Upto = 0
      BY <1>2, <2>1 DEF Upto
    <3> QED
      BY <1>2, <3>1 DEF Counted, Parsing, Reading
  <2>4. /\ st'.n = st.n + 1 /\ st'.s.type = st.s.type /\ st'.s.arg = st.s.arg /\ st'.s.body = l[2] /\ st'.found
    BY <1>5, <1>10, <2>1 DEF Taken
  <2>5. st'.n = 1
    BY <2>3, <2>4
  <2> QED
    BY <1>3, <1>6, <2>1, <2>2, <2>4, <2>5 DEF PassOpens
<1> QED
  BY <1>9, <1>10

\* A recipient finds its stanza.
LEMMA Found ==
    ASSUME Types, Format, Chosen, Unchanged, Opens, Intact, ForKeys(sent), mode = "keys", Called, ph = "matched"
    PROVE  st.found
<1>1. hdr = sent /\ pos = Len(hdr) /\ ph \in Decided
  BY SentEnds DEF Decided
<1>2. ForKeys(hdr) /\ hdr[pos] = End /\ hdr \in Seq(Lines) /\ Len(hdr) \in Nat
  BY <1>1, LenProperties DEF Format, Types
<1>3. PICK k \in Range(ids) : ShareOf(k) \in Range(hdr)
  BY <1>1 DEF Called
<1>4. PICK i \in 1..Len(hdr) : hdr[i] = ShareOf(k)
  BY <1>2, <1>3, LenProperties DEF Range
<1>5. hdr[i][1] = "X25519"
  BY <1>4 DEF ShareOf, Line
<1>6. /\ i < Len(hdr)
      /\ \E j \in Keys : hdr[i] = ShareOf(j) /\ hdr[i + 1] = Wrap(j, "this")
  BY <1>2, <1>5, KeysLine
<1>7. PICK j \in Keys : hdr[i] = ShareOf(j) /\ hdr[i + 1] = Wrap(j, "this")
  BY <1>6
<1>8. j = k
  BY <1>4, <1>7 DEF ShareOf, Line
<1>9. Mine(i)
  BY <1>4, <1>7, <1>8 DEF Mine, Wrap, Line
<1>10. i + 1 # pos
  BY <1>2, <1>7 DEF Wrap, End, Line
<1>11. i \in 1..(pos - 2)
  BY <1>1, <1>2, <1>6, <1>10
<1>12. Upto - 1 = pos - 2
  BY <1>1, <1>2 DEF Upto
<1>13. i \in MineIn(Upto)
  BY <1>9, <1>11, <1>12 DEF MineIn
<1>14. ~st.seenscrypt
  BY DEF Opens, KeysOpen
<1> QED
  BY <1>1, <1>13, <1>14 DEF Chosen, Parsing

LEMMA MatchedKeys ==
    ASSUME Types, Format, Counted, Chosen, Unchanged, Opens, Intact, ForKeys(sent), Decipher
    PROVE  KeysOpen'
<1>1. /\ ph = "matched" /\ mode = "keys" /\ mode' = mode /\ ids' = ids /\ sent' = sent /\ st' = st
      /\ ph' = CASE NotAlone -> "notalone"
                 [] ~NotAlone /\ st.found /\ st.s.type = "scrypt" -> "needspassphrase"
                 [] ~NotAlone /\ ~st.found -> "nomatch"
                 [] OTHER -> "validatemac"
  BY DEF Decipher
<1>2. KeysOpen
  BY <1>1 DEF Opens
<1>3. ~NotAlone /\ st.s.type # "scrypt"
  BY <1>1, <1>2 DEF KeysOpen, NotAlone, Counted, Decided
<1>4. Called => st.found
  BY <1>1, Found
<1>5. Called => ph' = "validatemac"
  BY <1>1, <1>3, <1>4
<1>6. Called' <=> Called
  BY <1>1 DEF Called
<1> QED
  BY <1>1, <1>2, <1>5, <1>6 DEF KeysOpen, Refusals, Refused

LEMMA MatchedPass ==
    ASSUME Types, Format, Unchanged, Opens, Intact, ForPassphrase(sent), RightPass, DecipherPassphrase
    PROVE  PassOpens'
<1>1. /\ ph = "matched" /\ mode = "pass" /\ sent' = sent /\ pos' = pos
      /\ LET scrypt == st.found /\ st.s.type = "scrypt"
             opens == RightPass /\ st.s.body[1] = Pass
         IN  ph' \in CASE NotAlone -> {"notalone"}
                       [] ~NotAlone /\ ~scrypt -> {"noscrypt"}
                       [] ~NotAlone /\ scrypt /\ CostTooLarge -> {"costtoolarge"}
                       [] OTHER -> {"nomemory", IF opens THEN "validatemac" ELSE "wrongpassphrase"}
      /\ st' = IF ph' = "validatemac" THEN [st EXCEPT !.fk = st.s.body[2]] ELSE st
  BY DEF DecipherPassphrase
<1>2. PassOpens
  BY <1>1 DEF Opens
<1>3. hdr = sent /\ pos = Len(hdr)
  BY <1>1, SentEnds DEF Decided
<1>4. Len(hdr) = 3 /\ hdr[1][2] \in MinCost..MaxCost
  BY <1>3, PassLines
<1>5. /\ st.n = 1 /\ st.found /\ st.s.type = "scrypt" /\ st.s.arg = hdr[1][2]
      /\ st.s.body = <<Pass, "this">>
  BY <1>1, <1>2, <1>3, <1>4 DEF PassOpens, Decided
<1>6. ~NotAlone /\ ~CostTooLarge
  BY <1>4, <1>5, CostAssumption DEF NotAlone, CostTooLarge
<1>7. st.s.body[1] = Pass /\ st.s.body[2] = "this"
  BY <1>5
<1>8. ph' \in {"nomemory", "validatemac"}
  BY <1>1, <1>5, <1>6, <1>7
<1>9. st \in Locals
  BY DEF Types
<1>10. /\ st'.n = st.n /\ st'.found = st.found /\ st'.s = st.s
       /\ ph' = "validatemac" => st'.fk = "this"
  BY <1>1, <1>7, <1>9 DEF Locals
<1>11. ~Refused'
  BY <1>8 DEF Refused, Refusals
<1> QED
  BY <1>1, <1>3, <1>5, <1>8, <1>10, <1>11 DEF PassOpens

LEMMA QuietOpens == ASSUME Types, Format, Counted, Chosen, Unchanged, Opens, Quiet PROVE Opens'
<1>1. hdr' = hdr /\ sent' = sent /\ by' = by /\ mode' = mode /\ ids' = ids /\ pos' = pos
  BY QuietIs
<1>2. CASE MakeHdrFails
  BY <1>2 DEF MakeHdrFails, Opens
<1>3. CASE ReadFails \/ GetVersion
  <2>1. st' = st /\ (ph = "transport" => pos = 0)
    BY <1>3 DEF ReadFails, GetVersion, Format, Writing
  <2> SUFFICES ASSUME Intact', ph' \notin {"makehdr", "notwritten"}
               PROVE  /\ ForKeys(sent) => KeysOpen'
                      /\ ForPassphrase(sent) /\ mode = "pass" /\ RightPass => PassOpens'
    BY <1>1 DEF Opens, RightPass
  <2>2. Intact /\ ph \notin {"makehdr", "notwritten"} /\ (ph' = "ioerror" \/ (ph' = "getstanza" /\ pos = 0))
    <3>1. CASE ReadFails
      BY <1>1, <3>1 DEF ReadFails, Intact
    <3>2. CASE GetVersion
      <4>1. edits \in Nat /\ edits' = 0 /\ by = "package" /\ ph = "transport"
        BY <1>1, <3>2 DEF Types, Intact, GetVersion
      <4>2. edits + 1 # 0
        BY <4>1
      <4> QED
        BY <2>1, <3>2, <4>1, <4>2 DEF GetVersion, Intact
    <3> QED
      BY <1>3, <3>1, <3>2
  <2>3. /\ ForKeys(sent) => KeysOpen
        /\ ForPassphrase(sent) /\ mode = "pass" /\ RightPass => PassOpens
    BY <2>2 DEF Opens
  <2>4. KeysOpen => KeysOpen'
    BY <1>1, <2>1, <2>2 DEF KeysOpen, Called, Refusals, Refused
  <2>5. PassOpens'
    BY <1>1, <2>1, <2>2 DEF PassOpens, Refusals, Refused, Decided
  <2> QED
    BY <2>3, <2>4, <2>5
<1>4. CASE HeaderEnds
  <2>1. Unchanged' /\ ph' = "headerends"
    BY <1>4, QuietUnchanged DEF HeaderEnds
  <2> QED
    BY <2>1 DEF Unchanged, Opens
<1>5. CASE Decipher \/ DecipherPassphrase \/ RecStop \/ ValidateMac
  <2>1. ph \in {"matched", "validatemac"} /\ (Intact' => Intact /\ edits' = edits)
    BY <1>1, <1>5, MacLine DEF Decipher, DecipherPassphrase, RecStop, ValidateMac, Intact
  <2> SUFFICES ASSUME Intact, edits' = edits
               PROVE  /\ ForKeys(sent) => KeysOpen'
                      /\ ForPassphrase(sent) /\ mode = "pass" /\ RightPass => PassOpens'
    BY <1>1, <2>1 DEF Opens, Intact, RightPass
  <2>2. CASE Decipher
    <3>1. ForKeys(sent) => KeysOpen'
      BY <2>2, MatchedKeys
    <3> QED
      BY <2>2, <3>1 DEF Decipher
  <2>3. CASE DecipherPassphrase
    <3>1. ForPassphrase(sent) /\ RightPass => PassOpens'
      BY <2>3, MatchedPass
    <3>2. ForKeys(sent) => KeysOpen'
      <4>1. mode = "pass" /\ mode' = mode /\ st'.seenscrypt = st.seenscrypt
        BY <1>1, <2>3, QuietIs DEF DecipherPassphrase
      <4>2. ForKeys(sent) => ~st.seenscrypt
        BY <2>1 DEF Opens, KeysOpen
      <4> QED
        BY <4>1, <4>2 DEF KeysOpen
    <3> QED
      BY <3>1, <3>2
  <2>4. CASE ValidateMac
    <3>1. SubSeq(hdr, 1, pos) = sent /\ by = "package"
      BY <2>1, SentEnds DEF Decided, Intact
    <3>2. /\ ph = "validatemac" /\ st' = st
          /\ ph' = IF st.fk = "this" /\ data' \notin Spoilt THEN "payload" ELSE "badmac"
      <4>1. edits \in Nat
        BY DEF Types
      <4> QED
        BY <2>4, <3>1, <4>1 DEF ValidateMac, MacIsValid
    <3>3. ASSUME ForKeys(sent) PROVE KeysOpen'
      <4>1. KeysOpen
        BY <3>2, <3>3 DEF Opens
      <4>2. mode = "keys" => st.fk = "this"
        BY <3>2, <4>1 DEF KeysOpen, Chosen
      <4> QED
        BY <1>1, <3>2, <4>1, <4>2 DEF KeysOpen, Refusals, Refused
    <3>4. ASSUME ForPassphrase(sent), mode = "pass", RightPass PROVE PassOpens'
      <4>1. PassOpens
        BY <3>2, <3>4 DEF Opens
      <4>2. st.fk = "this"
        BY <3>2, <4>1 DEF PassOpens
      <4> QED
        BY <1>1, <3>2, <4>1, <4>2 DEF PassOpens, Refusals, Refused, Decided
    <3> QED
      BY <3>3, <3>4
  <2>5. CASE RecStop
    <3>1. ph' = "validatemac" /\ ph = ph' /\ st' = st /\ ~Refused'
      BY <2>5 DEF RecStop, Refused, Refusals
    <3>2. ForKeys(sent) => KeysOpen
      BY <3>1 DEF Opens
    <3>3. ForPassphrase(sent) /\ mode = "pass" /\ RightPass => PassOpens
      BY <3>1 DEF Opens
    <3>4. KeysOpen => KeysOpen'
      BY <1>1, <3>1 DEF KeysOpen
    <3>5. PassOpens => PassOpens'
      BY <1>1, <3>1 DEF PassOpens
    <3> QED
      BY <3>2, <3>3, <3>4, <3>5
  <2> QED
    BY <1>5, <2>2, <2>3, <2>4, <2>5
<1> QED
  BY <1>2, <1>3, <1>4, <1>5 DEF Quiet

-----------------------------------------------------------------------------
(* The invariant holds from the start, and every step keeps it. *)

LEMMA HInit == ASSUME Init PROVE HInv
<1>1. /\ hdr = <<>> /\ sent = <<>> /\ edits = 0 /\ pos = 0 /\ st = Start /\ data = "none"
      /\ by \in {"package", "other"} /\ mode \in {"keys", "pass"}
      /\ ph = IF by = "package" THEN "makehdr" ELSE "getstanza"
  BY DEF Init
<1>2. Len(hdr) = 0 /\ hdr \in Seq(Lines)
  BY <1>1
<1>3. ids \in Seq(Keys)
  <2>1. PICK k \in 0..MaxIds : ids \in [1..k -> Keys]
    BY DEF Init
  <2>2. k \in Nat
    BY <2>1, CostAssumption
  <2> QED
    BY <2>1, <2>2
<1>4. st \in Locals
  <2>1. NoStanza \in Stanza
    BY DEF NoStanza, Stanza, Args, Bodies
  <2> QED
    BY <1>1, <2>1 DEF Start, Locals
<1>5. Types
  BY <1>1, <1>2, <1>3, <1>4 DEF Types, Phases, Writing, Reading, Data
<1>6. WellUpto(pos)
  BY <1>1 DEF WellUpto
<1>7. Upto = 0 \/ ph = "makehdr"
  BY <1>1 DEF Upto
<1>8. st.n = 0 /\ ~st.seenscrypt /\ ~st.found /\ st.s.type = "none"
  BY <1>1 DEF Start, NoStanza
<1>9. Format
  BY <1>1, <1>6 DEF Format, Writing, Parsing, Reading, Decided
<1>10. Counted
  BY <1>1, <1>7, <1>8 DEF Counted, Parsing, Reading, Decided
<1>11. Alone
  BY <1>1 DEF Alone
<1>12. Chosen
  <2>1. Upto = 0 => MineIn(Upto) = {}
    BY DEF MineIn
  <2> QED
    BY <1>1, <1>7, <1>8, <2>1 DEF Chosen, FirstOf, Parsing, Reading, Decided
<1>13. Unchanged /\ Opens
  <2>1. Unfinished(hdr)
    BY <1>1, <1>2 DEF Unfinished
  <2> QED
    BY <1>1, <2>1 DEF Unchanged, Opens, Intact
<1> QED
  BY <1>5, <1>9, <1>10, <1>11, <1>12, <1>13 DEF HInv

LEMMA HStay == ASSUME HInv, UNCHANGED vars PROVE HInv'
<1>1. /\ by' = by /\ hdr' = hdr /\ sent' = sent /\ edits' = edits /\ mode' = mode /\ ids' = ids
      /\ pos' = pos /\ st' = st /\ data' = data /\ ph' = ph
  BY DEF vars
<1>2. Types'
  BY <1>1 DEF HInv, Types
<1>3. Upto' = Upto /\ (WellUpto(pos)' <=> WellUpto(pos)) /\ (Intact' <=> Intact) /\ (Called' <=> Called)
  BY <1>1 DEF Upto, WellUpto, Intact, Called
<1>4. Format'
  BY <1>1, <1>3 DEF HInv, Format
<1>5. Counted' /\ Alone'
  BY <1>1, <1>3 DEF HInv, Counted, Alone
<1>6. Chosen'
  <2>1. MineIn(Upto)' = MineIn(Upto)
    BY <1>1, <1>3 DEF MineIn, Mine
  <2>2. FirstOf(MineIn(Upto))' <=> FirstOf(MineIn(Upto))
    BY <1>1, <2>1 DEF FirstOf
  <2> QED
    BY <1>1, <2>1, <2>2 DEF HInv, Chosen
<1>7. Unchanged'
  BY <1>1, <1>3 DEF HInv, Unchanged
<1>8. Opens'
  BY <1>1, <1>3 DEF HInv, Opens, KeysOpen, PassOpens, RightPass, Refused
<1> QED
  BY <1>2, <1>4, <1>5, <1>6, <1>7, <1>8 DEF HInv

LEMMA HStep == ASSUME HInv, Next PROVE HInv'
<1>1. Types /\ Format /\ Counted /\ Alone /\ Chosen /\ Unchanged /\ Opens
  BY DEF HInv
<1>2. CASE X25519Stanza \/ ScryptStanza \/ HdrFinish \/ Damage
  <2>1. Types' /\ Format' /\ Counted' /\ Chosen' /\ Unchanged' /\ Opens'
    BY <1>1, <1>2, WritingTypes, WritingFormat, WritingCounted, WritingChosen, WritingUnchanged, WritingOpens
  <2>2. ph' \in Writing
    BY <1>2 DEF X25519Stanza, ScryptStanza, HdrFinish, Damage, Writing
  <2> QED
    BY <2>1, <2>2, NotYet DEF HInv
<1>3. CASE GetStanza
  <2>1. Types' /\ Format' /\ Counted' /\ Chosen' /\ Unchanged'
    BY <1>1, <1>3, ReadingTypes, GetStanzaFormat, GetStanzaCounted, GetStanzaChosen, ReadingUnchanged
  <2>2. Opens'
    BY <1>1, <1>3, <2>1, GetStanzaOpens
  <2>3. ph' \in Reading \cup {"matched", "badheader", "zeroshare"}
    BY <1>1, <1>3, GetStanzaIs DEF GetStanzaOf, Reading
  <2> QED
    BY <2>1, <2>2, <2>3, NotYet DEF HInv
<1>4. CASE SkipArgBody
  <2>1. Types' /\ Format' /\ Counted' /\ Chosen' /\ Unchanged'
    BY <1>1, <1>4, ReadingTypes, SkipArgBodyFormat, SkipArgBodyCounted, SkipArgBodyChosen, ReadingUnchanged
  <2>2. Opens'
    <3>1. ph = "skipargbody" /\ ph' # "makehdr" /\ ph' # "notwritten" /\ by' = by /\ edits' = edits
      BY <1>1, <1>4, SkipArgBodyIs DEF SkipArgBodyOf, Reads
    <3>2. ~Intact
      BY <1>1, <3>1 DEF Unchanged
    <3> QED
      BY <3>1, <3>2 DEF Opens, Intact
  <2>3. ph' \in Reading \cup {"matched", "badheader", "zeroshare"}
    BY <1>1, <1>4, SkipArgBodyIs DEF SkipArgBodyOf, Reading
  <2> QED
    BY <2>1, <2>2, <2>3, NotYet DEF HInv
<1>5. CASE GetBody
  <2>1. Types' /\ Format' /\ Counted' /\ Chosen' /\ Unchanged'
    BY <1>1, <1>5, ReadingTypes, GetBodyFormat, GetBodyCounted, GetBodyChosen, ReadingUnchanged
  <2>2. Opens'
    BY <1>1, <1>5, <2>1, GetBodyOpens
  <2>3. ph' \in Reading \cup {"matched", "badheader", "zeroshare"}
    BY <1>1, <1>5, GetBodyIs DEF GetBodyOf, Reading
  <2> QED
    BY <2>1, <2>2, <2>3, NotYet DEF HInv
<1>6. CASE Quiet
  <2>1. Types' /\ Format' /\ Counted' /\ Chosen'
    BY <1>1, <1>6, QuietIs, QuietFormat, QuietCounted, QuietChosen
  <2>2. Alone' /\ Unchanged' /\ Opens'
    BY <1>1, <1>6, AloneKeeps, QuietUnchanged, QuietOpens
  <2> QED
    BY <2>1, <2>2 DEF HInv
<1>7. CASE Stopped
  BY <1>7, HStay DEF Stopped
<1> QED
  BY <1>2, <1>3, <1>4, <1>5, <1>6, <1>7 DEF Next, Quiet

\* The parser, match() and its two callers keep the invariant above: what each
\* place of getstanza() has read, what match()'s locals say of the stanzas so far.
THEOREM HeaderInvariant == Spec => []HInv
<1>1. Init => HInv
  BY HInit
<1>2. HInv /\ [Next]_vars => HInv'
  BY HStep, HStay
<1> QED
  BY <1>1, <1>2, PTL DEF Spec

-----------------------------------------------------------------------------
(* What follows from it. *)

\* getstanza() and the functions under it accept the lines of the format and
\* nothing else: they go on only within the beginning of a well-formed header,
\* end it only at a --- after a whole stanza, and refuse only what is malformed.
THEOREM ParserAcceptsTheFormat == Spec => []ParsesTheFormat
<1>1. HInv => ParsesTheFormat
  <2> SUFFICES ASSUME HInv PROVE ParsesTheFormat
    OBVIOUS
  <2>1. Types /\ Format
    BY DEF HInv
  <2>2. WellFormed(ReadLines) <=> WellUpto(pos)
    BY <2>1, WellIs
  <2>3. ph \notin Outcomes => WellUpto(pos)
    <3>1. ph \notin Outcomes => ph \in Writing \cup Parsing
      BY <2>1 DEF Types, Phases, Parsing, Decided
    <3>2. ph \in Writing => WellUpto(pos)
      BY <2>1 DEF Format, WellUpto
    <3> QED
      BY <2>1, <3>1, <3>2 DEF Format
  <2>4. ASSUME ph \in Decided PROVE WellUpto(pos) /\ Last(ReadLines) = End
    <3>1. WellUpto(pos) /\ pos >= 1 /\ hdr[pos] = End
      BY <2>1, <2>4 DEF Format, Parsing
    <3>2. Len(ReadLines) = pos /\ pos \in Nat /\ \A i \in 1..pos : ReadLines[i] = hdr[i]
      BY <2>1, ReadLinesIs
    <3>3. ReadLines[Len(ReadLines)] = hdr[pos]
      BY <3>1, <3>2
    <3> QED
      BY <3>1, <3>3 DEF Last
  <2>5. ph = "badheader" => ~WellUpto(pos)
    BY <2>1 DEF Format
  <2> QED
    BY <2>2, <2>3, <2>4, <2>5 DEF ParsesTheFormat
<1> QED
  BY <1>1, HeaderInvariant, PTL

\* match() and findx25519() take the file key of the first stanza that one of
\* the caller's identities opens, and report no match only if there is none.
THEOREM MatchTakesTheFirst == Spec => []FirstMatchWins
<1>1. HInv => FirstMatchWins
  <2> SUFFICES ASSUME HInv, mode = "keys", ph \in {"validatemac", "payload", "badmac", "nomatch"}
               PROVE  /\ (ph = "nomatch") <=> (Ours = {})
                      /\ \A i \in Ours : (\A j \in Ours : i <= j) => st.fk = hdr[i + 1][2][2]
    BY DEF FirstMatchWins
  <2>1. Types /\ Format /\ Counted /\ Alone /\ Chosen
    BY DEF HInv
  <2>2. ph \in Decided /\ ph \in Parsing
    BY DEF Decided, Parsing
  <2>3. pos >= 1 /\ hdr[pos] = End /\ pos \in Nat
    BY <2>1, <2>2, LenProperties DEF Format, Types
  <2>4. Upto = pos - 1
    BY DEF Upto
  <2>5. ~st.seenscrypt
    BY <2>1 DEF Alone, Counted, Chosen
  <2>6. \A i : i \in Ours <=> i \in 1..(pos - 1) /\ Mine(i)
    BY DEF Ours, StanzasFor, Mine, ShareOf, Line
  <2>7. ASSUME NEW i, i = pos - 1 PROVE ~Mine(i)
    <3>1. hdr[i + 1][1] = "end"
      BY <2>3, <2>7 DEF End, Line
    <3> QED
      BY <3>1 DEF Mine
  <2>8. \A i : i \in 1..(pos - 1) <=> i \in 1..(pos - 1 - 1) \/ (i = pos - 1 /\ pos - 1 # 0)
    BY <2>3
  <2>9. Ours = MineIn(Upto)
    BY <2>4, <2>6, <2>7, <2>8 DEF MineIn
  <2>10. (st.found <=> Ours # {}) /\ FirstOf(Ours)
    BY <2>1, <2>2, <2>5, <2>9 DEF Chosen
  <2>11. ph = "nomatch" <=> ~st.found
    BY <2>1 DEF Chosen
  <2> QED
    BY <2>10, <2>11 DEF FirstOf
<1> QED
  BY <1>1, HeaderInvariant, PTL

\* The check at the end of match() leaves age_decipher_passphrase() only headers
\* of one scrypt stanza, and age_decipher() only headers that have none.
THEOREM ScryptStandsAlone == Spec => []ScryptAlone
<1>1. HInv => ScryptAlone
  <2> SUFFICES ASSUME HInv, ph = "payload"
               PROVE  \/ mode = "pass" /\ Len(ReadLines) = 3 /\ hdr[1][1] = "scrypt"
                      \/ mode = "keys" /\ \A i \in 1..pos : hdr[i][1] # "scrypt"
    BY DEF ScryptAlone
  <2>1. Types /\ Format /\ Counted /\ Alone
    BY DEF HInv
  <2>2. Len(ReadLines) = pos /\ pos \in Nat
    BY <2>1, ReadLinesIs
  <2>3. pos >= 1 /\ hdr[pos] = End /\ Upto = pos - 1
    BY <2>1 DEF Format, Decided, Upto
  <2>4. ASSUME mode = "keys" PROVE \A i \in 1..pos : hdr[i][1] # "scrypt"
    <3>1. ~st.seenscrypt
      BY <2>1, <2>4 DEF Alone
    <3>2. \A i \in 1..(pos - 1) : hdr[i][1] # "scrypt"
      BY <2>1, <2>3, <3>1 DEF Counted, Parsing, Decided
    <3>3. hdr[pos][1] # "scrypt"
      BY <2>3 DEF End, Line
    <3>4. \A i \in 1..pos : i \in 1..(pos - 1) \/ i = pos
      BY <2>2
    <3> QED
      BY <3>2, <3>3, <3>4
  <2> QED
    BY <2>1, <2>2, <2>4 DEF Alone
<1> QED
  BY <1>1, HeaderInvariant, PTL

\* age_decipher_passphrase() runs scrypt() only for a header of one scrypt
\* stanza that it has read to the end, whose own cost is within SCRYPTMAXCOST.
THEOREM ScryptWorkIsBounded == Spec => []ScryptWork
<1>1. HInv => ScryptWork
  <2> SUFFICES ASSUME HInv, mode = "pass",
                      ph \in {"nomemory", "wrongpassphrase", "validatemac", "badmac", "payload"}
               PROVE  /\ pos = 3 /\ hdr[1][1] = "scrypt" /\ hdr[2][1] = "wrap" /\ hdr[3] = End
                      /\ hdr[1][2] <= MaxCostIn
    BY DEF ScryptWork
  <2>1. pos = 3 /\ hdr[1][1] = "scrypt" /\ hdr[1][2] <= MaxCostIn
    BY DEF HInv, Alone
  <2>2. WellUpto(3) /\ hdr[3] = End
    BY <2>1 DEF HInv, Format, Parsing, Decided
  <2>3. hdr[1 + 1][1] \in Follows(hdr[1][1])
    BY <2>2 DEF WellUpto
  <2>4. hdr[2][1] = "wrap"
    BY <2>1, <2>3 DEF Follows
  <2> QED
    BY <2>1, <2>2, <2>4
<1> QED
  BY <1>1, HeaderInvariant, PTL

\* Whoever the package encrypted to can open the header it wrote: an identity
\* whose recipient is in it, or its passphrase at a cost that encryption allows,
\* is refused only for the MAC, and only where what recstop() returned for it is
\* not the whole header (a failed allocation, a buffer refilled by the MAC line).
THEOREM EveryRecipientDecrypts == Spec => []RecipientsDecrypt
<1>1. HInv => RecipientsDecrypt
  <2> SUFFICES ASSUME HInv, Intact, Refused
               PROVE  /\ \A k \in Range(ids) : ShareOf(k) \in Range(sent) => mode = "pass"
                      /\ mode = "pass" /\ RightPass => sent[1][1] # "scrypt"
    BY DEF RecipientsDecrypt, Intact, Refused
  <2>1. Types /\ Unchanged /\ Opens /\ ph \notin {"makehdr", "notwritten"}
    BY DEF HInv, Refused, Refusals
  <2>2. hdr = sent /\ (ForKeys(sent) \/ ForPassphrase(sent)) /\ mode \in {"keys", "pass"}
    BY <2>1 DEF Unchanged, Types
  <2>3. CASE ForKeys(sent)
    <3>1. KeysOpen /\ sent[1][1] = "X25519"
      BY <2>1, <2>3 DEF Opens, ForKeys
    <3> QED
      BY <2>2, <3>1 DEF KeysOpen, Called
  <2>4. CASE ForPassphrase(sent)
    <3>1. ~(mode = "pass" /\ RightPass)
      BY <2>1, <2>4 DEF Opens, PassOpens
    <3>2. \A k : ShareOf(k) \notin Range(sent)
      <4>1. /\ Len(sent) = 3 /\ sent[1][1] = "scrypt" /\ sent[2][1] = "wrap" /\ sent[3][1] = "end"
        BY <2>4, PassLines
      <4>2. DOMAIN sent = 1..3
        BY <2>1, <2>2, <4>1, LenProperties DEF Types
      <4>3. \A i \in DOMAIN sent : i = 1 \/ i = 2 \/ i = 3
        BY <4>2
      <4>4. \A i \in DOMAIN sent : sent[i][1] # "X25519"
        BY <4>1, <4>3
      <4> QED
        BY <4>4 DEF Range, ShareOf, Line
    <3> QED
      BY <3>1, <3>2
  <2> QED
    BY <2>2, <2>3, <2>4
<1> QED
  BY <1>1, HeaderInvariant, PTL
=============================================================================
