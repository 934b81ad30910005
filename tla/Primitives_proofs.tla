-------------------------- MODULE Primitives_proofs --------------------------
(***************************************************************************)
(* TLAPS proofs about the functions of src/agec/crypto and the buffers of  *)
(* util.c and memio.c, for every size of a buffer, a block, a digest and a *)
(* limb and every length of an input: strings and what the operators of    *)
(* the models make of them, the message buffer and the sinks, Poly1305     *)
(* over split numbers, blocks filled piece by piece and what hashes them,  *)
(* what is sealed and what the reader accepts, what is made of a password. *)
(***************************************************************************)
EXTENDS Primitives, NatFacts, SequenceTheorems

-----------------------------------------------------------------------------
\* r is s and then t, of m and n elements.
CatOf(r, s, t, m, n) ==
    /\ IsStr(r) /\ Len(r) = m + n /\ m \in Nat /\ n \in Nat
    /\ \A i \in 1..m : r[i] = s[i]
    /\ \A i \in 1..n : r[m + i] = t[i]
\* p is the n elements of s after the first a.
PartOf(p, s, a, n) ==
    IsStr(p) /\ Len(p) = n /\ n \in Nat /\ \A i \in 1..n : p[i] = s[a + i]

LEMMA CatIs ==
    ASSUME NEW s, NEW t, IsStr(s), IsStr(t)
    PROVE  CatOf(s \o t, s, t, Len(s), Len(t))
<1> DEFINE r == s \o t
           m == Len(s)
           n == Len(t)
<1>1. /\ IsStr(r) /\ Len(r) = m + n /\ m \in Nat /\ n \in Nat
      /\ \A i \in 1..(m + n) : r[i] = IF i <= m THEN s[i] ELSE t[i - m]
  BY StrCat
<1> HIDE DEF r, m, n
<1>2. \A i \in 1..m : r[i] = s[i]
  BY <1>1
<1>3. ASSUME NEW i \in 1..n PROVE r[m + i] = t[i]
  <2>1. m + i \in 1..(m + n) /\ ~(m + i <= m) /\ (m + i) - m = i
    BY <1>1
  <2> QED
    BY <1>1, <2>1
<1>4. CatOf(r, s, t, m, n)
  BY <1>1, <1>2, <1>3 DEF CatOf
<1> QED
  BY <1>4 DEF r, m, n

LEMMA PartIs ==
    ASSUME NEW s, IsStr(s), NEW a \in Nat, NEW n \in Nat, a + n <= Len(s)
    PROVE  PartOf(SubSeq(s, a + 1, a + n), s, a, n)
<1> DEFINE b == a + n
           p == SubSeq(s, a + 1, b)
<1>1. b \in Nat /\ a <= b /\ b - a = n /\ b <= Len(s)
  OBVIOUS
<1> HIDE DEF b
<1>2. /\ IsStr(p) /\ Len(p) = IF a <= b THEN b - a ELSE 0
      /\ \A i \in 1..(b - a) : p[i] = s[a + i]
  BY <1>1, StrPart
<1> HIDE DEF p
<1>3. PartOf(p, s, a, n)
  BY <1>1, <1>2 DEF PartOf
<1> QED
  BY <1>3 DEF p, b

\* r is b but for what t puts after the first n.
PutOf(r, b, n, t) ==
    /\ IsStr(r) /\ Len(r) = Len(b)
    /\ \A i \in 1..n : r[i] = b[i]
    /\ \A i \in 1..Len(t) : r[n + i] = t[i]
    /\ \A i \in (n + Len(t) + 1)..Len(b) : r[i] = b[i]

\* memcpy() changes what it copies to and nothing else.
LEMMA PutIs ==
    ASSUME NEW b, IsStr(b), NEW t, IsStr(t), NEW n \in Nat, n + Len(t) <= Len(b)
    PROVE  PutOf(Put(b, n, t), b, n, t)
<1> DEFINE N == Len(b)
           l == Len(t)
           e == n + l
           d == N - e
           x == SubSeq(b, 1, n)
           y == SubSeq(b, e + 1, N)
           xt == x \o t
           r == xt \o y
<1>1. N \in Nat /\ l \in Nat
  BY StrIs
<1>2. e \in Nat /\ d \in Nat /\ e + d = N /\ 0 + n = n /\ 0 + 1 = 1 /\ 0 + n <= N /\ 0 \in Nat
  BY <1>1
<1>3. Put(b, n, t) = r
  BY DEF Put
<1>4. PartOf(SubSeq(b, 0 + 1, 0 + n), b, 0, n)
  BY ONLY IsStr(b), n \in Nat, <1>2, PartIs
<1>5. PartOf(SubSeq(b, e + 1, e + d), b, e, d)
  <2> HIDE DEF e, d
  <2>1. e + d <= Len(b)
    BY ONLY <1>1, <1>2
  <2> QED
    BY ONLY IsStr(b), <1>2, <2>1, PartIs
<1>6. PartOf(x, b, 0, n) /\ PartOf(y, b, e, d)
  BY <1>2, <1>4, <1>5
<1> HIDE DEF x, y
<1>7. CatOf(xt, x, t, n, l)
  <2>1. IsStr(x) /\ Len(x) = n
    BY <1>6 DEF PartOf
  <2>2. CatOf(xt, x, t, Len(x), Len(t))
    BY ONLY <2>1, IsStr(t), CatIs
  <2> QED
    BY <2>1, <2>2
<1> HIDE DEF xt
<1>8. CatOf(r, xt, y, e, d)
  <2>1. IsStr(y) /\ Len(y) = d
    BY <1>6 DEF PartOf
  <2>2. IsStr(xt) /\ Len(xt) = e
    BY <1>7 DEF CatOf
  <2>3. CatOf(r, xt, y, Len(xt), Len(y))
    BY ONLY <2>1, <2>2, CatIs
  <2> QED
    BY <2>1, <2>2, <2>3
<1> HIDE DEF r, d, l, N
<1>9. IsStr(r) /\ Len(r) = N
  BY <1>1, <1>2, <1>8 DEF CatOf
<1>10. ASSUME NEW i \in 1..n PROVE r[i] = b[i]
  <2>1. i \in 1..e
    BY <1>1
  <2>2. r[i] = xt[i]
    BY <1>8, <2>1 DEF CatOf
  <2>3. xt[i] = x[i]
    BY <1>7 DEF CatOf
  <2>4. x[i] = b[0 + i] /\ 0 + i = i
    BY <1>6 DEF PartOf
  <2> QED
    BY <2>2, <2>3, <2>4
<1>11. ASSUME NEW i \in 1..l PROVE r[n + i] = t[i]
  <2>1. n + i \in 1..e
    BY <1>1
  <2>2. r[n + i] = xt[n + i]
    BY <1>8, <2>1 DEF CatOf
  <2>3. xt[n + i] = t[i]
    BY <1>7 DEF CatOf
  <2> QED
    BY <2>2, <2>3
<1>12. ASSUME NEW i \in (e + 1)..N PROVE r[i] = b[i]
  <2> DEFINE k == i - e
  <2> HIDE DEF e
  <2>1. k \in 1..d /\ e + k = i
    BY <1>1, <1>2
  <2> HIDE DEF k
  <2>2. r[e + k] = y[k]
    BY <1>8, <2>1 DEF CatOf
  <2>3. y[k] = b[e + k]
    BY <1>6, <2>1 DEF PartOf
  <2> QED
    BY <2>1, <2>2, <2>3
<1>13. PutOf(r, b, n, t)
  BY <1>9, <1>10, <1>11, <1>12 DEF PutOf, l, N, e
<1> QED
  BY <1>3, <1>13

-----------------------------------------------------------------------------
(* util.c                                                                  *)

\* A string of characters; a NUL would end a text.
Chars(s) == IsStr(s) /\ \A i \in 1..Len(s) : s[i] \in Nat
Text(s) == IsStr(s) /\ \A i \in 1..Len(s) : s[i] \in Nat \ {Nul}

\* The buffer b holds the message m.
Holding(b, m) ==
    /\ Chars(b) /\ Len(b) = EbufSize /\ Text(m) /\ Len(m) < EbufSize
    /\ \A i \in 1..Len(m) : b[i] = m[i]
    /\ b[Len(m) + 1] = Nul

LEMMA HoldingString ==
    ASSUME NEW b, NEW m, Holding(b, m)
    PROVE  CString(b) = m
<1> DEFINE l == Len(m)
           First0(i) == b[i] = Nul /\ \A j \in 1..(i - 1) : b[j] # Nul
           c == CHOOSE i \in DOMAIN b : First0(i)
<1>1. /\ l \in Nat /\ Len(b) \in Nat /\ DOMAIN b = 1..Len(b) /\ l + 1 \in 1..Len(b)
      /\ IsStr(b) /\ IsStr(m)
  BY StrIs, BuffersAssumption DEF Holding, Text, Chars
<1>2. \A i \in 1..l : b[i] = m[i] /\ b[i] # Nul
  BY DEF Holding, Text
<1>3. b[l + 1] = Nul
  BY DEF Holding
<1> HIDE DEF l
<1>4. First0(l + 1)
  BY <1>1, <1>2, <1>3
<1>5. c \in DOMAIN b /\ First0(c)
  BY <1>1, <1>4
<1>6. CString(b) = SubSeq(b, 1, c - 1)
  BY DEF CString
<1> HIDE DEF c
<1>7. c = l + 1
  BY <1>1, <1>2, <1>3, <1>5
<1>8. c - 1 = l
  BY <1>1, <1>7
<1> DEFINE p == SubSeq(b, 1, l)
<1>9. IsStr(p) /\ Len(p) = l /\ \A i \in 1..l : p[i] = b[i]
  <2>1. IsStr(b) /\ l \in Nat /\ l <= Len(b)
    BY <1>1
  <2> QED
    BY ONLY <2>1, StrFirst
<1>10. CString(b) = p
  BY <1>6, <1>8
<1> HIDE DEF p
<1>11. p = m
  <2>1. IsStr(m) /\ Len(p) = Len(m)
    BY <1>1, <1>9 DEF l
  <2>2. \A i \in 1..Len(p) : p[i] = m[i]
    BY <1>2, <1>9
  <2> QED
    BY ONLY <1>9, <2>1, <2>2, StrEqual
<1> QED
  BY <1>10, <1>11

\* eset keeps what fits of a message.
LEMMA SetHolds ==
    ASSUME NEW b, NEW err, Text(err)
    PROVE  Holding(eset(b, err), IF Len(err) >= EbufSize
                                 THEN SubSeq(err, 1, EbufSize - 1) ELSE err)
<1> DEFINE n == IF Len(err) < EbufSize THEN Len(err) ELSE EbufSize - 1
           k == EbufSize - n
           x == SubSeq(err, 1, n)
           z == [i \in 1..k |-> Nul]
           r == x \o z
           m == IF Len(err) >= EbufSize THEN SubSeq(err, 1, EbufSize - 1) ELSE err
<1>1. Len(err) \in Nat /\ EbufSize \in Nat /\ EbufSize > 3 /\ IsStr(err)
  BY StrIs, BuffersAssumption DEF Text
<1>2. n \in Nat /\ n <= Len(err) /\ n < EbufSize /\ k \in Nat /\ n + k = EbufSize /\ 1 <= k
  BY <1>1
<1>3. IsStr(x) /\ Len(x) = n /\ \A i \in 1..n : x[i] = err[i]
  <2> HIDE DEF n
  <2> QED
    BY ONLY <1>1, <1>2, StrFirst
<1>4. m = x
  <2>1. CASE Len(err) >= EbufSize
    BY <1>1, <2>1
  <2>2. CASE Len(err) < EbufSize
    <3>1. n = Len(err) /\ m = err
      BY <1>1, <2>2
    <3>2. SubSeq(err, 1, Len(err)) = err
      BY <1>1, StrAll
    <3> QED
      BY <3>1, <3>2
  <2> QED
    BY <1>1, <2>1, <2>2
<1>5. eset(b, err) = r
  BY DEF eset
<1> HIDE DEF n, k, x, m
<1>6. IsStr(z) /\ Len(z) = k /\ \A i \in 1..k : z[i] = Nul
  <2>1. z = [i \in 1..k |-> z[i]]
    OBVIOUS
  <2>2. \A i \in 1..k : z[i] = Nul
    OBVIOUS
  <2> HIDE DEF z
  <2> QED
    BY <1>2, <2>1, <2>2, FunctionIsStr
<1> HIDE DEF z
<1>7. CatOf(r, x, z, Len(x), Len(z))
  BY ONLY <1>3, <1>6, CatIs
<1> HIDE DEF r
<1>8. IsStr(r) /\ Len(r) = EbufSize /\ \A i \in 1..n : r[i] = x[i]
  BY <1>2, <1>3, <1>6, <1>7 DEF CatOf
<1>9. r[n + 1] = Nul
  <2>1. 1 \in 1..k
    BY <1>2
  <2> QED
    BY <1>3, <1>6, <1>7, <2>1 DEF CatOf
<1>10. Text(x)
  BY <1>2, <1>3, <1>1 DEF Text
<1>12. ASSUME NEW i \in 1..EbufSize PROVE r[i] \in Nat
  <2>1. CASE i <= n
    <3>1. r[i] = x[i] /\ x[i] = err[i] /\ i \in 1..Len(err)
      BY <1>1, <1>2, <1>3, <1>8, <2>1
    <3> QED
      BY <3>1 DEF Text
  <2>2. CASE i > n
    <3> DEFINE j == i - n
    <3>1. j \in 1..k /\ n + j = i
      BY <1>1, <1>2, <2>2
    <3> HIDE DEF j
    <3>2. r[n + j] = z[j] /\ z[j] = Nul
      BY <1>3, <1>6, <1>7, <3>1 DEF CatOf
    <3> QED
      BY <3>1, <3>2, BuffersAssumption
  <2> QED
    BY <1>2, <2>1, <2>2
<1>13. Chars(r)
  BY <1>8, <1>12 DEF Chars
<1>11. Holding(r, x)
  BY <1>2, <1>3, <1>8, <1>9, <1>10, <1>13 DEF Holding
<1> QED
  BY <1>4, <1>5, <1>11 DEF m

\* f begins with ol bytes of outer, the separator and il bytes of inner.
Begins(f, outer, inner, ol, il) ==
    /\ \A i \in 1..ol : f[i] = outer[i]
    /\ f[ol + 1] = Colon /\ f[ol + 2] = Space
    /\ \A i \in 1..il : f[ol + 2 + i] = inner[i]

\* s and t begin with the same n elements.
Alike(s, t, n) == \A i \in 1..n : s[i] = t[i]

\* What ewrap makes of b once it knows how much of src and of outer it takes.
Laid(b, outer, src, ol, il) ==
    Ended(Put(Put(b, ol + 2, SubSeq(src, 1, il)), 0, SubSeq(outer, 1, ol)), ol, il)
IsLaid(f, outer, inner, ol, il) ==
    /\ Chars(f) /\ Len(f) = EbufSize
    /\ Begins(f, outer, inner, ol, il) /\ f[ol + 2 + il + 1] = Nul

LEMMA PutChars ==
    ASSUME NEW b, Chars(b), NEW t, Chars(t), NEW n \in Nat, NEW r, PutOf(r, b, n, t)
    PROVE  Chars(r)
<1>1. Len(b) \in Nat /\ Len(t) \in Nat
  BY StrIs DEF Chars
<1>2. ASSUME NEW i \in 1..Len(r) PROVE r[i] \in Nat
  <2>0. i \in 1..Len(b)
    BY DEF PutOf
  <2>1. CASE i <= n
    <3>1. i \in 1..n
      BY <2>1
    <3> QED
      BY <2>0, <3>1 DEF PutOf, Chars
  <2>2. CASE i > n /\ i <= n + Len(t)
    <3> DEFINE k == i - n
    <3>1. k \in 1..Len(t) /\ n + k = i
      BY <1>1, <2>2
    <3> HIDE DEF k
    <3>2. r[n + k] = t[k] /\ t[k] \in Nat
      BY <3>1 DEF PutOf, Chars
    <3> QED
      BY <3>1, <3>2
  <2>3. CASE i > n + Len(t)
    <3>1. i \in (n + Len(t) + 1)..Len(b)
      BY <1>1, <2>0, <2>3
    <3> QED
      BY <2>0, <3>1 DEF PutOf, Chars
  <2> QED
    BY <1>1, <2>1, <2>2, <2>3
<1> QED
  BY <1>2 DEF Chars, PutOf

\* What ewrap leaves, src being where the first il bytes of inner are.
LEMMA WrapBegins ==
    ASSUME NEW b, Chars(b), Len(b) = EbufSize, NEW outer, Chars(outer),
           NEW src, Chars(src), NEW inner, NEW ol \in Nat, NEW il \in Nat,
           ol <= Len(outer), il <= Len(src), Alike(src, inner, il),
           ol + 2 + il < EbufSize
    PROVE  IsLaid(Laid(b, outer, src, ol, il), outer, inner, ol, il)
<1> DEFINE s == SubSeq(src, 1, il)
           o == SubSeq(outer, 1, ol)
           at == ol + 2
           en == ol + 2 + il
           cs == <<Colon, Space>>
           nl == <<Nul>>
           p == Put(b, at, s)
           q == Put(p, 0, o)
           r == Put(q, ol, cs)
           f == Put(r, en, nl)
<1>0. IsStr(b) /\ IsStr(outer) /\ IsStr(src)
  BY DEF Chars
<1>1. /\ Len(outer) \in Nat /\ Len(src) \in Nat /\ EbufSize \in Nat /\ 0 \in Nat
      /\ at \in Nat /\ en \in Nat /\ at + il = en /\ en + 1 <= EbufSize
  BY <1>0, StrIs, BuffersAssumption
<1>2. IsStr(s) /\ Len(s) = il /\ \A i \in 1..il : s[i] = src[i]
  BY ONLY <1>0, il \in Nat, il <= Len(src), StrFirst
<1>3. IsStr(o) /\ Len(o) = ol /\ \A i \in 1..ol : o[i] = outer[i]
  BY ONLY <1>0, ol \in Nat, ol <= Len(outer), StrFirst
<1>4. IsStr(cs) /\ Len(cs) = 2 /\ cs[1] = Colon /\ cs[2] = Space
  BY StrTwo
<1>5. IsStr(nl) /\ Len(nl) = 1 /\ nl[1] = Nul
  BY StrOne
<1>6. Ended(q, ol, il) = f
  BY DEF Ended
<1> HIDE DEF s, o, cs, nl
<1>7. PutOf(p, b, at, s)
  <2>1. at + Len(s) <= Len(b)
    BY <1>1, <1>2
  <2> HIDE DEF at
  <2> QED
    BY ONLY <1>0, <1>1, <1>2, <2>1, PutIs
<1> HIDE DEF p
<1>8. PutOf(q, p, 0, o)
  <2>1. 0 + Len(o) <= Len(p) /\ IsStr(p)
    BY <1>1, <1>3, <1>7 DEF PutOf
  <2> QED
    BY ONLY <1>1, <1>3, <2>1, PutIs
<1> HIDE DEF q
<1>9. Len(q) = EbufSize /\ IsStr(q)
  BY <1>7, <1>8 DEF PutOf
<1>10. PutOf(r, q, ol, cs)
  <2>1. ol + Len(cs) <= Len(q)
    BY <1>1, <1>4, <1>9
  <2> QED
    BY ONLY ol \in Nat, <1>4, <1>9, <2>1, PutIs
<1> HIDE DEF r
<1>11. PutOf(f, r, en, nl)
  <2>1. en + Len(nl) <= Len(r) /\ IsStr(r)
    BY <1>1, <1>5, <1>9, <1>10 DEF PutOf
  <2> HIDE DEF en
  <2> QED
    BY ONLY <1>1, <1>5, <2>1, PutIs
<1> HIDE DEF f
<1>18. Chars(s) /\ Chars(o) /\ Chars(cs) /\ Chars(nl)
  <2>1. \A i \in 1..il : s[i] \in Nat
    <3>1. ASSUME NEW i \in 1..il PROVE s[i] \in Nat
      <4>1. i \in 1..Len(src) /\ s[i] = src[i]
        BY <1>1, <1>2
      <4> QED
        BY <4>1 DEF Chars
    <3> QED
      BY <3>1
  <2>2. \A i \in 1..ol : o[i] \in Nat
    <3>1. ASSUME NEW i \in 1..ol PROVE o[i] \in Nat
      <4>1. i \in 1..Len(outer) /\ o[i] = outer[i]
        BY <1>1, <1>3
      <4> QED
        BY <4>1 DEF Chars
    <3> QED
      BY <3>1
  <2>3. \A i \in 1..2 : cs[i] \in Nat
    BY <1>4, BuffersAssumption
  <2>4. \A i \in 1..1 : nl[i] \in Nat
    BY <1>5, BuffersAssumption
  <2> QED
    BY <1>2, <1>3, <1>4, <1>5, <2>1, <2>2, <2>3, <2>4 DEF Chars
<1>19. Chars(f)
  <2>1. Chars(p)
    BY ONLY <1>1, <1>7, <1>18, Chars(b), PutChars
  <2>2. Chars(q)
    BY ONLY <1>1, <1>8, <1>18, <2>1, PutChars
  <2>3. Chars(r)
    BY ONLY ol \in Nat, <1>10, <1>18, <2>2, PutChars
  <2> QED
    BY ONLY <1>1, <1>11, <1>18, <2>3, PutChars
<1>12. Chars(f) /\ Len(f) = EbufSize
  BY <1>9, <1>10, <1>11, <1>19 DEF PutOf
<1>13. f[en + 1] = Nul
  <2>1. 1 \in 1..Len(nl)
    BY <1>5
  <2> QED
    BY <1>5, <1>11, <2>1 DEF PutOf
<1>14. \A i \in 1..en : f[i] = r[i]
  BY <1>11 DEF PutOf
<1>15. ASSUME NEW i \in 1..ol PROVE f[i] = outer[i]
  <2>1. i \in 1..en /\ i \in 1..Len(o) /\ 0 + i = i
    BY <1>1, <1>3
  <2>2. f[i] = r[i] /\ r[i] = q[i]
    BY <1>10, <1>14, <2>1 DEF PutOf
  <2>3. q[0 + i] = o[i] /\ o[i] = outer[i]
    BY <1>3, <1>8, <2>1 DEF PutOf
  <2> QED
    BY <2>1, <2>2, <2>3
<1>16. f[ol + 1] = Colon /\ f[ol + 2] = Space
  <2>1. ol + 1 \in 1..en /\ ol + 2 \in 1..en
    BY <1>1
  <2>2. 1 \in 1..Len(cs) /\ 2 \in 1..Len(cs)
    BY <1>4
  <2>3. r[ol + 1] = cs[1] /\ r[ol + 2] = cs[2]
    BY <1>10, <2>2 DEF PutOf
  <2> QED
    BY <1>4, <1>14, <2>1, <2>3
<1>17. ASSUME NEW i \in 1..il PROVE f[ol + 2 + i] = inner[i]
  <2>1. at + i \in 1..en /\ i \in 1..Len(s)
    BY <1>1, <1>2
  <2>2. at + i \in (ol + Len(cs) + 1)..Len(q)
    BY <1>1, <1>4, <1>9
  <2>3. at + i \in (0 + Len(o) + 1)..Len(p)
    <3>1. Len(p) = EbufSize
      BY <1>7 DEF PutOf
    <3> QED
      BY <1>1, <1>3, <3>1
  <2>4. f[at + i] = r[at + i]
    BY <1>14, <2>1
  <2>5. r[at + i] = q[at + i]
    BY <1>10, <2>2 DEF PutOf
  <2>6. q[at + i] = p[at + i]
    BY <1>8, <2>3 DEF PutOf
  <2>7. p[at + i] = s[i]
    BY <1>7, <2>1 DEF PutOf
  <2>8. s[i] = inner[i]
    BY <1>2 DEF Alike
  <2> QED
    BY <2>4, <2>5, <2>6, <2>7, <2>8
<1> QED
  BY <1>6, <1>12, <1>13, <1>15, <1>16, <1>17 DEF Begins, IsLaid, Laid, p, q, s, o

\* Two messages that begin alike and are as long are the same.
LEMMA BeginsOnce ==
    ASSUME NEW w, NEW v, IsStr(w), IsStr(v), NEW outer, NEW inner,
           NEW ol \in Nat, NEW il \in Nat, Len(w) = ol + 2 + il, Len(v) = ol + 2 + il,
           Begins(w, outer, inner, ol, il), Begins(v, outer, inner, ol, il)
    PROVE  w = v
<1>1. ASSUME NEW i \in 1..(ol + 2 + il) PROVE w[i] = v[i]
  <2>1. CASE i <= ol
    <3>1. i \in 1..ol
      BY <2>1
    <3> QED
      BY <3>1 DEF Begins
  <2>2. CASE i > ol + 2
    <3> DEFINE k == i - (ol + 2)
    <3>1. k \in 1..il /\ ol + 2 + k = i
      BY <2>2
    <3> HIDE DEF k
    <3>2. w[ol + 2 + k] = inner[k] /\ v[ol + 2 + k] = inner[k]
      BY <3>1 DEF Begins
    <3> QED
      BY <3>1, <3>2
  <2>3. CASE i \in {ol + 1, ol + 2}
    BY <2>3 DEF Begins
  <2> QED
    BY <2>1, <2>2, <2>3
<1> QED
  BY ONLY IsStr(w), IsStr(v), Len(w) = ol + 2 + il, Len(v) = ol + 2 + il, <1>1, StrEqual

\* A message of two whole parts.
LEMMA AllBegins ==
    ASSUME NEW outer, NEW inner, IsStr(outer), IsStr(inner)
    PROVE  LET all == outer \o <<Colon, Space>> \o inner
           IN /\ IsStr(all) /\ Len(all) = Len(outer) + 2 + Len(inner)
              /\ Begins(all, outer, inner, Len(outer), Len(inner))
<1> DEFINE m == Len(outer)
           n == Len(inner)
           cs == <<Colon, Space>>
           oc == outer \o cs
           all == oc \o inner
<1>1. IsStr(cs) /\ Len(cs) = 2 /\ cs[1] = Colon /\ cs[2] = Space
  BY StrTwo
<1> HIDE DEF cs
<1>2. CatOf(oc, outer, cs, Len(outer), Len(cs))
  BY ONLY IsStr(outer), <1>1, CatIs
<1>3. IsStr(oc) /\ Len(oc) = m + 2 /\ m \in Nat
  BY <1>1, <1>2 DEF CatOf
<1> HIDE DEF oc
<1>4. CatOf(all, oc, inner, Len(oc), Len(inner))
  BY ONLY IsStr(inner), <1>3, CatIs
<1> HIDE DEF all
<1>5. IsStr(all) /\ Len(all) = m + 2 + n /\ n \in Nat
  BY <1>3, <1>4 DEF CatOf
<1>6. \A i \in 1..(m + 2) : all[i] = oc[i]
  BY <1>3, <1>4 DEF CatOf
<1>7. \A i \in 1..m : all[i] = outer[i]
  BY <1>2, <1>3, <1>6 DEF CatOf
<1>8. all[m + 1] = Colon /\ all[m + 2] = Space
  <2>1. m + 1 \in 1..(m + 2) /\ m + 2 \in 1..(m + 2) /\ 1 \in 1..Len(cs) /\ 2 \in 1..Len(cs)
    BY <1>1, <1>3
  <2>2. oc[m + 1] = cs[1] /\ oc[m + 2] = cs[2]
    BY <1>2, <2>1 DEF CatOf
  <2> QED
    BY <1>1, <1>6, <2>1, <2>2
<1>9. \A i \in 1..n : all[m + 2 + i] = inner[i]
  BY <1>3, <1>4 DEF CatOf
<1> QED
  BY <1>5, <1>7, <1>8, <1>9 DEF Begins, all, oc, cs

\* What fits of two parts is their message, cut.
LEMMA WrappedBegins ==
    ASSUME NEW outer, NEW inner, Text(outer), Text(inner)
    PROVE  LET w == Wrapped(outer, inner)
               fit == Fitted(Len(outer), Len(inner))
               ol == fit[1]
               il == fit[2]
           IN /\ ol \in Nat /\ il \in Nat /\ ol <= Len(outer) /\ il <= Len(inner)
              /\ ol + 2 + il < EbufSize
              /\ IsStr(w) /\ Len(w) = ol + 2 + il /\ Begins(w, outer, inner, ol, il)
<1> DEFINE w == Wrapped(outer, inner)
           m == Len(outer)
           n == Len(inner)
           fit == Fitted(m, n)
           cs == <<Colon, Space>>
           all == outer \o cs \o inner
<1>1. /\ IsStr(outer) /\ IsStr(inner) /\ m \in Nat /\ n \in Nat
      /\ EbufSize \in Nat /\ EbufSize > 3
  BY StrIs, BuffersAssumption DEF Text
<1>2. IsStr(cs) /\ Len(cs) = 2 /\ cs[1] = Colon /\ cs[2] = Space
  BY StrTwo
<1>3. IsStr(all) /\ Len(all) = m + 2 + n /\ Begins(all, outer, inner, m, n)
  BY <1>1, AllBegins
<1>5. CASE m + 3 > EbufSize
  <2> DEFINE k == EbufSize - 3
             o == SubSeq(outer, 1, k)
  <2>1. k \in Nat /\ k <= m /\ k + 2 + 0 < EbufSize
    BY <1>1, <1>5
  <2>2. fit = <<EbufSize - 2 - 1, 0>>
    BY <1>1, <1>5 DEF Fitted
  <2>3. fit[1] = k /\ fit[2] = 0
    BY <1>1, <2>2
  <2>4. w = o \o cs
    BY <1>5 DEF Wrapped
  <2> HIDE DEF k, cs
  <2>5. IsStr(o) /\ Len(o) = k /\ \A i \in 1..k : o[i] = outer[i]
    BY <1>1, <2>1, StrFirst
  <2> HIDE DEF o, w
  <2>6. CatOf(w, o, cs, k, 2)
    <3>1. CatOf(o \o cs, o, cs, Len(o), Len(cs))
      BY ONLY <1>2, <2>5, CatIs
    <3> QED
      BY <1>2, <2>4, <2>5, <3>1
  <2>7. IsStr(w) /\ Len(w) = k + 2 + 0
    BY <2>1, <2>6 DEF CatOf
  <2>8. Begins(w, outer, inner, k, 0)
    <3>1. w[k + 1] = Colon /\ w[k + 2] = Space
      BY <1>2, <2>6 DEF CatOf
    <3>2. \A i \in 1..k : w[i] = outer[i]
      BY <2>5, <2>6 DEF CatOf
    <3> QED
      BY <3>1, <3>2 DEF Begins
  <2> QED
    BY <1>1, <2>1, <2>3, <2>7, <2>8 DEF w
<1>6. CASE m + 2 + n + 1 <= EbufSize
  <2>1. ~(m + 3 > EbufSize) /\ m + 2 + n < EbufSize
    BY <1>1, <1>6
  <2>2. fit = <<m, n>>
    BY <1>6 DEF Fitted
  <2>3. fit[1] = m /\ fit[2] = n
    BY <2>2
  <2>4. w = all
    BY <1>3, <2>1 DEF Wrapped
  <2> HIDE DEF all, w, cs
  <2> QED
    BY <1>1, <1>3, <2>1, <2>3, <2>4 DEF w
<1>7. CASE m + 3 <= EbufSize /\ m + 2 + n + 1 > EbufSize
  <2> DEFINE k == EbufSize - m - 2 - 1
             c == EbufSize - 1
             p == SubSeq(all, 1, c)
  <2>1. k \in Nat /\ k <= n /\ m + 2 + k < EbufSize /\ m + 2 + k = c /\ c \in Nat
        /\ c <= m + 2 + n
    BY <1>1, <1>7
  <2>2. fit = <<m, k>>
    BY <1>1, <1>7 DEF Fitted
  <2>3. fit[1] = m /\ fit[2] = k
    BY <2>2
  <2>4. w = p
    BY <1>1, <1>3, <1>7 DEF Wrapped
  <2> HIDE DEF all, w, cs, k, c
  <2>5. IsStr(p) /\ Len(p) = c /\ \A i \in 1..c : p[i] = all[i]
    BY <1>3, <2>1, StrFirst
  <2> HIDE DEF p
  <2>6. Begins(p, outer, inner, m, k)
    <3>1. \A i \in 1..m : i \in 1..c
      BY <1>1, <2>1
    <3>2. m + 1 \in 1..c /\ m + 2 \in 1..c
      BY <1>1, <2>1
    <3>3. \A i \in 1..k : m + 2 + i \in 1..c /\ i \in 1..n
      BY <1>1, <2>1
    <3> QED
      BY <1>3, <2>5, <3>1, <3>2, <3>3 DEF Begins
  <2> QED
    BY <1>1, <2>1, <2>3, <2>4, <2>5, <2>6 DEF w
<1> HIDE DEF w, fit
<1> QED
  BY <1>1, <1>5, <1>6, <1>7 DEF w, fit

LEMMA BeginsText ==
    ASSUME NEW w, NEW outer, NEW inner, IsStr(w), Text(outer), Text(inner),
           NEW ol \in Nat, NEW il \in Nat, ol <= Len(outer), il <= Len(inner),
           Len(w) = ol + 2 + il, Begins(w, outer, inner, ol, il)
    PROVE  Text(w)
<1>1. Len(outer) \in Nat /\ Len(inner) \in Nat
  BY StrIs DEF Text
<1>2. ASSUME NEW i \in 1..Len(w) PROVE w[i] \in Nat \ {Nul}
  <2>1. CASE i <= ol
    <3>1. i \in 1..ol /\ i \in 1..Len(outer)
      BY <1>1, <2>1
    <3> QED
      BY <3>1 DEF Begins, Text
  <2>2. CASE i > ol + 2
    <3> DEFINE k == i - (ol + 2)
    <3>1. k \in 1..il /\ ol + 2 + k = i /\ k \in 1..Len(inner)
      BY <1>1, <2>2
    <3> HIDE DEF k
    <3>2. w[ol + 2 + k] = inner[k] /\ inner[k] \in Nat \ {Nul}
      BY <3>1 DEF Begins, Text
    <3> QED
      BY <3>1, <3>2
  <2>3. CASE i \in {ol + 1, ol + 2}
    BY <2>3, BuffersAssumption DEF Begins
  <2> QED
    BY <2>1, <2>2, <2>3
<1> QED
  BY <1>2 DEF Text

\* ewrap leaves the message of the two parts, wherever the inner one was.
LEMMA WrapHolds ==
    ASSUME NEW b, Chars(b), Len(b) = EbufSize, NEW outer, Text(outer),
           NEW inner, Text(inner), NEW place,
           \/ place = <<inner>>
           \/ place = <<>> /\ Holding(b, inner)
    PROVE  Holding(ewrap(b, outer, place), Wrapped(outer, inner))
<1> DEFINE src == IF place = <<>> THEN b ELSE place[1]
           fit == Fitted(Len(outer), Len(inner))
           ol == fit[1]
           il == fit[2]
           w == Wrapped(outer, inner)
           f == Laid(b, outer, src, ol, il)
<1>1. IsStr(outer) /\ IsStr(inner) /\ Len(inner) \in Nat /\ EbufSize \in Nat
  BY StrIs, BuffersAssumption DEF Text
<1>2. /\ ol \in Nat /\ il \in Nat /\ ol <= Len(outer) /\ il <= Len(inner)
      /\ ol + 2 + il < EbufSize
      /\ IsStr(w) /\ Len(w) = ol + 2 + il /\ Begins(w, outer, inner, ol, il)
  BY WrappedBegins
<1>3. Inner(b, place) = inner /\ Chars(src) /\ il <= Len(src)
      /\ \A i \in 1..il : src[i] = inner[i]
  <2>1. CASE place = <<inner>>
    <3>1. place # <<>> /\ place[1] = inner
      BY <2>1
    <3>2. Chars(inner)
      BY DEF Text, Chars
    <3> HIDE DEF fit
    <3> QED
      BY <1>1, <1>2, <3>1, <3>2 DEF Inner
  <2>2. CASE place = <<>> /\ Holding(b, inner)
    <3>1. CString(b) = inner
      BY <2>2, HoldingString
    <3>2. src = b /\ Inner(b, place) = inner
      BY <2>2, <3>1 DEF Inner
    <3>3. Len(inner) < EbufSize /\ \A i \in 1..Len(inner) : b[i] = inner[i]
      BY <2>2 DEF Holding
    <3> HIDE DEF fit
    <3>4. \A i \in 1..il : i \in 1..Len(inner)
      BY <1>1, <1>2
    <3> QED
      BY <1>1, <1>2, <3>2, <3>3, <3>4
  <2> QED
    BY <2>1, <2>2
<1>4. ewrap(b, outer, place) = f
  BY <1>3 DEF ewrap, From, Laid
<1> HIDE DEF fit, src, w, ol, il
<1>0. Chars(outer) /\ Chars(inner)
  BY DEF Text, Chars
<1>5. Chars(f) /\ IsStr(f) /\ Len(f) = EbufSize /\ Begins(f, outer, inner, ol, il)
      /\ f[ol + 2 + il + 1] = Nul
  <2>1. Alike(src, inner, il)
    BY <1>3 DEF Alike
  <2>2. IsLaid(f, outer, inner, ol, il)
    BY ONLY Chars(b), Len(b) = EbufSize, <1>0, <1>2, <1>3, <2>1, WrapBegins
  <2> QED
    BY <2>2 DEF IsLaid, Chars
<1> HIDE DEF f
<1>6. Text(w)
  BY <1>2, BeginsText
<1>7. Len(w) \in Nat /\ Len(w) < EbufSize /\ f[Len(w) + 1] = Nul
  BY <1>2, <1>5
<1>8. ASSUME NEW i \in 1..Len(w) PROVE f[i] = w[i]
  <2> DEFINE n == ol + 2 + il
             g == SubSeq(f, 1, n)
  <2>1. n \in Nat /\ n <= Len(f) /\ n = Len(w)
    BY <1>1, <1>2, <1>5
  <2> HIDE DEF n
  <2>2. IsStr(g) /\ Len(g) = n /\ \A j \in 1..n : g[j] = f[j]
    BY <1>5, <2>1, StrFirst
  <2> HIDE DEF g
  <2>3. Begins(g, outer, inner, ol, il)
    <3>1. \A j \in 1..ol : j \in 1..n
      BY <1>2, <2>1 DEF n
    <3>2. ol + 1 \in 1..n /\ ol + 2 \in 1..n
      BY <1>2 DEF n
    <3>3. \A j \in 1..il : ol + 2 + j \in 1..n
      BY <1>2, <2>1 DEF n
    <3> QED
      BY <1>5, <2>2, <3>1, <3>2, <3>3 DEF Begins
  <2>4. Len(g) = ol + 2 + il
    BY <2>2 DEF n
  <2>5. g = w
    BY ONLY <1>2, <2>2, <2>3, <2>4, BeginsOnce
  <2> QED
    BY <2>1, <2>2, <2>5
<1>9. Holding(f, w)
  BY <1>5, <1>6, <1>7, <1>8 DEF Holding
<1> QED
  BY <1>4, <1>9 DEF w

-----------------------------------------------------------------------------
(* memio.c                                                                 *)

LEMMA TwoToIs == TwoTo[0] = 1 /\ \A n \in Nat : TwoTo[n + 1] = 2 * TwoTo[n]
<1> DEFINE G == [i \in Nat |-> [x \in Nat |-> 2 * x]]
           It(f) == f = [n \in Nat |-> IF n = 0 THEN 1 ELSE 2 * f[n - 1]]
<1>g. \A i \in Nat : \A x \in Nat : G[i][x] = 2 * x
  OBVIOUS
<1> HIDE DEF G
<1>1. PICK f : Iterates(f, 1, G)
  BY IterateExists
<1> DEFINE P == {n \in Nat : f[n] \in Nat}
<1>2. Nat \subseteq P
  <2>1. 0 \in P
    BY <1>1 DEF Iterates
  <2>2. ASSUME NEW n \in Nat, n \in P PROVE n + 1 \in P
    <3>1. f[n + 1] = G[n + 1][f[n]] /\ n + 1 \in Nat /\ f[n] \in Nat
      BY <1>1, <2>2 DEF Iterates
    <3>2. f[n + 1] \in Nat
      BY <1>g, <3>1
    <3> QED
      BY <3>2
  <2> HIDE DEF P
  <2> QED
    BY <2>1, <2>2, NatInduct
<1>3. \A n \in Nat : f[n] \in Nat
  BY <1>2
<1>4. \A n \in Nat : f[n + 1] = 2 * f[n]
  <2> TAKE n \in Nat
  <2>1. f[n + 1] = G[n + 1][f[n]]
    BY <1>1 DEF Iterates
  <2>2. n + 1 \in Nat /\ f[n] \in Nat
    BY ONLY <1>3, n \in Nat
  <2> QED
    BY ONLY <1>g, <2>1, <2>2
<1>5. It(f)
  <2>1. ASSUME NEW n \in Nat PROVE f[n] = IF n = 0 THEN 1 ELSE 2 * f[n - 1]
    <3>1. CASE n = 0
      BY <1>1, <3>1 DEF Iterates
    <3>2. CASE n # 0
      <4>1. n - 1 \in Nat /\ (n - 1) + 1 = n
        BY <3>2
      <4>2. f[(n - 1) + 1] = 2 * f[n - 1]
        BY <1>4, <4>1
      <4> QED
        BY <3>2, <4>1, <4>2
    <3> QED
      BY <3>1, <3>2
  <2> QED
    BY <1>1, <2>1 DEF Iterates
<1>6. TwoTo = CHOOSE g : It(g)
  BY DEF TwoTo
<1>7. It(TwoTo)
  <2> HIDE DEF It
  <2> QED
    BY <1>5, <1>6
<1>8. TwoTo[0] = 1
  BY <1>7
<1>9. ASSUME NEW n \in Nat PROVE TwoTo[n + 1] = 2 * TwoTo[n]
  <2>1. n + 1 \in Nat /\ n + 1 # 0 /\ (n + 1) - 1 = n
    OBVIOUS
  <2> QED
    BY <1>7, <2>1
<1> QED
  BY <1>8, <1>9

LEMMA TwoToIsNat == \A n \in Nat : TwoTo[n] \in Nat /\ TwoTo[n] >= 1
<1> DEFINE P == {n \in Nat : TwoTo[n] \in Nat /\ TwoTo[n] >= 1}
<1>1. 0 \in P
  BY TwoToIs
<1>2. ASSUME NEW n \in Nat, n \in P PROVE n + 1 \in P
  <2>1. TwoTo[n + 1] = 2 * TwoTo[n] /\ TwoTo[n] \in Nat /\ TwoTo[n] >= 1
    BY <1>2, TwoToIs
  <2> QED
    BY <2>1
<1> HIDE DEF P
<1>3. Nat \subseteq P
  BY <1>1, <1>2, NatInduct
<1> QED
  BY <1>3 DEF P

LEMMA TwoToGrows ==
    ASSUME NEW m \in Nat, NEW k \in Nat
    PROVE  TwoTo[m] <= TwoTo[m + k]
<1> DEFINE P == {i \in Nat : TwoTo[m] <= TwoTo[m + i]}
<1>1. 0 \in P
  BY TwoToIsNat
<1>2. ASSUME NEW i \in Nat, i \in P PROVE i + 1 \in P
  <2>1. m + i \in Nat /\ m + (i + 1) = (m + i) + 1
    OBVIOUS
  <2>2. TwoTo[(m + i) + 1] = 2 * TwoTo[m + i] /\ TwoTo[m + i] \in Nat /\ TwoTo[m] \in Nat
    BY <2>1, TwoToIs, TwoToIsNat
  <2>3. TwoTo[m] <= TwoTo[m + i]
    BY <1>2
  <2> QED
    BY <2>1, <2>2, <2>3
<1> HIDE DEF P
<1>3. Nat \subseteq P
  BY <1>1, <1>2, NatInduct
<1> QED
  BY <1>3 DEF P

LEMMA TwoToOrder ==
    ASSUME NEW m \in Nat, NEW n \in Nat
    PROVE  m <= n => TwoTo[m] <= TwoTo[n]
<1> SUFFICES ASSUME m <= n PROVE TwoTo[m] <= TwoTo[n]
  OBVIOUS
<1> DEFINE k == n - m
<1>1. k \in Nat /\ m + k = n
  OBVIOUS
<1> HIDE DEF k
<1> QED
  BY <1>1, TwoToGrows

\* The capacities a sink can have.
IsCap(c) == \E k \in Nat : c = FirstCap * TwoTo[k] /\ c < SizeVals

LEMMA SizeValsIs == SizeVals \in Nat /\ SizeVals >= 1 /\ FirstCap \in Nat /\ FirstCap >= 1
                    /\ FirstCap < SizeVals
  BY BuffersAssumption, TwoToIsNat DEF SizeVals

LEMMA ProductNat ==
    ASSUME NEW a \in Nat, NEW x \in Nat, a >= 1, x >= 1
    PROVE  a * x \in Nat /\ a * x >= 1 /\ a * x >= x
<1>1. x * a \in Nat /\ a * x = x * a
  OBVIOUS
<1>2. PICK b \in Nat : a = b + 1
  BY a - 1 \in Nat
<1>3. a * x = b * x + x /\ b * x \in Nat
  BY <1>2
<1> QED
  BY <1>1, <1>3

LEMMA CapIsNat == ASSUME NEW c, IsCap(c) PROVE c \in Nat /\ c >= 1 /\ c < SizeVals
  BY ProductNat, TwoToIsNat, SizeValsIs DEF IsCap

LEMMA FirstIsCap == IsCap(FirstCap)
<1>1. FirstCap = FirstCap * TwoTo[0] /\ 0 \in Nat
  BY TwoToIs, SizeValsIs
<1> QED
  BY <1>1, SizeValsIs DEF IsCap

LEMMA CapDoubles ==
    ASSUME NEW c, IsCap(c), 2 * c < SizeVals
    PROVE  IsCap(2 * c)
<1>1. PICK k \in Nat : c = FirstCap * TwoTo[k]
  BY DEF IsCap
<1>2. TwoTo[k + 1] = 2 * TwoTo[k] /\ TwoTo[k] \in Nat /\ FirstCap \in Nat
  BY TwoToIs, TwoToIsNat, SizeValsIs
<1> DEFINE t == TwoTo[k]
<1>3. FirstCap * (2 * t) = 2 * (FirstCap * t)
  <2> HIDE DEF t
  <2>1. t \in Nat
    BY <1>2 DEF t
  <2> QED
    BY ONLY <2>1, <1>2
<1>4. 2 * c = FirstCap * TwoTo[k + 1] /\ k + 1 \in Nat
  BY <1>1, <1>2, <1>3
<1> QED
  BY <1>4 DEF IsCap

LEMMA ProductGrows ==
    ASSUME NEW a \in Nat, NEW x \in Nat, NEW y \in Nat, x <= y
    PROVE  a * x <= a * y
<1>1. PICK d \in Nat : y = x + d
  BY y - x \in Nat
<1>2. a * y = a * x + a * d /\ a * d \in Nat /\ a * x \in Nat
  BY <1>1
<1> QED
  BY <1>2

\* One capacity above another is at least twice it.
LEMMA CapsApart ==
    ASSUME NEW c, NEW d, IsCap(c), IsCap(d), c < d
    PROVE  2 * c <= d
<1>1. PICK j \in Nat : c = FirstCap * TwoTo[j]
  BY DEF IsCap
<1>2. PICK k \in Nat : d = FirstCap * TwoTo[k]
  BY DEF IsCap
<1> DEFINE F == FirstCap
           s == TwoTo[j]
           t == TwoTo[k]
           u == TwoTo[j + 1]
<1>3. F \in Nat /\ s \in Nat /\ t \in Nat /\ u \in Nat /\ u = 2 * s
  BY TwoToIs, TwoToIsNat, SizeValsIs
<1>4. CASE k <= j
  <2>1. t <= s
    BY <1>4, TwoToOrder
  <2> HIDE DEF F, s, t, u
  <2>2. F * t <= F * s
    BY ONLY <1>3, <2>1, ProductGrows
  <2>3. d <= c /\ c \in Nat /\ d \in Nat
    BY <1>1, <1>2, <2>2, CapIsNat DEF F, s, t
  <2> QED
    BY <2>3
<1>5. CASE j + 1 <= k
  <2>1. u <= t
    BY <1>5, TwoToOrder
  <2> HIDE DEF F, s, t, u
  <2>2. F * u <= F * t
    BY ONLY <1>3, <2>1, ProductGrows
  <2>3. F * u = 2 * (F * s)
    BY ONLY <1>3
  <2> QED
    BY <1>1, <1>2, <2>2, <2>3 DEF F, s, t
<1> QED
  BY <1>4, <1>5

LEMMA HoldsIs ==
    ASSUME NEW n \in Nat, NEW gives \in Nat
    PROVE  Holds(n, gives) <=> \E c : IsCap(c) /\ c >= n /\ c <= gives
<1>1. ASSUME Holds(n, gives) PROVE \E c : IsCap(c) /\ c >= n /\ c <= gives
  <2>1. PICK k \in 0..SizeBits :
           FirstCap * TwoTo[k] >= n /\ FirstCap * TwoTo[k] < SizeVals /\ FirstCap * TwoTo[k] <= gives
    BY <1>1 DEF Holds
  <2>2. k \in Nat
    BY BuffersAssumption
  <2> QED
    BY <2>1, <2>2 DEF IsCap
<1>2. ASSUME NEW c, IsCap(c), c >= n, c <= gives PROVE Holds(n, gives)
  <2>1. PICK k \in Nat : c = FirstCap * TwoTo[k] /\ c < SizeVals
    BY <1>2 DEF IsCap
  <2>2. FirstCap * TwoTo[k] >= TwoTo[k]
    BY ProductNat, TwoToIsNat, SizeValsIs
  <2>3. k <= SizeBits
    <3>1. SUFFICES ASSUME SizeBits <= k PROVE FALSE
      BY BuffersAssumption
    <3>2. TwoTo[SizeBits] <= TwoTo[k]
      BY <3>1, BuffersAssumption, TwoToOrder
    <3> QED
      BY <2>1, <2>2, <3>2, TwoToIsNat, CapIsNat, <1>2, SizeValsIs DEF SizeVals
  <2>4. k \in 0..SizeBits
    BY <2>3, BuffersAssumption
  <2> QED
    BY <1>2, <2>1, <2>4 DEF Holds
<1> QED
  BY <1>1, <1>2

\* What Doubled's recursion says of a function, at c.
Grows(g, c, need) ==
    g[c] = IF c >= need THEN c
           ELSE IF c > (SizeVals - 1) \div 2 THEN 0 ELSE g[2 * c]
\* A function that takes Doubled's steps from every number but 0 that is k below
\* the number of sizes or more.
Grown(k, need) ==
    \E g : /\ g = [c \in {x \in Nat \ {0} : x + k >= SizeVals} |-> g[c]]
           /\ \A c \in {x \in Nat \ {0} : x + k >= SizeVals} : Grows(g, c, need)

LEMMA HalfIs ==
    ASSUME NEW c \in Nat
    PROVE  c > (SizeVals - 1) \div 2 <=> 2 * c >= SizeVals
<1>1. SizeVals \in Nat /\ SizeVals >= 1
  BY SizeValsIs
<1> DEFINE s == SizeVals
           h == (s - 1) \div 2
<1>2. h \in Nat /\ 2 * h <= s - 1 /\ s - 1 < 2 * h + 2
  <2> HIDE DEF s
  <2>1. s \in Nat /\ s >= 1
    BY <1>1 DEF s
  <2> QED
    BY ONLY <2>1
<1> HIDE DEF h
<1> QED
  BY <1>1, <1>2 DEF h

LEMMA GrownExists ==
    ASSUME NEW need \in Nat
    PROVE  \A k \in Nat : Grown(k, need)
<1> DEFINE P == {k \in Nat : Grown(k, need)}
           Dom(k) == {x \in Nat \ {0} : x + k >= SizeVals}
<1>s. SizeVals \in Nat /\ SizeVals >= 1
  BY SizeValsIs
<1>1. 0 \in P
  <2> DEFINE g == [c \in Dom(0) |-> IF c >= need THEN c ELSE 0]
  <2>1. ASSUME NEW c \in Dom(0) PROVE Grows(g, c, need)
    <3>1. 2 * c >= SizeVals /\ c \in Nat
      BY <1>s
    <3>2. c > (SizeVals - 1) \div 2
      BY <3>1, HalfIs
    <3>3. g[c] = IF c >= need THEN c ELSE 0
      OBVIOUS
    <3> QED
      BY <3>2, <3>3 DEF Grows
  <2>2. g = [c \in Dom(0) |-> g[c]]
    OBVIOUS
  <2> HIDE DEF g
  <2> QED
    BY <2>1, <2>2 DEF Grown
<1>2. ASSUME NEW k \in Nat, k \in P PROVE k + 1 \in P
  <2>1. PICK g : /\ g = [c \in Dom(k) |-> g[c]]
                 /\ \A c \in Dom(k) : Grows(g, c, need)
    BY <1>2 DEF Grown
  <2> DEFINE e == [c \in Dom(k + 1) |->
                     IF c \in Dom(k) THEN g[c]
                     ELSE IF c >= need THEN c
                     ELSE IF c > (SizeVals - 1) \div 2 THEN 0 ELSE g[2 * c]]
  <2>2. \A c \in Dom(k + 1) :
          e[c] = IF c \in Dom(k) THEN g[c]
                 ELSE IF c >= need THEN c
                 ELSE IF c > (SizeVals - 1) \div 2 THEN 0 ELSE g[2 * c]
    OBVIOUS
  <2>3. e = [c \in Dom(k + 1) |-> e[c]]
    OBVIOUS
  <2>4. \A c \in Dom(k) : c \in Dom(k + 1) /\ 2 * c \in Dom(k)
    BY <1>s
  <2>5. \A c \in Dom(k + 1) : 2 * c \in Dom(k) /\ 2 * c \in Dom(k + 1)
    BY <1>s
  <2> HIDE DEF e, Dom
  <2>6. ASSUME NEW c \in Dom(k + 1) PROVE Grows(e, c, need)
    <3>1. e[2 * c] = g[2 * c]
      BY <2>2, <2>5
    <3>2. CASE c \in Dom(k)
      <4>1. Grows(g, c, need) /\ e[c] = g[c]
        BY <2>1, <2>2, <2>4, <3>2
      <4> QED
        BY <3>1, <4>1 DEF Grows
    <3>3. CASE c \notin Dom(k)
      BY <2>2, <3>1, <3>3 DEF Grows
    <3> QED
      BY <3>2, <3>3
  <2> QED
    BY <2>3, <2>6 DEF Grown, Dom
<1> HIDE DEF P
<1>3. Nat \subseteq P
  BY <1>1, <1>2, NatInduct
<1> QED
  BY <1>3 DEF P

\* Doubled finds the least capacity from c on that holds need, if there is one.
GoodCap(r, c, need) ==
    \/ IsCap(r) /\ r >= need /\ \A d : IsCap(d) /\ d >= need /\ d >= c => r <= d
    \/ r = 0 /\ \A d : IsCap(d) => d < need

LEMMA GrowsWell ==
    ASSUME NEW need \in Nat, need < SizeVals, NEW g,
           \A c \in Nat : Grows(g, c, need)
    PROVE  \A c : IsCap(c) => GoodCap(g[c], c, need)
<1>s. SizeVals \in Nat /\ SizeVals >= 1
  BY SizeValsIs
<1> DEFINE P == {k \in Nat : \A c : IsCap(c) /\ c + k >= SizeVals => GoodCap(g[c], c, need)}
<1>1. 0 \in P
  <2>1. ASSUME NEW c, IsCap(c), c + 0 >= SizeVals PROVE FALSE
    BY <1>s, <2>1, CapIsNat
  <2> QED
    BY <2>1
<1>2. ASSUME NEW k \in Nat, k \in P PROVE k + 1 \in P
  <2>1. ASSUME NEW c, IsCap(c), c + (k + 1) >= SizeVals
        PROVE  GoodCap(g[c], c, need)
    <3>1. c \in Nat /\ c >= 1 /\ c < SizeVals /\ Grows(g, c, need)
      BY <2>1, CapIsNat
    <3>2. CASE c >= need
      <4>1. g[c] = c
        BY <3>1, <3>2 DEF Grows
      <4>2. \A d : IsCap(d) /\ d >= c => c <= d
        BY <3>1, CapIsNat
      <4> QED
        BY <2>1, <3>2, <4>1, <4>2 DEF GoodCap
    <3>3. CASE ~(c >= need) /\ c > (SizeVals - 1) \div 2
      <4>1. g[c] = 0 /\ 2 * c >= SizeVals
        BY <3>1, <3>3, HalfIs DEF Grows
      <4>2. ASSUME NEW d, IsCap(d) PROVE d < need
        <5>1. d \in Nat /\ d < SizeVals
          BY <4>2, CapIsNat
        <5>2. ~(c < d)
          <6>1. SUFFICES ASSUME c < d PROVE FALSE
            OBVIOUS
          <6>2. 2 * c <= d
            BY ONLY <2>1, <4>2, <6>1, CapsApart
          <6> QED
            BY <1>s, <3>1, <4>1, <5>1, <6>2
        <5> QED
          BY <3>1, <3>3, <5>1, <5>2
      <4> QED
        BY <4>1, <4>2 DEF GoodCap
    <3>4. CASE ~(c >= need) /\ ~(c > (SizeVals - 1) \div 2)
      <4>1. g[c] = g[2 * c]
        BY <3>1, <3>4 DEF Grows
      <4>2. 2 * c < SizeVals
        BY <1>s, <3>1, <3>4, HalfIs
      <4>3. IsCap(2 * c)
        BY <2>1, <4>2, CapDoubles
      <4>4. 2 * c + k >= SizeVals
        BY <1>s, <2>1, <3>1
      <4>5. GoodCap(g[2 * c], 2 * c, need)
        BY <1>2, <4>3, <4>4
      <4>6. ASSUME NEW d, IsCap(d), d >= need, d >= c PROVE d >= 2 * c
        <5>1. d \in Nat /\ c < d
          BY <3>1, <3>4, <4>6, CapIsNat
        <5>2. 2 * c <= d
          BY ONLY <2>1, <4>6, <5>1, CapsApart
        <5> QED
          BY <3>1, <5>1, <5>2
      <4> QED
        BY <4>1, <4>5, <4>6 DEF GoodCap
    <3> QED
      BY <3>2, <3>3, <3>4
  <2> QED
    BY <2>1
<1>3. Nat \subseteq P
  <2> HIDE DEF P
  <2> QED
    BY <1>1, <1>2, NatInduct
<1>4. ASSUME NEW c, IsCap(c) PROVE GoodCap(g[c], c, need)
  <2>1. SizeVals \in P /\ c + SizeVals >= SizeVals
    BY <1>s, <1>3, <1>4, CapIsNat
  <2> QED
    BY <1>4, <2>1
<1> QED
  BY <1>4

LEMMA DoubledIs ==
    ASSUME NEW cap, cap = 0 \/ IsCap(cap), NEW need \in Nat, need < SizeVals
    PROVE  GoodCap(Doubled(cap, need), IF cap = 0 THEN FirstCap ELSE cap, need)
<1> DEFINE It(g) == g = [c \in Nat |-> IF c >= need THEN c
                                       ELSE IF c > (SizeVals - 1) \div 2 THEN 0
                                       ELSE g[2 * c]]
           f == CHOOSE g : It(g)
           from == IF cap = 0 THEN FirstCap ELSE cap
<1>s. SizeVals \in Nat /\ SizeVals >= 1
  BY SizeValsIs
<1>1. \E g : It(g)
  <2>1. Grown(SizeVals, need)
    BY <1>s, GrownExists
  <2> DEFINE Dom == {x \in Nat \ {0} : x + SizeVals >= SizeVals}
  <2>2. PICK g : \A c \in Dom : Grows(g, c, need)
    BY <2>1 DEF Grown
  <2>3. \A c \in Nat : c # 0 => c \in Dom /\ 2 * c # 0
    BY <1>s
  <2> HIDE DEF Dom
  <2> DEFINE e == [c \in Nat |-> IF c = 0 THEN 0 ELSE g[c]]
  <2>4. \A c \in Nat : e[c] = IF c = 0 THEN 0 ELSE g[c]
    OBVIOUS
  <2>5. ASSUME NEW c \in Nat PROVE Grows(e, c, need)
    <3>1. CASE c = 0
      <4>1. e[c] = 0 /\ e[2 * c] = 0 /\ c = 0
        BY <3>1
      <4> HIDE DEF e
      <4> QED
        BY <4>1 DEF Grows
    <3>2. CASE c # 0
      <4>1. Grows(g, c, need) /\ 2 * c \in Nat /\ 2 * c # 0
        BY <2>2, <2>3, <3>2
      <4>2. e[c] = g[c] /\ e[2 * c] = g[2 * c]
        BY <2>4, <3>2, <4>1
      <4> HIDE DEF e
      <4> QED
        BY <4>1, <4>2 DEF Grows
    <3> QED
      BY <3>1, <3>2
  <2>6. e = [c \in Nat |-> e[c]]
    OBVIOUS
  <2> HIDE DEF e
  <2>7. It(e)
    BY <2>5, <2>6 DEF Grows
  <2> QED
    BY <2>7
<1>2. It(f)
  <2> HIDE DEF It
  <2> QED
    BY <1>1
<1>3. Doubled(cap, need) = f[from]
  BY DEF Doubled
<1> HIDE DEF f
<1>4. \A c \in Nat : Grows(f, c, need)
  BY <1>2 DEF Grows
<1> HIDE DEF It
<1>5. IsCap(from)
  BY FirstIsCap
<1>6. GoodCap(f[from], from, need)
  BY <1>4, <1>5, GrowsWell
<1> QED
  BY <1>3, <1>6

\* The least capacity is the first.
LEMMA FirstIsLeast == ASSUME NEW c, IsCap(c) PROVE c >= FirstCap
<1>1. PICK k \in Nat : c = FirstCap * TwoTo[k]
  BY DEF IsCap
<1> DEFINE F == FirstCap
           t == TwoTo[k]
<1>2. F \in Nat /\ F >= 1 /\ t \in Nat /\ t >= 1
  BY TwoToIsNat, SizeValsIs
<1>3. c = F * t
  BY <1>1
<1> HIDE DEF F, t
<1>4. t * F >= F /\ F * t = t * F
  BY ONLY <1>2, ProductNat
<1> QED
  BY <1>3, <1>4 DEF F

\* A sink as memwrite() leaves it.
SinkOK(x) ==
    /\ IsStr(x.data) /\ x.cap \in Nat /\ (x.cap = 0 \/ IsCap(x.cap))
    /\ Len(x.data) <= x.cap /\ x.room = x.cap
    /\ x = [data |-> x.data, cap |-> x.cap, room |-> x.room, ok |-> x.ok]
\* The sink y is what a write of b makes of x.
Written(y, x, b, gives) ==
    /\ Len(y.data) <= y.cap /\ y.cap = y.room
    /\ y.ok <=> Len(x.data \o b) <= x.cap \/ Holds(Len(x.data \o b), gives)
    /\ y.data = IF y.ok THEN x.data \o b ELSE x.data
    /\ ~y.ok => y.cap = x.cap

LEMMA WriteExact ==
    ASSUME NEW x, SinkOK(x), NEW b, IsStr(b), Len(b) < SizeVals, NEW gives \in Nat
    PROVE  SinkOK(memwrite(x, b, gives)) /\ Written(memwrite(x, b, gives), x, b, gives)
<1> DEFINE l == Len(x.data)
           k == Len(b)
           n == l + k
           xb == x.data \o b
           need == Need(x, b)
           cap == NewCap(x, need)
           fails == TooLong(x, need) \/ (need > x.cap /\ cap > gives)
           y == memwrite(x, b, gives)
<1>s. SizeVals \in Nat /\ SizeVals >= 1
  BY SizeValsIs
<1>1. l \in Nat /\ k \in Nat /\ k < SizeVals
  BY StrIs DEF SinkOK
<1>2. x.cap \in Nat /\ x.cap < SizeVals /\ l <= x.cap
  BY <1>s, CapIsNat DEF SinkOK
<1>3. /\ need \in Nat /\ need < SizeVals
      /\ (n < SizeVals => need = n)
      /\ (n >= SizeVals => need = n - SizeVals)
  <2> DEFINE s == SizeVals
             t == n
  <2>1. t \in Nat /\ s \in Nat /\ s >= 1 /\ t < 2 * s
    BY <1>s, <1>1, <1>2
  <2>5. need = t % s /\ t = n /\ s = SizeVals
    BY DEF Need
  <2> HIDE DEF s, t, need, l, k
  <2>2. t % s \in Nat /\ t % s < s
    BY ONLY <2>1
  <2>3. t < s => t % s = t
    BY ONLY <2>1
  <2>4. t >= s => t % s = t - s
    BY ONLY <2>1
  <2> QED
    BY ONLY <1>1, <1>s, <2>1, <2>2, <2>3, <2>4, <2>5
<1>4. y = IF fails THEN [x EXCEPT !.ok = FALSE]
          ELSE [data |-> xb, cap |-> cap, ok |-> TRUE, room |-> IF need > x.cap THEN cap ELSE x.room]
  BY DEF memwrite
<1>5. CatOf(xb, x.data, b, l, k)
  <2>1. IsStr(x.data)
    BY DEF SinkOK
  <2> QED
    BY ONLY <2>1, IsStr(b), CatIs
<1>6. IsStr(xb) /\ Len(xb) = n /\ n \in Nat
  BY <1>1, <1>5 DEF CatOf
<1>7. ASSUME need > x.cap
      PROVE  \/ /\ IsCap(cap) /\ cap >= need /\ cap \in Nat /\ cap # 0
                /\ \A d : IsCap(d) /\ d >= need => cap <= d
             \/ cap = 0 /\ \A d : IsCap(d) => d < need
  <2> DEFINE from == IF x.cap = 0 THEN FirstCap ELSE x.cap
  <2>1. cap = Doubled(x.cap, need)
    BY <1>7 DEF NewCap
  <2>2. GoodCap(Doubled(x.cap, need), from, need)
    <3>1. x.cap = 0 \/ IsCap(x.cap)
      BY DEF SinkOK
    <3> QED
      BY ONLY <1>3, <3>1, DoubledIs
  <2>3. \A d : IsCap(d) /\ d >= need => d >= from
    BY <1>2, <1>3, <1>7, CapIsNat, FirstIsLeast
  <2> HIDE DEF from, cap, need
  <2> QED
    BY <2>1, <2>2, <2>3, CapIsNat DEF GoodCap
<1>8. TooLong(x, need) <=> need < l \/ (need > x.cap /\ cap = 0)
  BY DEF TooLong
<1>9. ~(need > x.cap) => cap = x.cap
  BY DEF NewCap
<1> HIDE DEF need, cap, y, l, k, xb
<1>10. Holds(n, gives) <=> \E c : IsCap(c) /\ c >= n /\ c <= gives
  BY <1>6, HoldsIs
<1>11. ASSUME fails PROVE SinkOK(y) /\ Written(y, x, b, gives)
  <2>1. y = [data |-> x.data, cap |-> x.cap, room |-> x.room, ok |-> FALSE]
    BY <1>4, <1>11 DEF SinkOK
  <2>2. y.data = x.data /\ y.cap = x.cap /\ y.room = x.room /\ y.ok = FALSE
    BY <2>1
  <2>3. ~(n <= x.cap)
    <3> SUFFICES ASSUME n <= x.cap PROVE FALSE
      OBVIOUS
    <3>1. need = n
      BY <1>s, <1>1, <1>2, <1>3
    <3> QED
      BY <1>1, <1>2, <1>8, <1>11, <3>1
  <2>4. ASSUME NEW c, IsCap(c), c >= n, c <= gives PROVE FALSE
    <3>1. c \in Nat /\ c < SizeVals
      BY <2>4, CapIsNat
    <3>2. need = n
      BY <1>s, <1>1, <1>3, <2>4, <3>1
    <3>3. need > x.cap /\ ~(need < l)
      BY <1>1, <1>2, <2>3, <3>2
    <3>4. cap = 0 \/ cap > gives
      BY <1>8, <1>11, <3>3
    <3>5. cap <= c /\ cap \in Nat /\ cap # 0
      BY <1>1, <1>7, <2>4, <3>1, <3>2, <3>3
    <3> QED
      BY <2>4, <3>1, <3>4, <3>5
  <2>5. SinkOK(y)
    BY <2>1, <2>2 DEF SinkOK
  <2>6. ~Holds(n, gives)
    BY <1>10, <2>4
  <2>7. Len(y.data) <= y.cap /\ y.cap = y.room
    BY <2>2 DEF SinkOK
  <2> QED
    BY <1>6, <2>2, <2>3, <2>5, <2>6, <2>7 DEF Written, xb
<1>12. ASSUME ~fails PROVE SinkOK(y) /\ Written(y, x, b, gives)
  <2>1. need = n
    BY <1>s, <1>1, <1>2, <1>3, <1>8, <1>12
  <2> DEFINE room == IF need > x.cap THEN cap ELSE x.room
  <2>2. y = [data |-> xb, cap |-> cap, ok |-> TRUE, room |-> room]
    BY <1>4, <1>12
  <2>3. /\ cap \in Nat /\ (cap = 0 \/ IsCap(cap)) /\ n <= cap /\ room = cap
        /\ n <= x.cap \/ Holds(n, gives)
    <3>1. CASE need > x.cap
      <4>1. IsCap(cap) /\ cap >= need /\ cap \in Nat /\ cap <= gives
        BY <1>7, <1>8, <1>12, <3>1
      <4> QED
        BY <1>10, <2>1, <3>1, <4>1
    <3>2. CASE ~(need > x.cap)
      <4>1. cap = x.cap /\ room = cap
        BY <1>9, <3>2 DEF SinkOK
      <4> QED
        BY <1>2, <1>3, <2>1, <3>2, <4>1 DEF SinkOK
    <3> QED
      BY <3>1, <3>2
  <2> HIDE DEF room
  <2>4. y.data = xb /\ y.cap = cap /\ y.room = room /\ y.ok = TRUE
    BY <2>2
  <2>5. SinkOK(y)
    BY <1>6, <2>2, <2>3, <2>4 DEF SinkOK
  <2> QED
    BY <1>6, <2>3, <2>4, <2>5 DEF Written, xb
<1> QED
  BY <1>11, <1>12 DEF y

\* h is what the fold of WrapOwn over s has after each step.
OwnRun(h, D, z, s) ==
    /\ h[0] = z
    /\ \A i \in 0..Len(s) : h[i] \in D
    /\ \A i \in 1..Len(s) : h[i] = WrapOwn(h[i - 1], s[i])

LEMMA OwnFolds ==
    ASSUME NEW D, NEW z \in D, NEW s, IsStr(s),
           \A x \in D : \A i \in 1..Len(s) : WrapOwn(x, s[i]) \in D
    PROVE  \E h : OwnRun(h, D, z, s) /\ FoldLeft(WrapOwn, z, s) = h[Len(s)]
<1> DEFINE n == Len(s)
           G == [i \in 1..n |-> [x \in D |-> WrapOwn(x, s[i])]]
           It(f) == f = [T \in SUBSET DOMAIN s |->
                           IF T = {} THEN z
                           ELSE LET x == Max(T) IN WrapOwn(f[T \ {x}], s[x])]
           f == CHOOSE f : It(f)
<1>1. n \in Nat /\ DOMAIN s = 1..n
  BY StrIs
<1>2. G \in [1..n -> [D -> D]]
  OBVIOUS
<1>3. \A i \in 1..n : \A x \in D : G[i][x] = WrapOwn(x, s[i])
  OBVIOUS
<1> HIDE DEF n, G
<1>4. PICK g : g = [T \in SUBSET (1..n) |-> g[T]] /\ FoldsOver(g, n, D, z, G)
  BY ONLY <1>1, <1>2, z \in D, FoldExists DEF FoldTo
<1>5. \A T \in SUBSET (1..n) : T # {} => Max(T) \in 1..n /\ T \ {Max(T)} \in SUBSET (1..n)
  BY ONLY <1>1, MaxIsGreatest
<1>6. It(g)
  <2>1. ASSUME NEW T \in SUBSET (1..n)
        PROVE  g[T] = IF T = {} THEN z ELSE LET x == Max(T) IN WrapOwn(g[T \ {x}], s[x])
    <3>1. CASE T = {}
      BY <1>4, <3>1 DEF FoldsOver
    <3>2. CASE T # {}
      <4>1. Max(T) \in 1..n /\ T \ {Max(T)} \in SUBSET (1..n)
        BY <1>5, <3>2
      <4>2. g[T \ {Max(T)}] \in D /\ g[T] = G[Max(T)][g[T \ {Max(T)}]]
        BY <1>4, <3>2, <4>1 DEF FoldsOver
      <4>3. g[T] = WrapOwn(g[T \ {Max(T)}], s[Max(T)])
        BY ONLY <1>3, <4>1, <4>2
      <4> QED
        BY <3>2, <4>3
    <3> QED
      BY <3>1, <3>2
  <2> QED
    BY <1>1, <1>4, <2>1
<1>7. It(f)
  <2> HIDE DEF It
  <2> QED
    BY <1>6
<1>8. FoldLeft(WrapOwn, z, s) = f[DOMAIN s]
  BY DEF FoldLeft, MapThenFoldSet
<1> HIDE DEF f
<1>9. Stepping(f, n, D, z, G)
  <2>1. ASSUME NEW T \in SUBSET (1..n)
        PROVE  /\ T = {} => f[T] = z
               /\ T # {} /\ f[T \ {Max(T)}] \in D => f[T] = G[Max(T)][f[T \ {Max(T)}]]
    <3>1. f[T] = IF T = {} THEN z ELSE LET x == Max(T) IN WrapOwn(f[T \ {x}], s[x])
      BY <1>1, <1>7
    <3> HIDE DEF It
    <3> QED
      BY ONLY <1>3, <1>5, <3>1
  <2> QED
    BY ONLY <2>1 DEF Stepping
<1> HIDE DEF It
<1>10. PICK h : FoldRun(h, n, D, z, G) /\ f[1..n] = h[n]
  BY ONLY <1>1, <1>2, <1>9, z \in D, FoldRuns
<1>11. \A i \in 1..n : h[i] = WrapOwn(h[i - 1], s[i])
  <2>1. ASSUME NEW i \in 1..n PROVE h[i] = WrapOwn(h[i - 1], s[i])
    <3>1. i - 1 \in 0..n
      BY <1>1
    <3>2. h[i] = G[i][h[i - 1]] /\ h[i - 1] \in D
      BY ONLY <1>10, <3>1, <2>1 DEF FoldRun
    <3> QED
      BY ONLY <1>3, <3>2, i \in 1..n
  <2> QED
    BY <2>1
<1>12. OwnRun(h, D, z, s)
  BY ONLY <1>10, <1>11 DEF FoldRun, OwnRun, n
<1> QED
  BY ONLY <1>1, <1>8, <1>10, <1>12 DEF n

\* h is what the fold of WrapText over s has after each step.
TextRun(h, D, z, s) ==
    /\ h[0] = z
    /\ \A i \in 0..Len(s) : h[i] \in D
    /\ \A i \in 1..Len(s) : h[i] = WrapText(h[i - 1], s[i])

LEMMA TextFolds ==
    ASSUME NEW D, NEW z \in D, NEW s, IsStr(s),
           \A x \in D : \A i \in 1..Len(s) : WrapText(x, s[i]) \in D
    PROVE  \E h : TextRun(h, D, z, s) /\ FoldLeft(WrapText, z, s) = h[Len(s)]
<1> DEFINE n == Len(s)
           G == [i \in 1..n |-> [x \in D |-> WrapText(x, s[i])]]
           It(f) == f = [T \in SUBSET DOMAIN s |->
                           IF T = {} THEN z
                           ELSE LET x == Max(T) IN WrapText(f[T \ {x}], s[x])]
           f == CHOOSE f : It(f)
<1>1. n \in Nat /\ DOMAIN s = 1..n
  BY StrIs
<1>2. G \in [1..n -> [D -> D]]
  OBVIOUS
<1>3. \A i \in 1..n : \A x \in D : G[i][x] = WrapText(x, s[i])
  OBVIOUS
<1> HIDE DEF n, G
<1>4. PICK g : g = [T \in SUBSET (1..n) |-> g[T]] /\ FoldsOver(g, n, D, z, G)
  BY ONLY <1>1, <1>2, z \in D, FoldExists DEF FoldTo
<1>5. \A T \in SUBSET (1..n) : T # {} => Max(T) \in 1..n /\ T \ {Max(T)} \in SUBSET (1..n)
  BY ONLY <1>1, MaxIsGreatest
<1>6. It(g)
  <2>1. ASSUME NEW T \in SUBSET (1..n)
        PROVE  g[T] = IF T = {} THEN z ELSE LET x == Max(T) IN WrapText(g[T \ {x}], s[x])
    <3>1. CASE T = {}
      BY <1>4, <3>1 DEF FoldsOver
    <3>2. CASE T # {}
      <4>1. Max(T) \in 1..n /\ T \ {Max(T)} \in SUBSET (1..n)
        BY <1>5, <3>2
      <4>2. g[T \ {Max(T)}] \in D /\ g[T] = G[Max(T)][g[T \ {Max(T)}]]
        BY <1>4, <3>2, <4>1 DEF FoldsOver
      <4>3. g[T] = WrapText(g[T \ {Max(T)}], s[Max(T)])
        BY ONLY <1>3, <4>1, <4>2
      <4> QED
        BY <3>2, <4>3
    <3> QED
      BY <3>1, <3>2
  <2> QED
    BY <1>1, <1>4, <2>1
<1>7. It(f)
  <2> HIDE DEF It
  <2> QED
    BY <1>6
<1>8. FoldLeft(WrapText, z, s) = f[DOMAIN s]
  BY DEF FoldLeft, MapThenFoldSet
<1> HIDE DEF f
<1>9. Stepping(f, n, D, z, G)
  <2>1. ASSUME NEW T \in SUBSET (1..n)
        PROVE  /\ T = {} => f[T] = z
               /\ T # {} /\ f[T \ {Max(T)}] \in D => f[T] = G[Max(T)][f[T \ {Max(T)}]]
    <3>1. f[T] = IF T = {} THEN z ELSE LET x == Max(T) IN WrapText(f[T \ {x}], s[x])
      BY <1>1, <1>7
    <3> HIDE DEF It
    <3> QED
      BY ONLY <1>3, <1>5, <3>1
  <2> QED
    BY ONLY <2>1 DEF Stepping
<1> HIDE DEF It
<1>10. PICK h : FoldRun(h, n, D, z, G) /\ f[1..n] = h[n]
  BY ONLY <1>1, <1>2, <1>9, z \in D, FoldRuns
<1>11. \A i \in 1..n : h[i] = WrapText(h[i - 1], s[i])
  <2>1. ASSUME NEW i \in 1..n PROVE h[i] = WrapText(h[i - 1], s[i])
    <3>1. i - 1 \in 0..n
      BY <1>1
    <3>2. h[i] = G[i][h[i - 1]] /\ h[i - 1] \in D
      BY ONLY <1>10, <3>1, <2>1 DEF FoldRun
    <3> QED
      BY ONLY <1>3, <3>2, i \in 1..n
  <2> QED
    BY <2>1
<1>12. TextRun(h, D, z, s)
  BY ONLY <1>10, <1>11 DEF FoldRun, TextRun, n
<1> QED
  BY ONLY <1>1, <1>8, <1>10, <1>12 DEF n

-----------------------------------------------------------------------------
(* The jobs of the buffers.                                                *)

\* A job is one of those the initial states draw, and stays it.
JobOK ==
    \/ job \in BufferJobs \/ job \in HashJobs \/ job \in KdfJobs \/ job \in SealJobs
    \/ job \in RoundJobs \/ job \in FieldJobs \/ job \in CurveJobs

LEMMA JobKept == Spec => []JobOK
<1>1. Init => JobOK
  BY DEF Init, JobOK
<1>2. JobOK /\ [Next]_vars => JobOK'
  <2> SUFFICES ASSUME JobOK, [Next]_vars PROVE JobOK'
    OBVIOUS
  <2>1. job' = job
    BY DEF Next, Done, vars
  <2> QED
    BY <2>1 DEF JobOK, BufferJobs, HashJobs, KdfJobs, SealJobs, RoundJobs, FieldJobs, CurveJobs
<1> QED
  BY <1>1, <1>2, PTL DEF Spec

LEMMA MessageJob ==
    ASSUME JobOK, job.do = "message"
    PROVE  /\ job.set \in BOOLEAN /\ job.first \in InnerSizes
           /\ \E n \in 1..MaxOuters : job.outers \in [1..n -> OuterSizes]
  BY DEF JobOK, BufferJobs, HashJobs, KdfJobs, SealJobs, RoundJobs, FieldJobs, CurveJobs

LEMMA SinkJob ==
    ASSUME JobOK, job.do = "sink"
    PROVE  job.sizes \in [1..MaxWrites -> WriteSizes] /\ job.gives \in [1..MaxWrites -> Gives]
  BY DEF JobOK, BufferJobs, HashJobs, KdfJobs, SealJobs, RoundJobs, FieldJobs, CurveJobs

LEMMA CharactersText ==
    ASSUME NEW k \in Nat, NEW n \in Nat
    PROVE  Text(Characters(k, n))
<1> DEFINE c == [i \in 1..n |-> 100 * (k + 1) + i]
<1>1. c = [i \in 1..n |-> c[i]]
  OBVIOUS
<1>2. \A i \in 1..n : c[i] \in Nat /\ c[i] > 100
  OBVIOUS
<1> HIDE DEF c
<1>3. IsStr(c) /\ Len(c) = n
  BY <1>1, FunctionIsStr
<1>4. \A i \in 1..n : c[i] \in Nat \ {Nul}
  BY <1>2, PrimitivesAssumption, BuffersAssumption
<1>5. Text(c)
  BY <1>3, <1>4 DEF Text
<1> QED
  BY <1>5 DEF c, Characters

\* What ewrap() makes of one part after the other.
LEMMA OwnHolds ==
    ASSUME NEW s, IsStr(s), \A i \in 1..Len(s) : Text(s[i]),
           NEW t, IsStr(t), NEW a \in Nat, Len(t) = a + Len(s),
           \A i \in 1..Len(t) : Text(t[i]), \A i \in 1..Len(s) : t[a + i] = s[i],
           NEW b, NEW z, Text(z), NEW h,
           TextRun(h, {m \in Seq(Nat) : Text(m)}, z, t), Holding(b, h[a])
    PROVE  Holding(FoldLeft(WrapOwn, b, s), h[Len(t)])
<1> DEFINE D == {x \in Seq(Nat) : \E m : Holding(x, m)}
           n == Len(s)
<1>0. n \in Nat
  BY StrIs
<1>1. ASSUME NEW x, NEW m, Holding(x, m) PROVE x \in D
  <2>1. Chars(x)
    BY <1>1 DEF Holding
  <2>2. x \in Seq(Nat)
    BY <2>1, StrSub DEF Chars
  <2> QED
    BY <1>1, <2>2
<1>2. ASSUME NEW x, NEW m, NEW o, Text(o), Holding(x, m)
      PROVE  Holding(WrapOwn(x, o), WrapText(m, o))
  <2>1. Text(m) /\ Chars(x) /\ Len(x) = EbufSize
    BY <1>2 DEF Holding
  <2>2. Holding(ewrap(x, o, <<>>), Wrapped(o, m))
    BY ONLY <1>2, <2>1, WrapHolds
  <2> QED
    BY <2>2 DEF WrapOwn, WrapText
<1>3. b \in D
  BY <1>1
<1>4. \A x \in D : \A i \in 1..Len(s) : WrapOwn(x, s[i]) \in D
  <2>1. ASSUME NEW x \in D, NEW i \in 1..Len(s) PROVE WrapOwn(x, s[i]) \in D
    <3>1. PICK m : Holding(x, m)
      OBVIOUS
    <3>2. Text(s[i])
      OBVIOUS
    <3>3. Holding(WrapOwn(x, s[i]), WrapText(m, s[i]))
      BY ONLY <1>2, <3>1, <3>2
    <3> HIDE DEF D
    <3> QED
      BY <1>1, <3>3
  <2> QED
    BY <2>1
<1> HIDE DEF D
<1>5. PICK k : OwnRun(k, D, b, s) /\ FoldLeft(WrapOwn, b, s) = k[Len(s)]
  BY ONLY <1>3, <1>4, IsStr(s), OwnFolds
<1> DEFINE P == {i \in Nat : i <= n => Holding(k[i], h[a + i])}
<1>6. 0 \in P
  <2>1. k[0] = b /\ a + 0 = a
    BY <1>5 DEF OwnRun
  <2> QED
    BY <2>1
<1>7. ASSUME NEW i \in Nat, i \in P PROVE i + 1 \in P
  <2> SUFFICES ASSUME i + 1 <= n PROVE Holding(k[i + 1], h[a + (i + 1)])
    OBVIOUS
  <2> DEFINE j == i + 1
             g == a + j
  <2>1. /\ j \in 1..Len(s) /\ j - 1 = i /\ i <= n
        /\ g \in 1..Len(t) /\ g - 1 = a + i /\ g = a + j
    BY <1>0
  <2>2. Holding(k[i], h[a + i])
    BY <1>7, <2>1
  <2> HIDE DEF j, g
  <2>3. k[j] = WrapOwn(k[j - 1], s[j])
    BY <1>5, <2>1 DEF OwnRun
  <2>4. h[g] = WrapText(h[g - 1], t[g]) /\ t[g] = s[j]
    BY <2>1 DEF TextRun
  <2>5. Text(s[j])
    BY <2>1
  <2>6. Holding(WrapOwn(k[i], s[j]), WrapText(h[a + i], s[j]))
    BY ONLY <1>2, <2>2, <2>5
  <2>7. Holding(k[j], h[g])
    BY <2>1, <2>3, <2>4, <2>6
  <2> QED
    BY <2>7 DEF j, g
<1>8. Nat \subseteq P
  <2> HIDE DEF P
  <2> QED
    BY <1>6, <1>7, NatInduct
<1>9. Holding(k[n], h[a + n])
  BY <1>0, <1>8
<1> QED
  BY <1>0, <1>5, <1>9

LEMMA TextsFold ==
    ASSUME NEW z, Text(z), NEW t, IsStr(t), \A i \in 1..Len(t) : Text(t[i])
    PROVE  \E h : /\ TextRun(h, {m \in Seq(Nat) : Text(m)}, z, t)
                  /\ FoldLeft(WrapText, z, t) = h[Len(t)]
<1> DEFINE D == {m \in Seq(Nat) : Text(m)}
<1>1. ASSUME NEW m, Text(m) PROVE m \in D
  <2>1. m \in Seq(Nat)
    BY <1>1, StrSub DEF Text
  <2> QED
    BY <1>1, <2>1
<1>2. \A x \in D : \A i \in 1..Len(t) : WrapText(x, t[i]) \in D
  <2>1. ASSUME NEW x \in D, NEW i \in 1..Len(t) PROVE WrapText(x, t[i]) \in D
    <3> DEFINE o == t[i]
               fit == Fitted(Len(o), Len(x))
               ol == fit[1]
               il == fit[2]
               w == Wrapped(o, x)
    <3>1. Text(x) /\ Text(o)
      OBVIOUS
    <3> HIDE DEF o
    <3>2. /\ ol \in Nat /\ il \in Nat /\ ol <= Len(o) /\ il <= Len(x)
          /\ IsStr(w) /\ Len(w) = ol + 2 + il /\ Begins(w, o, x, ol, il)
      BY <3>1, WrappedBegins
    <3> HIDE DEF w, ol, il
    <3>3. Text(w)
      BY ONLY <3>1, <3>2, BeginsText
    <3> HIDE DEF D
    <3> QED
      BY <1>1, <3>3 DEF WrapText, w, o
  <2> QED
    BY <2>1
<1>3. z \in D
  BY <1>1
<1> HIDE DEF D
<1>4. \E h : TextRun(h, D, z, t) /\ FoldLeft(WrapText, z, t) = h[Len(t)]
  BY ONLY <1>2, <1>3, IsStr(t), TextFolds
<1> QED
  BY <1>4 DEF D

\* The message of an action, whatever its parts.
LEMMA MessageExact ==
    ASSUME JobOK, job.do = "message",
           NEW b, b = IF job.set THEN FoldLeft(WrapOwn, eset(Stale, First), Outers)
                      ELSE FoldLeft(WrapOwn, ewrap(Stale, Outers[1], <<First>>), Tail(Outers))
    PROVE  /\ Len(b) = EbufSize
           /\ CString(b) = FoldLeft(WrapText, IF job.set /\ Len(First) >= EbufSize
                                              THEN SubSeq(First, 1, EbufSize - 1)
                                              ELSE First, Outers)
<1> DEFINE t == Outers
           D == {m \in Seq(Nat) : Text(m)}
           z == IF job.set /\ Len(First) >= EbufSize
                THEN SubSeq(First, 1, EbufSize - 1) ELSE First
<1>1. PICK n \in 1..MaxOuters : job.outers \in [1..n -> OuterSizes]
  BY MessageJob
<1>2. IsStr(t) /\ Len(t) = n /\ \A i \in 1..n : Text(t[i])
  <2>1. DOMAIN job.outers = 1..n /\ \A i \in 1..n : job.outers[i] \in Nat
    BY <1>1, PrimitivesAssumption
  <2>2. t = [i \in 1..n |-> Characters(i, job.outers[i])]
    BY <2>1 DEF Outers
  <2>3. t = [i \in 1..n |-> t[i]] /\ \A i \in 1..n : t[i] = Characters(i, job.outers[i])
    BY <2>2
  <2> HIDE DEF t
  <2>4. IsStr(t) /\ Len(t) = n
    BY <2>3, FunctionIsStr
  <2>5. ASSUME NEW i \in 1..n PROVE Text(t[i])
    <3>1. i \in Nat /\ job.outers[i] \in Nat
      BY <2>1
    <3>2. Text(Characters(i, job.outers[i]))
      BY ONLY <3>1, CharactersText
    <3> QED
      BY <2>3, <3>2
  <2> QED
    BY <2>4, <2>5
<1>3. Text(First)
  <2>1. job.first \in Nat
    BY MessageJob, PrimitivesAssumption
  <2> QED
    BY <2>1, CharactersText DEF First
<1>4. job.set => Holding(eset(Stale, First), z) /\ Text(z)
  <2>1. Holding(eset(Stale, First), IF Len(First) >= EbufSize
                                    THEN SubSeq(First, 1, EbufSize - 1) ELSE First)
    BY ONLY <1>3, SetHolds
  <2> QED
    BY <2>1 DEF Holding
<1>5. Chars(Stale) /\ Len(Stale) = EbufSize
  <2>1. EbufSize \in Nat /\ Nul \in Nat
    BY BuffersAssumption
  <2>2. Stale = [i \in 1..EbufSize |-> Stale[i]] /\ \A i \in 1..EbufSize : Stale[i] \in Nat
    BY <2>1 DEF Stale
  <2>3. IsStr(Stale) /\ Len(Stale) = EbufSize
    BY <2>1, <2>2, FunctionIsStr
  <2> QED
    BY <2>2, <2>3 DEF Chars
<1>6. Text(z)
  BY <1>3, <1>4
<1> HIDE DEF t, z, D
<1>7. PICK h : TextRun(h, D, z, t) /\ FoldLeft(WrapText, z, t) = h[Len(t)]
  BY <1>2, <1>6, TextsFold DEF D
<1>8. Holding(b, h[Len(t)])
  <2>1. CASE job.set
    <3>1. h[0] = z /\ 0 \in Nat /\ Len(t) = 0 + Len(t) /\ \A i \in 1..Len(t) : t[0 + i] = t[i]
      BY <1>2, <1>7 DEF TextRun
    <3>2. Holding(eset(Stale, First), h[0])
      BY <1>4, <2>1, <3>1
    <3>3. b = FoldLeft(WrapOwn, eset(Stale, First), t)
      BY <2>1 DEF t
    <3>4. TextRun(h, {m \in Seq(Nat) : Text(m)}, z, t)
      BY <1>7 DEF D
    <3>5. Holding(FoldLeft(WrapOwn, eset(Stale, First), t), h[Len(t)])
      BY ONLY <1>2, <1>6, <3>1, <3>2, <3>4, OwnHolds
    <3> QED
      BY <3>3, <3>5
  <2>2. CASE ~job.set
    <3> DEFINE s == Tail(t)
               f == ewrap(Stale, t[1], <<First>>)
    <3>1. z = First
      BY <2>2 DEF z
    <3>2. 1 \in 1..Len(t) /\ 1 - 1 = 0
      BY <1>2
    <3>3. h[1] = WrapText(h[0], t[1]) /\ h[0] = z
      BY ONLY <1>7, <3>2 DEF TextRun
    <3>4. Holding(f, Wrapped(t[1], First))
      BY <1>2, <1>3, <1>5, <3>2, WrapHolds
    <3>5. Holding(f, h[1])
      BY <3>1, <3>3, <3>4 DEF WrapText
    <3>6. IsStr(s) /\ Len(s) = n - 1 /\ \A i \in 1..(n - 1) : s[i] = t[i + 1]
      <4>1. PICK S : t \in Seq(S)
        BY <1>2 DEF IsStr
      <4>2. t # <<>>
        BY <1>2, StrEmpty
      <4>3. s \in Seq(S) /\ Len(s) = Len(t) - 1
        BY <4>1, <4>2, HeadTailProperties
      <4>4. \A i \in 1..(n - 1) : s[i] = t[i + 1]
        BY <1>2, <4>1, <4>2
      <4> QED
        BY <1>2, <4>3, <4>4 DEF IsStr
    <3> HIDE DEF s, f
    <3>7. /\ Len(t) = 1 + Len(s) /\ 1 \in Nat
          /\ \A i \in 1..Len(s) : t[1 + i] = s[i] /\ Text(s[i])
      <4>1. ASSUME NEW i \in 1..Len(s) PROVE t[1 + i] = s[i] /\ Text(s[i])
        <5>1. i \in 1..(n - 1) /\ 1 + i \in 1..n /\ i + 1 = 1 + i
          BY <3>6
        <5> QED
          BY <1>2, <3>6, <5>1
      <4> QED
        BY <1>2, <3>6, <4>1
    <3>8. b = FoldLeft(WrapOwn, f, s)
      BY <2>2 DEF s, f, t
    <3>9. TextRun(h, {m \in Seq(Nat) : Text(m)}, z, t)
      BY <1>7 DEF D
    <3>10. Holding(FoldLeft(WrapOwn, f, s), h[Len(t)])
      BY ONLY <1>2, <1>6, <3>5, <3>6, <3>7, <3>9, OwnHolds
    <3> QED
      BY <3>8, <3>10
  <2> QED
    BY <2>1, <2>2
<1>9. CString(b) = h[Len(t)] /\ Len(b) = EbufSize
  BY <1>8, HoldingString DEF Holding
<1> QED
  BY <1>7, <1>9 DEF t, z

LEMMA NamedIs ==
    ASSUME NEW x, NEW n \in Nat
    PROVE  /\ IsStr(Named(x, n)) /\ Len(Named(x, n)) = n
           /\ \A i \in 1..n : Named(x, n)[i] = {<<x, 0, i>>}
<1> DEFINE s == [i \in 1..n |-> {<<x, 0, i>>}]
<1>1. s = [i \in 1..n |-> s[i]] /\ \A i \in 1..n : s[i] = {<<x, 0, i>>}
  OBVIOUS
<1> HIDE DEF s
<1>2. IsStr(s) /\ Len(s) = n
  BY <1>1, FunctionIsStr
<1> QED
  BY <1>1, <1>2 DEF s, Named

\* The three pieces of a hashed message.
LEMMA PiecesAre ==
    ASSUME job.sizes \in Nat \X Nat \X Nat
    PROVE  /\ IsStr(Pieces) /\ Len(Pieces) = 3
           /\ \A i \in 1..3 : Pieces[i] = Piece(i) /\ job.sizes[i] \in Nat
           /\ \A i \in 1..3 : IsStr(Piece(i)) /\ Len(Piece(i)) = job.sizes[i]
<1> DEFINE p == [i \in 1..3 |-> Piece(i)]
<1>1. p = [i \in 1..3 |-> p[i]] /\ \A i \in 1..3 : p[i] = Piece(i)
  OBVIOUS
<1> HIDE DEF p
<1>2. IsStr(p) /\ Len(p) = 3
  BY <1>1, FunctionIsStr
<1>3. \A i \in 1..3 : job.sizes[i] \in Nat
  OBVIOUS
<1>4. \A i \in 1..3 : IsStr(Piece(i)) /\ Len(Piece(i)) = job.sizes[i]
  BY <1>3, NamedIs DEF Piece
<1> QED
  BY <1>1, <1>2, <1>3, <1>4 DEF p, Pieces

\* Each write so far, and the sink after it.
Sinks ==
    job.do = "sink" =>
        /\ IsStr(result) /\ Len(result) <= MaxWrites
        /\ \A i \in 1..Len(result) : /\ SinkOK(SinkAfter(i))
                                     /\ Written(SinkAfter(i), SinkAfter(i - 1), Piece(i), job.gives[i])

LEMMA NewSinkOK == SinkOK(NewSink)
<1>1. IsStr(<<>>) /\ Len(<<>>) = 0
  BY StrEmpty
<1> QED
  BY <1>1 DEF SinkOK, NewSink

LEMMA SinksKept == Spec => []Sinks
<1>1. Init => Sinks
  <2> SUFFICES ASSUME Init PROVE Sinks
    OBVIOUS
  <2>1. result = <<>> /\ IsStr(<<>>) /\ Len(<<>>) = 0
    BY StrEmpty DEF Init
  <2>2. IsStr(result) /\ Len(result) = 0 /\ 1..Len(result) = {}
    BY <2>1
  <2>3. 0 <= MaxWrites
    BY PrimitivesAssumption
  <2> QED
    BY <2>2, <2>3 DEF Sinks
<1>2. JobOK /\ Sinks /\ [Next]_vars => Sinks'
  <2> SUFFICES ASSUME JobOK, Sinks, [Next]_vars PROVE Sinks'
    OBVIOUS
  <2>0. job' = job
    BY DEF Next, Done, vars
  <2> SUFFICES ASSUME job.do = "sink" PROVE Sinks'
    BY <2>0 DEF Sinks
  <2>a. PICK n : n = Len(result)
    OBVIOUS
  <2> DEFINE b == Piece(n + 1)
             g == job.gives[n + 1]
             x == SinkAfter(n)
             w == memwrite(x, b, g)
  <2>1. job' = job /\ IsStr(result) /\ Len(result) = n /\ n \in Nat /\ n <= MaxWrites
    BY <2>0, <2>a, StrIs DEF Sinks
  <2>2. CASE result' = result
    <3>1. \A i : SinkAfter(i)' = SinkAfter(i)
      BY <2>2 DEF SinkAfter
    <3>2. \A i : Piece(i)' = Piece(i)
      BY <2>1 DEF Piece
    <3> QED
      BY <2>1, <2>2, <3>1, <3>2 DEF Sinks
  <2>3. CASE Sink
    <3>1. n < MaxWrites /\ result' = Append(result, w)
      <4>1. SinkAfter(n + 1 - 1) = x
        BY <2>1
      <4> QED
        BY <2>1, <2>3, <4>1 DEF Sink
    <3>2. IsStr(b) /\ Len(b) < SizeVals /\ g \in Nat
      <4>1. n + 1 \in 1..MaxWrites
        BY <2>1, <3>1, PrimitivesAssumption
      <4>2. job.sizes[n + 1] \in WriteSizes /\ g \in Gives
        BY <4>1, SinkJob
      <4>3. job.sizes[n + 1] \in Nat /\ job.sizes[n + 1] < SizeVals /\ g \in Nat
        <5>1. WriteSizes \subseteq 0..(SizeVals - 1) /\ Gives \subseteq Nat
          BY PrimitivesAssumption
        <5> QED
          <6>1. \A e \in WriteSizes : e \in Nat /\ e < SizeVals
            BY <5>1, SizeValsIs
          <6>2. \A e \in Gives : e \in Nat
            BY <5>1
          <6> HIDE DEF g
          <6> QED
            BY ONLY <4>2, <6>1, <6>2
      <4> QED
        BY <4>3, NamedIs DEF Piece
    <3>3. SinkOK(x)
      <4>1. CASE n = 0
        BY <4>1, NewSinkOK DEF SinkAfter
      <4>2. CASE n # 0
        BY <2>1, <4>2 DEF Sinks
      <4> QED
        BY <4>1, <4>2
    <3> HIDE DEF b, g, x
    <3>4. SinkOK(w) /\ Written(w, x, b, g)
      BY ONLY <3>2, <3>3, WriteExact
    <3> HIDE DEF w
    <3>5. /\ IsStr(result') /\ Len(result') = n + 1 /\ result'[n + 1] = w
          /\ \A i \in 1..n : result'[i] = result[i]
      <4>1. PICK S : result \in Seq(S)
        BY <2>1 DEF IsStr
      <4>2. result \in Seq(S \cup {w}) /\ w \in S \cup {w}
        BY <4>1
      <4> QED
        BY <2>1, <3>1, <4>2, AppendProperties DEF IsStr
    <3>6. \A i : Piece(i)' = Piece(i)
      BY <2>1 DEF Piece
    <3>7. \A i \in 0..n : SinkAfter(i)' = SinkAfter(i)
      BY <2>1, <3>5 DEF SinkAfter
    <3>8. SinkAfter(n + 1)' = w /\ Piece(n + 1)' = b
      <4>1. n + 1 \in 1..(n + 1)
        BY <2>1
      <4> QED
        BY <2>1, <3>5, <4>1 DEF SinkAfter, Piece, b
    <3>9. ASSUME NEW i \in 1..(n + 1)
          PROVE  (SinkOK(SinkAfter(i)) /\ Written(SinkAfter(i), SinkAfter(i - 1), Piece(i), job.gives[i]))'
      <4>1. CASE i = n + 1
        <5>1. i - 1 = n /\ n \in 0..n
          BY <2>1, <4>1
        <5>2. SinkAfter(i)' = w /\ SinkAfter(i - 1)' = x /\ Piece(i)' = b /\ job'.gives[i] = g
          BY <2>1, <3>7, <3>8, <4>1, <5>1 DEF x, g, SinkAfter, Piece
        <5> QED
          BY ONLY <3>4, <5>2
      <4>2. CASE i # n + 1
        <5>1. i \in 1..n /\ i \in 0..n /\ i - 1 \in 0..n
          BY <2>1, <4>2
        <5>2. SinkOK(SinkAfter(i)) /\ Written(SinkAfter(i), SinkAfter(i - 1), Piece(i), job.gives[i])
          BY <2>1, <5>1 DEF Sinks
        <5>3. SinkAfter(i)' = SinkAfter(i) /\ SinkAfter(i - 1)' = SinkAfter(i - 1)
              /\ Piece(i)' = Piece(i) /\ job'.gives[i] = job.gives[i]
          BY <2>1, <3>6, <3>7, <5>1 DEF SinkAfter, Piece
        <5> QED
          BY ONLY <5>2, <5>3
      <4> QED
        BY <4>1, <4>2
    <3>10. Len(result') <= MaxWrites
      BY <2>1, <3>1, <3>5, PrimitivesAssumption
    <3> QED
      BY <3>5, <3>9, <3>10 DEF Sinks
  <2>4. result' = result \/ Sink
    BY DEF Next, Work, Done, vars, Message, Sha, Mac, HkdfStep, Pbkdf2Step, ScryptStep, Seal, KeyEnc,
           Round, Field, X25519, Agree
  <2> QED
    BY <2>2, <2>3, <2>4
<1> QED
  BY <1>1, <1>2, JobKept, PTL DEF Spec

\* The message, once it is made.
MessageMade ==
    Finished("message") =>
        /\ Len(result[1]) = EbufSize
        /\ CString(result[1]) =
             FoldLeft(WrapText, IF job.set /\ Len(First) >= EbufSize
                                THEN SubSeq(First, 1, EbufSize - 1) ELSE First, Outers)

(***************************************************************************)
(* util.c, memio.c: a failure's message is all its parts in their order,   *)
(* cut at the end of the buffer and ended there, however many there are;   *)
(* and any number of writes to a sink, each of which may find no memory,   *)
(* add their pieces in order or leave the sink as it was, which happens    *)
(* only where no capacity in reach holds the piece, however many bits a    *)
(* size_t has.                                                             *)
(***************************************************************************)
THEOREM BuffersAreExact == Spec => []BuffersExact
<1>1. Init => MessageMade
  BY DEF Init, MessageMade, Finished
<1>2. JobOK /\ MessageMade /\ [Next]_vars => MessageMade'
  <2> SUFFICES ASSUME JobOK, MessageMade, [Next]_vars PROVE MessageMade'
    OBVIOUS
  <2>1. CASE Message /\ UNCHANGED job
    <3> DEFINE b == IF job.set THEN FoldLeft(WrapOwn, eset(Stale, First), Outers)
                    ELSE FoldLeft(WrapOwn, ewrap(Stale, Outers[1], <<First>>), Tail(Outers))
               want == FoldLeft(WrapText, IF job.set /\ Len(First) >= EbufSize
                                          THEN SubSeq(First, 1, EbufSize - 1)
                                          ELSE First, Outers)
    <3>1. job.do = "message" /\ job' = job /\ result' = <<b>>
      BY <2>1 DEF Message
    <3>2. Len(b) = EbufSize /\ CString(b) = want
      BY <3>1, MessageExact
    <3>3. want' = want
      BY <3>1 DEF First, Outers
    <3> HIDE DEF b
    <3>4. result'[1] = b
      BY <3>1
    <3>5. (Len(result[1]) = EbufSize /\ CString(result[1]) = want)'
      BY <3>2, <3>3, <3>4 DEF CString
    <3> HIDE DEF want
    <3> QED
      BY <3>5 DEF MessageMade, Finished, want
  <2>2. CASE UNCHANGED vars
    BY <2>2 DEF MessageMade, Finished, vars, First, Outers, CString
  <2>3. CASE ~(Message /\ UNCHANGED job) /\ ~UNCHANGED vars
    <3>1. job' = job /\ job.do # "message"
      BY <2>3 DEF Next, Work, Done, Sink, Sha, Mac, HkdfStep, Pbkdf2Step, ScryptStep, Seal, KeyEnc,
                  Round, Field, X25519, Agree
    <3> QED
      BY <3>1 DEF MessageMade, Finished
  <2> QED
    BY <2>1, <2>2, <2>3
<1>3. MessageMade /\ Sinks => BuffersExact
  BY DEF MessageMade, Sinks, BuffersExact, Written
<1> QED
  BY <1>1, <1>2, <1>3, JobKept, SinksKept, PTL DEF Spec

-----------------------------------------------------------------------------
\* A limb is sixteen times something: r loses four bits of it.
LEMMA Sixteenths ==
    ASSUME NEW n \in 5..32
    PROVE  \E q \in Nat : q >= 2 /\ 2^n = 16 * q
<1>5. CASE n = 5
  <2>1. 2^5 = 16 * 2
    OBVIOUS
  <2> QED
    BY <1>5, <2>1
<1>6. CASE n = 6
  <2>1. 2^6 = 16 * 4
    OBVIOUS
  <2> QED
    BY <1>6, <2>1
<1>7. CASE n = 7
  <2>1. 2^7 = 16 * 8
    OBVIOUS
  <2> QED
    BY <1>7, <2>1
<1>8. CASE n = 8
  <2>1. 2^8 = 16 * 16
    OBVIOUS
  <2> QED
    BY <1>8, <2>1
<1>9. CASE n = 9
  <2>1. 2^9 = 16 * 32
    OBVIOUS
  <2> QED
    BY <1>9, <2>1
<1>10. CASE n = 10
  <2>1. 2^10 = 16 * 64
    OBVIOUS
  <2> QED
    BY <1>10, <2>1
<1>11. CASE n = 11
  <2>1. 2^11 = 16 * 128
    OBVIOUS
  <2> QED
    BY <1>11, <2>1
<1>12. CASE n = 12
  <2>1. 2^12 = 16 * 256
    OBVIOUS
  <2> QED
    BY <1>12, <2>1
<1>13. CASE n = 13
  <2>1. 2^13 = 16 * 512
    OBVIOUS
  <2> QED
    BY <1>13, <2>1
<1>14. CASE n = 14
  <2>1. 2^14 = 16 * 1024
    OBVIOUS
  <2> QED
    BY <1>14, <2>1
<1>15. CASE n = 15
  <2>1. 2^15 = 16 * 2048
    OBVIOUS
  <2> QED
    BY <1>15, <2>1
<1>16. CASE n = 16
  <2>1. 2^16 = 16 * 4096
    OBVIOUS
  <2> QED
    BY <1>16, <2>1
<1>17. CASE n = 17
  <2>1. 2^17 = 16 * 8192
    OBVIOUS
  <2> QED
    BY <1>17, <2>1
<1>18. CASE n = 18
  <2>1. 2^18 = 16 * 16384
    OBVIOUS
  <2> QED
    BY <1>18, <2>1
<1>19. CASE n = 19
  <2>1. 2^19 = 16 * 32768
    OBVIOUS
  <2> QED
    BY <1>19, <2>1
<1>20. CASE n = 20
  <2>1. 2^20 = 16 * 65536
    OBVIOUS
  <2> QED
    BY <1>20, <2>1
<1>21. CASE n = 21
  <2>1. 2^21 = 16 * 131072
    OBVIOUS
  <2> QED
    BY <1>21, <2>1
<1>22. CASE n = 22
  <2>1. 2^22 = 16 * 262144
    OBVIOUS
  <2> QED
    BY <1>22, <2>1
<1>23. CASE n = 23
  <2>1. 2^23 = 16 * 524288
    OBVIOUS
  <2> QED
    BY <1>23, <2>1
<1>24. CASE n = 24
  <2>1. 2^24 = 16 * 1048576
    OBVIOUS
  <2> QED
    BY <1>24, <2>1
<1>25. CASE n = 25
  <2>1. 2^25 = 16 * 2097152
    OBVIOUS
  <2> QED
    BY <1>25, <2>1
<1>26. CASE n = 26
  <2>1. 2^26 = 16 * 4194304
    OBVIOUS
  <2> QED
    BY <1>26, <2>1
<1>27. CASE n = 27
  <2>1. 2^27 = 16 * 8388608
    OBVIOUS
  <2> QED
    BY <1>27, <2>1
<1>28. CASE n = 28
  <2>1. 2^28 = 16 * 16777216
    OBVIOUS
  <2> QED
    BY <1>28, <2>1
<1>29. CASE n = 29
  <2>1. 2^29 = 16 * 33554432
    OBVIOUS
  <2> QED
    BY <1>29, <2>1
<1>30. CASE n = 30
  <2>1. 2^30 = 16 * 67108864
    OBVIOUS
  <2> QED
    BY <1>30, <2>1
<1>31. CASE n = 31
  <2>1. 2^31 = 16 * 134217728
    OBVIOUS
  <2> QED
    BY <1>31, <2>1
<1>32. CASE n = 32
  <2>1. 2^32 = 16 * 268435456
    OBVIOUS
  <2> QED
    BY <1>32, <2>1
<1> QED
  BY <1>5, <1>6, <1>7, <1>8, <1>9, <1>10, <1>11, <1>12, <1>13, <1>14, <1>15, <1>16, <1>17, <1>18, <1>19, <1>20, <1>21, <1>22, <1>23, <1>24, <1>25, <1>26, <1>27, <1>28, <1>29, <1>30, <1>31, <1>32

LEMMA LimbIs == \E q \in Nat : q >= 2 /\ Limb = 16 * q
  BY Sixteenths, LimbAssumption DEF Limb

\* Products of bounded factors.
LEMMA Products ==
    \A a, b, c, d \in Nat : a <= b /\ c <= d => a * c \in Nat /\ a * c <= b * d
<1> TAKE a, b, c, d \in Nat
<1> HAVE a <= b /\ c <= d
<1>1. a * c <= b * c
  OBVIOUS
<1>2. b * c <= b * d
  OBVIOUS
<1> QED
  BY <1>1, <1>2

\* Division by what the quotient and the rest are.
LEMMA Parts ==
    \A B \in Nat \ {0} : \A x \in Nat :
        /\ x \div B \in Nat /\ x % B \in 0..(B - 1)
        /\ x = B * (x \div B) + (x % B)
  OBVIOUS

\* The one quotient and rest there are.
LEMMA Unique ==
    \A B \in Nat \ {0} : \A k \in Nat, r \in Nat :
        r < B => (B * k + r) \div B = k /\ (B * k + r) % B = r
  OBVIOUS

LEMMA SameRest ==
    \A M \in Nat \ {0} : \A x, k \in Nat : (x + M * k) % M = x % M
<1> TAKE M \in Nat \ {0}
<1> TAKE x, k \in Nat
<1> DEFINE q == x \div M
           r == x % M
<1>1. q \in Nat /\ r \in Nat /\ r < M /\ x = M * q + r
  BY Parts
<1> HIDE DEF q, r
<1>2. x + M * k = M * (q + k) + r
  BY <1>1
<1>3. (M * (q + k) + r) % M = r
  BY <1>1, Unique
<1>4. (M * q + r) % M = r
  BY <1>1, Unique
<1> QED
  BY <1>1, <1>2, <1>3, <1>4

\* What poly_block works with stays below the widths of its variables.
\* B is a limb, q a sixteenth of it; r is <<4a + b, 4s>>.
LEMMA BlockSums ==
    ASSUME NEW q \in Nat, q >= 2, NEW B \in Nat, B = 16 * q,
           NEW s0 \in 0 .. 2 * B - 2, NEW s1 \in 0 .. 2 * B - 2, NEW s2 \in 0..5,
           NEW a \in Nat, NEW b \in 0..3, NEW s \in Nat,
           4 * a + b < q, 4 * s < q
    PROVE  /\ s0 * (4 * a + b) + s1 * (s + 4 * s) + s2 * (5 * a) < B * (B - 2)
           /\ s0 * (4 * s) + s1 * (4 * a + b) + s2 * (s + 4 * s) < B * (4 * q - 3)
           /\ s0 * (4 * a + b) + s1 * (s + 4 * s) + s2 * (5 * a) \in Nat
           /\ s0 * (4 * s) + s1 * (4 * a + b) + s2 * (s + 4 * s) \in Nat
<1> DEFINE p == q - 1
<1>0. p \in Nat /\ p >= 1 /\ q = p + 1 /\ B = 16 * p + 16
  OBVIOUS
<1>1. /\ 4 * a + b <= p /\ 4 * s <= p /\ 5 * a <= 2 * p /\ s + 4 * s <= 2 * p
      /\ 4 * a + b \in Nat /\ 4 * s \in Nat /\ 5 * a \in Nat /\ s + 4 * s \in Nat
  BY <1>0
<1>2. 4 * (s + 4 * s) <= 5 * p /\ 4 * (5 * a) <= 5 * p
  BY <1>0
<1> HIDE DEF p
<1> DEFINE W == 2 * B - 2
<1>w. W \in Nat /\ s0 <= W /\ s1 <= W /\ s0 \in Nat /\ s1 \in Nat /\ s2 \in Nat /\ s2 <= 5
      /\ W = 32 * p + 30 /\ 5 \in Nat
  BY <1>0
<1> HIDE DEF W
<1>3. /\ s0 * (4 * a + b) \in Nat /\ s0 * (4 * a + b) <= W * p
      /\ s0 * (4 * s) \in Nat /\ s0 * (4 * s) <= W * p
      /\ s1 * (4 * a + b) \in Nat /\ s1 * (4 * a + b) <= W * p
  BY <1>0, <1>1, <1>w, Products
<1>4. /\ s1 * (4 * (s + 4 * s)) <= W * (5 * p)
      /\ s2 * (4 * (5 * a)) <= 5 * (5 * p)
      /\ s2 * (4 * (s + 4 * s)) <= 5 * (5 * p)
  <2>1. 4 * (s + 4 * s) \in Nat /\ 4 * (5 * a) \in Nat /\ 5 * p \in Nat
    BY <1>0
  <2> QED
    BY <2>1, <1>2, <1>w, Products
<1>5. /\ s1 * (s + 4 * s) \in Nat /\ s2 * (5 * a) \in Nat /\ s2 * (s + 4 * s) \in Nat
      /\ s1 * (4 * (s + 4 * s)) = 4 * (s1 * (s + 4 * s))
      /\ s2 * (4 * (5 * a)) = 4 * (s2 * (5 * a))
      /\ s2 * (4 * (s + 4 * s)) = 4 * (s2 * (s + 4 * s))
  BY <1>w
<1>6. /\ W * p = 32 * (p * p) + 30 * p /\ p * p \in Nat
      /\ W * (5 * p) = 160 * (p * p) + 150 * p
      /\ 5 * (5 * p) = 25 * p
      /\ B * (B - 2) = 256 * (p * p) + 480 * p + 224
      /\ B * (4 * q - 3) = 64 * (p * p) + 80 * p + 16
  BY <1>0, <1>w
<1>7. p * p >= p
  BY <1>0
<1> QED
  BY <1>0, <1>3, <1>4, <1>5, <1>6, <1>7

\* What poly_block returns, its wide variables holding all of the sums.
\* x0 and x1 are the sums, t what s2 adds above them.
Reduced(x0, x1, t, B) ==
    LET u5 == t + x1 \div B
        u0 == (u5 \div 4) * 5 + (x0 % B)
        u1 == (u0 \div B) + (x1 % B) + (x0 \div B)
    IN <<u0 % B, u1 % B, u1 \div B + (u5 % 4)>>

ReducedFits(x0, x1, t, B) ==
    LET n == Reduced(x0, x1, t, B)
    IN /\ t + x1 \div B \in 0 .. B - 1
       /\ n[1] \in 0 .. B - 1 /\ n[2] \in 0 .. B - 1 /\ n[3] \in 0..4
       /\ \E k \in Nat : n[1] + B * n[2] + B * B * n[3] + (4 * B * B - 5) * k
                            = x0 + B * x1 + B * B * t

LEMMA ReducedIs ==
    ASSUME NEW q \in Nat, q >= 2, NEW B \in Nat, B = 16 * q,
           NEW x0 \in Nat, x0 < B * (B - 2), NEW x1 \in Nat, x1 < B * (4 * q - 3),
           NEW t \in 0..15
    PROVE  ReducedFits(x0, x1, t, B)
<1>0. B \in Nat \ {0} /\ x0 \in Nat /\ x1 \in Nat
  OBVIOUS
<1>p. ASSUME NEW x \in Nat, NEW y \in Nat \ {0}
      PROVE  x \div y \in Nat /\ x % y \in 0..(y - 1) /\ x = y * (x \div y) + (x % y)
  BY ONLY Parts, x \in Nat, y \in Nat \ {0}
<1> DEFINE d1 == x1 \div B
           m1 == x1 % B
           d0 == x0 \div B
           m0 == x0 % B
<1>1. /\ d1 \in Nat /\ m1 \in 0 .. B - 1 /\ x1 = B * d1 + m1
      /\ d0 \in Nat /\ m0 \in 0 .. B - 1 /\ x0 = B * d0 + m0
  BY ONLY <1>0, <1>p
<1> HIDE DEF d1, m1, d0, m0
<1>2. d1 <= 4 * q - 4
  <2>1. CASE d1 >= 4 * q - 3
    <3>1. B * (4 * q - 3) <= B * d1
      <4>1. 4 * q - 3 \in Nat
        OBVIOUS
      <4> QED
        BY <4>1, <2>1, <1>1, Products
    <3> QED
      BY <3>1, <1>1
  <2> QED
    BY <2>1, <1>1
<1>3. d0 <= B - 3
  <2>1. CASE d0 >= B - 2
    <3>1. B * (B - 2) <= B * d0
      <4>1. B - 2 \in Nat
        OBVIOUS
      <4> QED
        BY <4>1, <2>1, <1>1, Products
    <3> QED
      BY <3>1, <1>1
  <2> QED
    BY <2>1, <1>1
<1> DEFINE u5 == t + d1
           k == u5 \div 4
           l == u5 % 4
<1>4. u5 \in Nat /\ u5 <= 4 * q + 11
  BY <1>1, <1>2
<1>5. k \in Nat /\ l \in 0..3 /\ u5 = 4 * k + l
  <2> HIDE DEF u5
  <2> QED
    BY ONLY <1>4, <1>p, 4 \in Nat \ {0}
<1> HIDE DEF k, l
<1>6. k <= q + 2
  BY <1>4, <1>5
<1> DEFINE u0 == k * 5 + m0
           d2 == u0 \div B
           m2 == u0 % B
<1>7. u0 \in Nat /\ u0 < 2 * B
  BY <1>1, <1>5, <1>6
<1>8. d2 \in Nat /\ m2 \in 0 .. B - 1 /\ u0 = B * d2 + m2
  <2> HIDE DEF u0
  <2> QED
    BY ONLY <1>0, <1>7, <1>p
<1> HIDE DEF d2, m2
<1>9. d2 <= 1
  BY <1>7, <1>8
<1> DEFINE u1 == d2 + m1 + d0
           d3 == u1 \div B
           m3 == u1 % B
<1>10. u1 \in Nat /\ u1 < 2 * B
  BY <1>1, <1>3, <1>8, <1>9
<1>11. d3 \in Nat /\ m3 \in 0 .. B - 1 /\ u1 = B * d3 + m3
  <2> HIDE DEF u1
  <2> QED
    BY ONLY <1>0, <1>10, <1>p
<1> HIDE DEF d3, m3
<1>12. d3 <= 1
  BY <1>10, <1>11
<1>13. Reduced(x0, x1, t, B) = <<m2, m3, d3 + l>>
  BY DEF Reduced, d1, m1, d0, m0, k, l, d2, m2, d3, m3
<1>14. m2 + B * m3 + B * B * (d3 + l) + (4 * B * B - 5) * k = x0 + B * x1 + B * B * t
  <2>1. B * (d2 + m1 + d0) = B * (B * d3 + m3)
    BY ONLY <1>0, <1>11
  <2>2. B * B * (4 * k + l) = B * B * (t + d1)
    BY ONLY <1>0, <1>5
  <2>3. /\ m2 = k * 5 + m0 - B * d2 /\ x0 = B * d0 + m0
    BY ONLY <1>0, <1>1, <1>5, <1>8
  <2>4. x1 = B * d1 + m1
    BY ONLY <1>1
  <2> QED
    BY ONLY <2>1, <2>2, <2>3, <2>4, <1>0, <1>1, <1>5, <1>8, <1>11, t \in Nat
<1>15. t + x1 \div B \in 0 .. B - 1
  BY <1>4 DEF d1
<1>16. d3 + l \in 0..4
  BY <1>5, <1>11, <1>12
<1> DEFINE e == d3 + l
<1>17. m2 + B * m3 + B * B * e + (4 * B * B - 5) * k = x0 + B * x1 + B * B * t
  BY <1>14
<1> HIDE DEF e
<1> DEFINE R == Reduced(x0, x1, t, B)
<1>18. R = <<m2, m3, e>>
  BY <1>13 DEF e
<1> HIDE DEF R
<1>19. R[1] = m2 /\ R[2] = m3 /\ R[3] = e
  BY ONLY <1>18
<1>20. /\ R[1] \in 0 .. B - 1 /\ R[2] \in 0 .. B - 1 /\ R[3] \in 0..4
       /\ R[1] + B * R[2] + B * B * R[3] + (4 * B * B - 5) * k = x0 + B * x1 + B * B * t
  BY ONLY <1>8, <1>11, <1>16, <1>17, <1>19 DEF e
<1> QED
  BY ONLY <1>5, <1>15, <1>20 DEF R, ReducedFits

\* The product of h + c and r, taken apart as poly_block does.
LEMMA SplitProduct ==
    ASSUME NEW B \in Nat, NEW s0 \in Nat, NEW s1 \in Nat, NEW s2 \in Nat,
           NEW a \in Nat, NEW b \in Nat, NEW s \in Nat
    PROVE  (s0 + B * s1 + B * B * s2) * (4 * a + b + B * (4 * s))
             = (s0 * (4 * a + b) + s1 * (s + 4 * s) + s2 * (5 * a))
               + B * (s0 * (4 * s) + s1 * (4 * a + b) + s2 * (s + 4 * s))
               + B * B * (s2 * b)
               + (4 * B * B - 5) * (s * s1 + a * s2 + B * (s * s2))
  OBVIOUS

\* chacha20poly1305.c: one turn of poly_blocks keeps h in its bounds and multiplies, for any limb.
THEOREM BlocksAreExact ==
    ASSUME NEW h \in (0 .. Limb - 1) \X (0 .. Limb - 1) \X (0..4), NEW r \in ClearedR,
           NEW c \in (0 .. Limb - 1) \X (0 .. Limb - 1), NEW end \in {0, 1}
    PROVE  BlockIsExact(h, r, c, end)
<1>1. PICK q \in Nat : q >= 2 /\ Limb = 16 * q
  BY LimbIs
<1> DEFINE B == Limb
<1>2. B \in Nat \ {0} /\ B = 16 * q /\ Limb \div 16 = q
  BY <1>1
<1>3. r \in (0 .. q - 1) \X (0 .. q - 1) /\ r[2] % 4 = 0
  BY <1>2 DEF ClearedR
<1> DEFINE a == r[1] \div 4
           b == r[1] % 4
           s == r[2] \div 4
           s0 == h[1] + c[1]
           s1 == h[2] + c[2]
           s2 == h[3] + end
<1>4. /\ r[1] \in Nat /\ r[1] < q /\ r[2] \in Nat /\ r[2] < q
      /\ a \in Nat /\ b \in 0..3 /\ s \in Nat /\ r[1] = 4 * a + b /\ r[2] = 4 * s
  <2>1. r[1] \in Nat /\ r[1] < q /\ r[2] \in Nat /\ r[2] < q /\ r[2] % 4 = 0
    BY <1>3
  <2>2. PICK u \in Nat, v \in Nat : u = r[1] /\ v = r[2]
    BY <2>1
  <2>3. u \div 4 \in Nat /\ u % 4 \in 0..3 /\ u = 4 * (u \div 4) + (u % 4)
    BY ONLY u \in Nat, 4 \in Nat \ {0}, Parts
  <2>4. v \div 4 \in Nat /\ v = 4 * (v \div 4)
    BY ONLY <2>1, <2>2, v \in Nat
  <2> QED
    BY ONLY <2>1, <2>2, <2>3, <2>4
<1>5. s0 \in 0 .. 2 * B - 2 /\ s1 \in 0 .. 2 * B - 2 /\ s2 \in 0..5
  BY <1>2
<1> DEFINE x0 == s0 * (4 * a + b) + s1 * (s + 4 * s) + s2 * (5 * a)
           x1 == s0 * (4 * s) + s1 * (4 * a + b) + s2 * (s + 4 * s)
           t == s2 * b
<1> DEFINE new == poly_block(h, r, c, end)
<1>6. new = LET y0 == Wide(s0 * r[1] + s1 * (s + r[2]) + s2 * (a * 5))
                y1 == Wide(s0 * r[2] + s1 * r[1] + s2 * (s + r[2]))
                u5 == (s2 * b + (y1 \div B)) % B
                u0 == (u5 \div 4) * 5 + (y0 % B)
                u1 == (u0 \div B) + (y1 % B) + (y0 \div B)
            IN <<u0 % B, u1 % B, u1 \div B + (u5 % 4)>>
  BY DEF poly_block
<1>7. /\ HNumber(h) + Number(c) + end * Limb * Limb = s0 + B * s1 + B * B * s2
      /\ Number(r) = 4 * a + b + B * (4 * s)
      /\ h[1] \in Nat /\ h[2] \in Nat /\ h[3] \in Nat /\ c[1] \in Nat /\ c[2] \in Nat
  <2>1. /\ h[1] \in Nat /\ h[2] \in Nat /\ h[3] \in Nat /\ c[1] \in Nat /\ c[2] \in Nat
        /\ end \in Nat
    BY <1>2
  <2>2. HNumber(h) + Number(c) + end * Limb * Limb
          = h[1] + B * h[2] + B * B * h[3] + (c[1] + B * c[2]) + end * B * B
    BY DEF HNumber, Number
  <2>3. Number(r) = r[1] + B * r[2]
    BY DEF Number
  <2>4. h[1] + B * h[2] + B * B * h[3] + (c[1] + B * c[2]) + end * B * B
          = s0 + B * s1 + B * B * s2
    <3> HIDE DEF B
    <3> QED
      BY ONLY <1>2, <2>1 DEF s0, s1, s2
  <2>5. r[1] + B * r[2] = 4 * a + b + B * (4 * s)
    <3> HIDE DEF B, a, b, s
    <3> QED
      BY ONLY <1>4
  <2> QED
    BY ONLY <2>1, <2>2, <2>3, <2>4, <2>5
<1> HIDE DEF a, b, s, s0, s1, s2, new, B
<1>8. /\ x0 \in Nat /\ x0 < B * (B - 2) /\ x1 \in Nat /\ x1 < B * (4 * q - 3)
  <2>1. 4 * a + b < q /\ 4 * s < q
    BY <1>4
  <2> QED
    BY ONLY <1>1, <1>2, <1>4, <1>5, <2>1, BlockSums, q \in Nat
<1>9. t \in 0..15
  BY <1>4, <1>5
<1> HIDE DEF x0, x1, t
<1>10. Wide(x0) = x0 /\ Wide(x1) = x1
  <2>1. B * (B - 2) <= B * B /\ B * (4 * q - 3) <= B * B
    BY ONLY <1>1, <1>2, q \in Nat
  <2>2. x0 < B * B /\ x1 < B * B /\ B * B \in Nat
    BY ONLY <2>1, <1>2, <1>8
  <2>3. Limb * Limb = B * B
    BY DEF B
  <2> QED
    BY ONLY <2>2, <2>3, <1>8 DEF Wide
<1>11. /\ s0 * r[1] + s1 * (s + r[2]) + s2 * (a * 5) = x0
       /\ s0 * r[2] + s1 * r[1] + s2 * (s + r[2]) = x1 /\ s2 * b = t
  BY ONLY <1>4, <1>5 DEF x0, x1, t
<1>12. ReducedFits(x0, x1, t, B)
  BY ONLY <1>1, <1>2, <1>8, <1>9, ReducedIs, q \in Nat
<1>13. new = Reduced(x0, x1, t, B)
  <2> DEFINE v == t + x1 \div B
  <2>a. v \in 0 .. B - 1
    BY ONLY <1>12 DEF ReducedFits
  <2>1. v % B = v
    <3> HIDE DEF v
    <3> QED
      BY ONLY <1>2, <2>a
  <2> QED
    BY ONLY <1>6, <1>10, <1>11, <2>1 DEF Reduced
<1>14. HBound(new)
  BY ONLY <1>12, <1>13 DEF ReducedFits, HBound, B
<1> DEFINE M == Modulus
           P == s * s1 + a * s2 + B * (s * s2)
<1>15. M = 4 * B * B - 5 /\ M \in Nat \ {0} /\ P \in Nat
  <2>1. B * B >= 16
    BY ONLY <1>1, <1>2, q \in Nat
  <2>2. Modulus = 4 * B * B - 5
    BY DEF Modulus, B
  <2> QED
    BY ONLY <2>1, <2>2, <1>2, <1>4, <1>5
<1> HIDE DEF M
<1>16. PICK k \in Nat : new[1] + B * new[2] + B * B * new[3] + M * k
                          = x0 + B * x1 + B * B * t
  BY ONLY <1>12, <1>13, <1>15 DEF ReducedFits
<1>17. HNumber(new) = new[1] + B * new[2] + B * B * new[3] /\ HNumber(new) \in Nat
  <2>1. HNumber(new) = new[1] + B * new[2] + B * B * new[3]
    BY DEF HNumber, Number, B
  <2>2. new[1] \in Nat /\ new[2] \in Nat /\ new[3] \in Nat
    BY ONLY <1>2, <1>14 DEF HBound, B
  <2> QED
    BY ONLY <2>1, <2>2, <1>2
<1>18. (s0 + B * s1 + B * B * s2) * (4 * a + b + B * (4 * s)) = x0 + B * x1 + B * B * t + M * P
  <2>1. /\ s0 \in Nat /\ s1 \in Nat /\ s2 \in Nat /\ a \in Nat /\ b \in Nat /\ s \in Nat
        /\ B \in Nat
    BY ONLY <1>2, <1>4, <1>5
  <2> QED
    BY ONLY <1>15, <2>1, SplitProduct DEF x0, x1, t
<1> HIDE DEF P
<1> DEFINE N == HNumber(new)
           V == (s0 + B * s1 + B * B * s2) * (4 * a + b + B * (4 * s))
<1>19. N \in Nat /\ k + P \in Nat /\ V = N + M * (k + P)
  <2>1. N + M * k = x0 + B * x1 + B * B * t
    BY ONLY <1>16, <1>17
  <2> HIDE DEF N
  <2>2. V = N + M * k + M * P
    BY ONLY <2>1, <1>18
  <2>3. N \in Nat
    BY <1>17 DEF N
  <2> HIDE DEF V
  <2> QED
    BY ONLY <2>2, <2>3, <1>15, k \in Nat
<1> HIDE DEF N, V
<1>20. V % M = N % M
  BY ONLY <1>15, <1>19, SameRest
<1> QED
  BY ONLY <1>7, <1>14, <1>20 DEF BlockIsExact, new, V, N, M

\* The sum over two limbs, a carry taken from one to the other.
LEMMA TwoLimbs ==
    ASSUME NEW B \in Nat \ {0}, NEW x \in Nat, NEW y \in Nat
    PROVE  (x % B) + B * ((x \div B + y) % B) = (x + B * y) % (B * B)
<1> DEFINE d == x \div B
           m == x % B
<1>1. d \in Nat /\ m \in 0 .. B - 1 /\ x = B * d + m
  BY ONLY B \in Nat \ {0}, x \in Nat, Parts
<1> HIDE DEF d, m
<1> DEFINE z == d + y
           e == z \div B
           n == z % B
<1>2. z \in Nat
  BY ONLY <1>1, y \in Nat
<1> HIDE DEF z
<1>3. e \in Nat /\ n \in 0 .. B - 1 /\ z = B * e + n
  BY ONLY <1>2, B \in Nat \ {0}, Parts
<1> HIDE DEF e, n
<1> DEFINE C == B * B
           w == m + B * n
<1>4. C \in Nat \ {0} /\ w \in Nat /\ w < C
  <2>1. B * n <= B * (B - 1)
    BY ONLY <1>3, B \in Nat \ {0}, B - 1 \in Nat, B \in Nat, Products
  <2> QED
    BY ONLY <2>1, <1>1, <1>3, B \in Nat \ {0}
<1>5. x + B * y = C * e + w
  <2>1. B * z = B * (d + y)
    BY DEF z
  <2> QED
    BY ONLY <2>1, <1>1, <1>3, B \in Nat \ {0}, y \in Nat
<1> HIDE DEF C, w
<1>6. (C * e + w) % C = w
  BY ONLY <1>3, <1>4, Unique
<1> QED
  BY ONLY <1>5, <1>6 DEF C, w, d, m, z, n

\* poly1305_final: the tag is h reduced, and the pad, for any limb and any h in its bounds.
THEOREM TagsAreExact ==
    ASSUME NEW h \in (0 .. Limb - 1) \X (0 .. Limb - 1) \X (0..4),
           NEW p \in (0 .. Limb - 1) \X (0 .. Limb - 1)
    PROVE  TagIsExact(h, p)
<1>1. PICK q \in Nat : q >= 2 /\ Limb = 16 * q
  BY LimbIs
<1> DEFINE B == Limb
<1>2. B \in Nat \ {0} /\ B >= 32
  BY <1>1
<1>3. PICK h1 \in 0 .. B - 1, h2 \in 0 .. B - 1, h3 \in 0..4 :
        h1 = h[1] /\ h2 = h[2] /\ h3 = h[3]
  OBVIOUS
<1>4. PICK p1 \in 0 .. B - 1, p2 \in 0 .. B - 1 : p1 = p[1] /\ p2 = p[2]
  OBVIOUS
<1> HIDE DEF B
<1> DEFINE d1 == (5 + h1) \div B
           d2 == (d1 + h2) \div B
           over == d2 + h3
           k == over \div 4
           m1 == (5 + h1) % B
           m2 == (d1 + h2) % B
<1>5. /\ d1 \in Nat /\ m1 \in 0 .. B - 1 /\ 5 + h1 = B * d1 + m1
      /\ h1 \in Nat /\ h2 \in Nat /\ h3 \in Nat /\ h1 < B /\ h2 < B /\ h3 <= 4
      /\ p1 \in Nat /\ p2 \in Nat
  <2>1. 5 + h1 \in Nat
    BY <1>2
  <2>2. d1 \in Nat /\ m1 \in 0 .. B - 1 /\ 5 + h1 = B * d1 + m1
    BY ONLY <2>1, <1>2, Parts
  <2> QED
    BY <1>2, <2>2
<1> HIDE DEF d1, m1
<1>6. d1 <= 1
  BY ONLY <1>2, <1>5
<1>7. d2 \in Nat /\ m2 \in 0 .. B - 1 /\ d1 + h2 = B * d2 + m2
  <2>1. d1 + h2 \in Nat
    BY ONLY <1>5
  <2> QED
    BY ONLY <2>1, <1>2, Parts
<1> HIDE DEF d2, m2
<1>8. d2 <= 1
  BY ONLY <1>2, <1>5, <1>6, <1>7
<1>9. over \in 0..5 /\ k \in 0..1 /\ (k = 1 <=> over >= 4)
  <2>1. over \in 0..5
    BY ONLY <1>5, <1>7, <1>8
  <2> HIDE DEF over
  <2>2. over \in {0, 1, 2, 3, 4, 5}
    BY ONLY <2>1
  <2> QED
    BY ONLY <2>2
<1> HIDE DEF k
<1> DEFINE C == B * B
           H == h1 + B * h2 + C * h3
           M == 4 * C - 5
<1>10. C \in Nat \ {0} /\ C >= 32 /\ M \in Nat \ {0} /\ H \in Nat
  <2>1. B \in Nat /\ 1 \in Nat /\ 32 \in Nat /\ 32 <= B /\ 1 <= B
    BY ONLY <1>2
  <2>2. 32 * 1 <= B * B /\ B * B \in Nat
    BY ONLY <2>1, Products
  <2>3. B * h2 \in Nat
    BY ONLY <2>1, <1>5
  <2>4. C \in Nat \ {0} /\ C >= 32
    BY ONLY <2>2
  <2> HIDE DEF C
  <2>5. C * h3 \in Nat
    BY ONLY <2>4, <1>5
  <2> DEFINE x == B * h2
             y == C * h3
  <2>6. x \in Nat /\ y \in Nat
    BY ONLY <2>3, <2>5
  <2> HIDE DEF x, y
  <2>7. h1 + x + y \in Nat
    BY ONLY <2>6, <1>5
  <2> QED
    BY ONLY <2>4, <2>7 DEF x, y
<1>11. H + 5 = C * over + (B * m2 + m1) /\ B * m2 + m1 \in 0 .. C - 1
  <2>0. B \in Nat /\ B - 1 \in Nat /\ m2 \in Nat /\ m1 \in Nat /\ m2 <= B - 1 /\ m1 <= B - 1
        /\ d2 \in Nat /\ d1 \in Nat
    BY ONLY <1>2, <1>5, <1>7
  <2>1. B * (d1 + h2) = B * (B * d2 + m2)
    BY ONLY <1>7
  <2>2. B * d1 + B * h2 = (B * B) * d2 + B * m2
    BY ONLY <2>0, <2>1, <1>5
  <2>3. h1 + 5 = B * d1 + m1
    BY ONLY <2>0, <1>5
  <2>4. C * over = (B * B) * d2 + C * h3
    BY ONLY <2>0, <1>5
  <2>5. B * m2 <= B * (B - 1) /\ B * m2 \in Nat
    BY ONLY <2>0, Products
  <2>6. B * (B - 1) = C - B
    BY ONLY <2>0
  <2> DEFINE x == B * m2
             u == B * d1
             v == B * h2
             w == (B * B) * d2
             y == C * h3
             top == C * over
  <2>7. /\ u + v = w + x /\ h1 + 5 = u + m1 /\ top = w + y /\ x <= C - B /\ x \in Nat
        /\ H = h1 + v + y
    BY ONLY <2>2, <2>3, <2>4, <2>5, <2>6
  <2>8. u \in Nat /\ v \in Nat /\ w \in Nat
    BY ONLY <2>0, <1>5
  <2> HIDE DEF C, over, H
  <2>9. y \in Nat
    BY ONLY <1>5, <1>10
  <2> HIDE DEF x, u, v, w, y, top
  <2>10. H + 5 = top + (x + m1) /\ x + m1 \in 0 .. C - 1
    BY ONLY <2>0, <2>7, <2>8, <2>9, <1>5, <1>10
  <2> QED
    BY ONLY <2>10 DEF x, top
<1>12. C * over \in Nat /\ (over >= 4 => C * over >= 4 * C) /\ (over <= 3 => C * over <= 3 * C)
       /\ C * over <= 5 * C
  <2> HIDE DEF C, over
  <2> QED
    BY ONLY <1>9, <1>10
<1>13. HNumber(h) = H /\ Modulus = M /\ Number(p) = p1 + B * p2
  BY <1>3, <1>4, <1>2, <1>5 DEF HNumber, Number, Modulus, B
<1>14. H % M = H - k * M /\ H - k * M \in Nat
  <2> DEFINE rest == B * m2 + m1
             top == C * over
  <2>1. /\ top \in Nat /\ (over >= 4 => top >= 4 * C) /\ (over <= 3 => top <= 3 * C)
        /\ top <= 5 * C /\ H + 5 = top + rest /\ rest \in 0 .. C - 1 /\ M = 4 * C - 5
    BY ONLY <1>11, <1>12
  <2> HIDE DEF rest, top, H, M, C, over
  <2>2. CASE over >= 4
    <3>1. k = 1 /\ H >= M /\ H < 2 * M
      BY ONLY <2>1, <2>2, <1>9, <1>10
    <3>2. H = M * 1 + (H - M) /\ H - M \in Nat /\ H - M < M
      BY ONLY <3>1, <1>10
    <3>3. (M * 1 + (H - M)) % M = H - M
      BY ONLY <3>2, <1>10, Unique, 1 \in Nat
    <3> QED
      BY ONLY <3>1, <3>2, <3>3, <1>10
  <2>3. CASE over <= 3
    <3>1. k = 0 /\ H < M
      BY ONLY <2>1, <2>3, <1>9, <1>10
    <3>2. (M * 0 + H) % M = H
      BY ONLY <3>1, <1>10, Unique, 0 \in Nat
    <3>3. M * 0 + H = H
      BY ONLY <1>10
    <3> QED
      BY ONLY <3>1, <3>2, <3>3, <1>10
  <2> QED
    BY ONLY <2>2, <2>3, <1>9
<1> DEFINE c0 == k * 5 + h1 + p1
           y == h2 + p2
<1>15. c0 \in Nat /\ y \in Nat
  BY ONLY <1>5, <1>9
<1>16. Number(poly_sum(h, p)) = (c0 + B * y) % C
  <2>1. poly_sum(h, p) = <<c0 % B, (c0 \div B + h2 + p2) % B>>
    BY <1>3, <1>4 DEF poly_sum, B, k, d2, d1
  <2>2. c0 \div B + h2 + p2 = c0 \div B + y
    <3>1. c0 \div B \in Nat
      <4> HIDE DEF c0
      <4> QED
        BY ONLY <1>2, <1>15, Parts
    <3> QED
      BY ONLY <3>1, <1>5
  <2>3. Number(poly_sum(h, p)) = (c0 % B) + B * ((c0 \div B + y) % B)
    BY <2>1, <2>2 DEF Number, B
  <2> HIDE DEF c0, y
  <2> QED
    BY ONLY <2>3, <1>2, <1>15, TwoLimbs
<1>17. (H - k * M) + (p1 + B * p2) + C * (4 * k) = c0 + B * y + C * h3
  <2> HIDE DEF C
  <2>1. k * M = 4 * (C * k) - 5 * k
    BY ONLY <1>9, <1>10
  <2> QED
    BY ONLY <2>1, <1>2, <1>5, <1>9, <1>10
<1> DEFINE L == (H - k * M) + (p1 + B * p2)
           R == c0 + B * y
<1>18. L \in Nat /\ R \in Nat
  <2>1. B * y \in Nat /\ B * p2 \in Nat
    BY ONLY <1>2, <1>5, <1>15
  <2> HIDE DEF y
  <2> QED
    BY ONLY <2>1, <1>5, <1>14, <1>15
<1> HIDE DEF L, R, C
<1>19. L % C = R % C
  <2>1. (L + C * (4 * k)) % C = L % C
    BY ONLY <1>9, <1>10, <1>18, SameRest, 4 * k \in Nat
  <2>2. (R + C * h3) % C = R % C
    BY ONLY <1>5, <1>10, <1>18, SameRest
  <2>3. L + C * (4 * k) = R + C * h3
    BY ONLY <1>17 DEF L, R
  <2> QED
    BY ONLY <2>1, <2>2, <2>3
<1> QED
  BY ONLY <1>13, <1>14, <1>16, <1>19 DEF TagIsExact, L, R, C, B

-----------------------------------------------------------------------------
(* Strings cut into blocks.                                                *)

LEMMA StrAppend ==
    ASSUME NEW s, IsStr(s), NEW x
    PROVE  Append(s, x) = s \o <<x>> /\ CatOf(Append(s, x), s, <<x>>, Len(s), 1)
<1>1. IsStr(<<x>>) /\ Len(<<x>>) = 1
  BY StrOne
<1>2. CatOf(s \o <<x>>, s, <<x>>, Len(s), Len(<<x>>))
  BY ONLY <1>1, IsStr(s), CatIs
<1>3. Append(s, x) = s \o <<x>>
  <2>1. PICK S : s \in Seq(S)
    BY DEF IsStr
  <2> DEFINE T == S \cup {x}
  <2>2. s \in Seq(T) /\ x \in T
    BY <2>1
  <2> HIDE DEF T
  <2> QED
    BY <2>2
<1> QED
  BY <1>1, <1>2, <1>3

LEMMA StrAssoc ==
    ASSUME NEW a, NEW b, NEW c, IsStr(a), IsStr(b), IsStr(c)
    PROVE  (a \o b) \o c = a \o (b \o c)
<1>1. PICK S : a \in Seq(S)
  BY DEF IsStr
<1>2. PICK T : b \in Seq(T)
  BY DEF IsStr
<1>3. PICK U : c \in Seq(U)
  BY DEF IsStr
<1> DEFINE V == S \cup T \cup U
<1>4. a \in Seq(V) /\ b \in Seq(V) /\ c \in Seq(V)
  BY <1>1, <1>2, <1>3
<1> HIDE DEF V
<1> QED
  BY <1>4, ConcatAssociative

LEMMA StrNothing ==
    ASSUME NEW s, IsStr(s)
    PROVE  <<>> \o s = s /\ s \o <<>> = s
<1>1. PICK S : s \in Seq(S)
  BY DEF IsStr
<1> QED
  BY <1>1, ConcatEmptySeq

\* A string is its first n elements and the others.
LEMMA StrSplit ==
    ASSUME NEW s, IsStr(s), NEW n \in Nat, n <= Len(s)
    PROVE  /\ PartOf(SubSeq(s, 1, n), s, 0, n)
           /\ PartOf(SubSeq(s, n + 1, Len(s)), s, n, Len(s) - n)
           /\ SubSeq(s, 1, n) \o SubSeq(s, n + 1, Len(s)) = s
<1> DEFINE l == Len(s)
           d == l - n
           x == SubSeq(s, 1, n)
           y == SubSeq(s, n + 1, l)
           r == x \o y
<1>1. l \in Nat
  BY StrIs
<1>2. d \in Nat /\ n + d = l /\ 0 + 1 = 1 /\ 0 + n = n /\ 0 \in Nat
  BY <1>1
<1>3. PartOf(SubSeq(s, 0 + 1, 0 + n), s, 0, n)
  BY ONLY IsStr(s), n \in Nat, n <= Len(s), <1>2, PartIs
<1>4. PartOf(SubSeq(s, n + 1, n + d), s, n, d)
  <2> HIDE DEF d
  <2> QED
    BY ONLY IsStr(s), n \in Nat, <1>1, <1>2, PartIs
<1>5. PartOf(x, s, 0, n) /\ PartOf(y, s, n, d)
  BY <1>2, <1>3, <1>4
<1> HIDE DEF x, y, d
<1>6. CatOf(r, x, y, n, d)
  <2>1. IsStr(x) /\ IsStr(y) /\ Len(x) = n /\ Len(y) = d
    BY <1>5 DEF PartOf
  <2>2. CatOf(x \o y, x, y, Len(x), Len(y))
    BY ONLY <2>1, CatIs
  <2> QED
    BY <2>1, <2>2
<1> HIDE DEF r
<1>7. r = s
  <2>1. IsStr(r) /\ Len(r) = Len(s)
    BY <1>2, <1>6 DEF CatOf
  <2>2. ASSUME NEW i \in 1..Len(r) PROVE r[i] = s[i]
    <3>1. CASE i <= n
      <4>1. i \in 1..n /\ 0 + i = i
        BY <3>1
      <4>2. r[i] = x[i] /\ x[i] = s[0 + i]
        BY <1>5, <1>6, <4>1 DEF CatOf, PartOf
      <4> QED
        BY <4>1, <4>2
    <3>2. CASE i > n
      <4> DEFINE k == i - n
      <4>1. k \in 1..d /\ n + k = i
        BY <1>1, <1>2, <2>1, <3>2
      <4> HIDE DEF k
      <4>2. r[n + k] = y[k] /\ y[k] = s[n + k]
        BY <1>5, <1>6, <4>1 DEF CatOf, PartOf
      <4> QED
        BY <4>1, <4>2
    <3> QED
      BY <1>1, <2>1, <3>1, <3>2
  <2> QED
    BY ONLY IsStr(s), <2>1, <2>2, StrEqual
<1> QED
  BY <1>5, <1>7 DEF r, x, y, d

\* The block i of M, of S elements.
BlockOf(M, S, i) == SubSeq(M, (i - 1) * S + 1, i * S)

LEMMA BlockIs ==
    ASSUME NEW S \in Nat \ {0}, NEW M, IsStr(M), NEW i \in Nat \ {0}, i * S <= Len(M)
    PROVE  PartOf(BlockOf(M, S, i), M, (i - 1) * S, S)
<1> DEFINE a == (i - 1) * S
           e == i * S
<1>1. a \in Nat /\ a + S = e
  <2>1. i - 1 \in Nat /\ (i - 1) + 1 = i /\ S \in Nat
    OBVIOUS
  <2>2. (i - 1) * S \in Nat /\ ((i - 1) + 1) * S = (i - 1) * S + S
    BY ONLY <2>1, Multiples
  <2> QED
    BY <2>1, <2>2
<1>2. e <= Len(M) /\ S \in Nat
  OBVIOUS
<1>3. BlockOf(M, S, i) = SubSeq(M, a + 1, e)
  BY DEF BlockOf
<1> HIDE DEF a, e
<1>4. PartOf(SubSeq(M, a + 1, a + S), M, a, S)
  BY ONLY IsStr(M), <1>1, <1>2, PartIs
<1> QED
  BY <1>1, <1>3, <1>4 DEF a

\* The n elements after a of s are those after o of t.
SamePart(s, a, t, o, n) == \A k \in 1..n : s[a + k] = t[o + k]

\* A block is known by its elements.
LEMMA BlockFrom ==
    ASSUME NEW S \in Nat \ {0}, NEW M, IsStr(M), NEW i \in Nat \ {0}, i * S <= Len(M),
           NEW b, NEW s, NEW a, PartOf(b, s, a, S),
           SamePart(s, a, M, (i - 1) * S, S)
    PROVE  b = BlockOf(M, S, i)
<1> DEFINE c == BlockOf(M, S, i)
           o == (i - 1) * S
<1>1. PartOf(c, M, o, S)
  BY BlockIs
<1>2. \A k \in 1..S : s[a + k] = M[o + k]
  BY DEF SamePart
<1> HIDE DEF c, o
<1>3. IsStr(b) /\ IsStr(c) /\ Len(b) = S /\ Len(c) = S
  BY <1>1 DEF PartOf
<1>4. \A k \in 1..Len(b) : b[k] = c[k]
  BY <1>1, <1>2, <1>3 DEF PartOf
<1>5. b = c
  BY ONLY <1>3, <1>4, StrEqual
<1> QED
  BY <1>5 DEF c

\* The blocks of a string stay when something is added to it.
LEMMA BlockBefore ==
    ASSUME NEW S \in Nat \ {0}, NEW M, NEW m, NEW x, NEW a, NEW b, CatOf(M, m, x, a, b),
           IsStr(m), Len(m) = a, NEW i \in Nat \ {0}, i * S <= a
    PROVE  BlockOf(M, S, i) = BlockOf(m, S, i) /\ i * S <= Len(M)
<1> DEFINE o == (i - 1) * S
           e == i * S
<1>1. IsStr(M) /\ Len(M) = a + b /\ a \in Nat /\ b \in Nat
  BY DEF CatOf
<1>2. o \in Nat /\ e = o + S
  <2>1. i - 1 \in Nat /\ (i - 1) + 1 = i /\ S \in Nat
    OBVIOUS
  <2>2. (i - 1) * S \in Nat /\ ((i - 1) + 1) * S = (i - 1) * S + S
    BY ONLY <2>1, Multiples
  <2> QED
    BY <2>1, <2>2
<1>3. e <= Len(M)
  BY <1>1, <1>2
<1>4. PartOf(BlockOf(m, S, i), m, o, S)
  BY BlockIs
<1>5. \A k \in 1..S : m[o + k] = M[o + k]
  <2> TAKE k \in 1..S
  <2> HIDE DEF o, e
  <2>1. o + k \in 1..a
    BY <1>1, <1>2 DEF e
  <2> QED
    BY <2>1 DEF CatOf
<1>7. SamePart(m, o, M, o, S)
  BY <1>5 DEF SamePart
<1>6. BlockOf(m, S, i) = BlockOf(M, S, i)
  BY ONLY S \in Nat \ {0}, i \in Nat \ {0}, <1>1, <1>3, <1>4, <1>7, BlockFrom
<1> QED
  BY <1>3, <1>6

\* M is the q blocks of m and then x, and its block j is the block i of x.
AfterBlocks(M, m, x, a, b, S, q, i, j) ==
    /\ S \in Nat \ {0} /\ q \in Nat /\ a = q * S /\ CatOf(M, m, x, a, b)
    /\ IsStr(x) /\ Len(x) = b /\ i \in Nat \ {0} /\ i * S <= b /\ j = q + i

LEMMA BlockAfter ==
    ASSUME NEW S, NEW M, NEW m, NEW x, NEW q, NEW b, NEW a, NEW i, NEW j,
           AfterBlocks(M, m, x, a, b, S, q, i, j)
    PROVE  BlockOf(M, S, j) = BlockOf(x, S, i)
<1>0. /\ S \in Nat \ {0} /\ q \in Nat /\ a = q * S /\ CatOf(M, m, x, a, b)
      /\ IsStr(x) /\ Len(x) = b /\ i \in Nat \ {0} /\ i * S <= b /\ j = q + i
  BY DEF AfterBlocks
<1> USE <1>0
<1> DEFINE o == (i - 1) * S
           e == i * S
           p == ((q + i) - 1) * S
           f == (q + i) * S
<1>1. IsStr(M) /\ Len(M) = a + b /\ a \in Nat /\ b \in Nat
  BY DEF CatOf
<1>2. o \in Nat /\ e = o + S /\ p = a + o /\ f = a + e
  <2>1. i - 1 \in Nat /\ (i - 1) + 1 = i /\ S \in Nat
    OBVIOUS
  <2>2. (i - 1) * S \in Nat /\ ((i - 1) + 1) * S = (i - 1) * S + S
    BY ONLY <2>1, <1>0, Multiples
  <2>3. (q + i) - 1 = q + (i - 1)
    OBVIOUS
  <2>4. \A k \in Nat : (q + k) * S = q * S + k * S
    OBVIOUS
  <2> QED
    BY <2>1, <2>2, <2>3, <2>4
<1>3. f <= Len(M) /\ q + i \in Nat \ {0}
  BY <1>1, <1>2
<1>4. PartOf(BlockOf(x, S, i), x, o, S)
  BY BlockIs
<1>5. \A k \in 1..S : x[o + k] = M[p + k]
  <2> TAKE k \in 1..S
  <2>0. e <= b /\ CatOf(M, m, x, a, b)
    OBVIOUS
  <2> HIDE DEF o, e, p, f
  <2>1. o + k \in 1..b /\ p + k = a + (o + k)
    BY <1>1, <1>2, <2>0
  <2> QED
    BY <2>0, <2>1 DEF CatOf
<1>7. SamePart(x, o, M, p, S)
  BY <1>5 DEF SamePart
<1>6. BlockOf(x, S, i) = BlockOf(M, S, q + i)
  BY ONLY <1>0, <1>1, <1>3, <1>4, <1>7, BlockFrom
<1> QED
  BY <1>3, <1>6

\* Of m, q blocks are in h, and the r elements after them are first in b.
Filled(h, b, m, S, q, r) ==
    /\ IsStr(h) /\ Len(h) = q /\ \A i \in 1..q : h[i] = BlockOf(m, S, i)
    /\ IsStr(b) /\ Len(b) = S /\ SamePart(b, 0, m, q * S, r)

LEMMA BlocksFit ==
    ASSUME NEW S \in Nat, NEW q \in Nat, NEW i \in 1..q
    PROVE  i * S <= q * S /\ i * S \in Nat /\ q * S \in Nat
<1>1. i \in Nat /\ i <= q
  OBVIOUS
<1> QED
  BY ONLY <1>1, q \in Nat, S \in Nat, Multiples

\* Less than a block is added.
LEMMA FillMore ==
    ASSUME NEW S \in Nat \ {0}, NEW h, NEW b, NEW m, NEW q \in Nat, NEW r \in Nat,
           Filled(h, b, m, S, q, r), IsStr(m), Len(m) = q * S + r,
           NEW x, IsStr(x), r + Len(x) <= S
    PROVE  Filled(h, Put(b, r, x), m \o x, S, q, r + Len(x))
<1> DEFINE a == q * S
           l == Len(x)
           M == m \o x
           B == Put(b, r, x)
           n == a + r
<1>1. a \in Nat /\ l \in Nat /\ S \in Nat
  BY StrIs, Multiples
<1>2. CatOf(M, m, x, n, l)
  <2>1. CatOf(m \o x, m, x, Len(m), Len(x))
    BY ONLY IsStr(m), IsStr(x), CatIs
  <2> QED
    BY <2>1
<1>3. PutOf(B, b, r, x)
  <2>1. IsStr(b) /\ r + Len(x) <= Len(b)
    BY DEF Filled
  <2> QED
    BY ONLY <2>1, IsStr(x), r \in Nat, PutIs
<1>4. \A i \in 1..q : h[i] = BlockOf(M, S, i)
  <2> TAKE i \in 1..q
  <2>1. i * S <= a
    BY <1>1, BlocksFit
  <2>2. i * S <= n /\ i \in Nat \ {0} /\ Len(m) = n
    <3>1. i * S \in Nat
      BY <1>1, BlocksFit
    <3> DEFINE e == i * S
    <3>2. e <= a /\ e \in Nat
      BY <2>1, <3>1
    <3> HIDE DEF e, a
    <3>3. e <= n
      BY ONLY <1>1, <3>2, r \in Nat DEF n
    <3> QED
      BY <3>3 DEF e, a
  <2> HIDE DEF M, n
  <2>3. BlockOf(M, S, i) = BlockOf(m, S, i)
    BY ONLY <1>2, <2>2, IsStr(m), S \in Nat \ {0}, BlockBefore
  <2> QED
    BY <2>3 DEF Filled
<1>5. SamePart(B, 0, M, a, r + l)
  <2> SUFFICES ASSUME NEW k \in 1..(r + l) PROVE B[0 + k] = M[a + k]
    BY DEF SamePart
  <2>0. SamePart(b, 0, m, a, r) /\ Len(x) = l
    BY DEF Filled
  <2> HIDE DEF B, M, a, l
  <2>1. CASE k <= r
    <3>1. k \in 1..r /\ a + k \in 1..n /\ 0 + k = k
      BY <1>1, <2>1
    <3>2. B[k] = b[k]
      BY <1>3, <3>1 DEF PutOf
    <3>3. b[0 + k] = m[a + k]
      BY <2>0, <3>1 DEF SamePart
    <3>4. M[a + k] = m[a + k]
      BY <1>2, <3>1 DEF CatOf
    <3> QED
      BY <3>1, <3>2, <3>3, <3>4
  <2>2. CASE k > r
    <3> DEFINE j == k - r
    <3>1. j \in 1..l /\ r + j = k /\ n + j = a + k /\ 0 + k = k
      BY <1>1, <2>2
    <3> HIDE DEF j
    <3>2. B[r + j] = x[j]
      BY <1>3, <2>0, <3>1 DEF PutOf
    <3>3. M[n + j] = x[j]
      BY <1>2, <3>1 DEF CatOf
    <3> QED
      BY <3>1, <3>2, <3>3
  <2> QED
    BY <1>1, <2>1, <2>2
<1>6. IsStr(B) /\ Len(B) = S
  BY <1>3 DEF PutOf, Filled
<1>7. IsStr(h) /\ Len(h) = q
  BY DEF Filled
<1> HIDE DEF B, M, a, l
<1>8. Filled(h, B, M, S, q, r + l)
  BY ONLY <1>4, <1>5, <1>6, <1>7 DEF Filled, a
<1> QED
  BY <1>8 DEF B, M, l

\* A full buffer is the next block.
LEMMA FillBlock ==
    ASSUME NEW S \in Nat \ {0}, NEW h, NEW b, NEW m, NEW q \in Nat,
           Filled(h, b, m, S, q, S), IsStr(m), Len(m) = (q + 1) * S
    PROVE  /\ Filled(Append(h, b), b, m, S, q + 1, 0)
           /\ b = BlockOf(m, S, q + 1)
<1> DEFINE H == Append(h, b)
           p == q + 1
<1>1. CatOf(H, h, <<b>>, q, 1)
  <2>1. IsStr(h) /\ Len(h) = q
    BY DEF Filled
  <2> QED
    BY <2>1, StrAppend
<1>2. b = BlockOf(m, S, p)
  <2>1. PartOf(b, b, 0, S)
    <3>1. \A k \in 1..S : 0 + k = k
      OBVIOUS
    <3> QED
      BY <3>1 DEF Filled, PartOf
  <2>2. SamePart(b, 0, m, (p - 1) * S, S) /\ p \in Nat \ {0} /\ p * S <= Len(m)
    <3>1. p - 1 = q /\ p \in Nat \ {0} /\ p * S \in Nat
      BY Multiples
    <3> QED
      BY <3>1 DEF Filled
  <2> HIDE DEF p
  <2> QED
    BY ONLY S \in Nat \ {0}, IsStr(m), <2>1, <2>2, BlockFrom
<1>3. \A i \in 1..p : H[i] = BlockOf(m, S, i)
  <2> TAKE i \in 1..p
  <2>1. CASE i = p
    <3>1. H[q + 1] = <<b>>[1] /\ <<b>>[1] = b
      BY <1>1 DEF CatOf
    <3> QED
      BY <1>2, <2>1, <3>1
  <2>2. CASE i # p
    <3>1. i \in 1..q
      BY <2>2
    <3>2. H[i] = h[i] /\ h[i] = BlockOf(m, S, i)
      BY <1>1, <3>1 DEF CatOf, Filled
    <3> QED
      BY <3>2
  <2> QED
    BY <2>1, <2>2
<1>4. IsStr(H) /\ Len(H) = p
  BY <1>1 DEF CatOf
<1>5. IsStr(b) /\ Len(b) = S /\ SamePart(b, 0, m, p * S, 0)
  BY DEF Filled, SamePart
<1> HIDE DEF H, p
<1>6. Filled(H, b, m, S, p, 0)
  BY ONLY <1>3, <1>4, <1>5 DEF Filled
<1> QED
  BY <1>2, <1>6 DEF H, p

\* Whole blocks are taken as they are, and the rest kept.
FilledTo(h, b, m, S, q, r) ==
    /\ S \in Nat \ {0} /\ q \in Nat /\ r \in Nat /\ IsStr(m) /\ Len(m) = q * S + r
    /\ Filled(h, b, m, S, q, r)
\* The w blocks of x are c, and t is what remains of it.
WholeOf(x, S, w, d, c, t) ==
    /\ IsStr(x) /\ w \in Nat /\ d \in Nat /\ d <= S /\ Len(x) = w * S + d
    /\ c = [i \in 1..w |-> BlockOf(x, S, i)] /\ t = SubSeq(x, w * S + 1, Len(x))

LEMMA FillWhole ==
    ASSUME NEW S, NEW h, NEW b, NEW m, NEW q, NEW x, NEW w, NEW d, NEW c, NEW t,
           FilledTo(h, b, m, S, q, 0), WholeOf(x, S, w, d, c, t)
    PROVE  /\ FilledTo(h \o c, Put(b, 0, t), m \o x, S, q + w, d)
           /\ Len(t) = d /\ IsStr(t) /\ Len(m \o x) = Len(m) + Len(x)
<1>0. /\ S \in Nat \ {0} /\ q \in Nat /\ Filled(h, b, m, S, q, 0) /\ IsStr(m)
      /\ Len(m) = q * S
      /\ IsStr(x) /\ w \in Nat /\ d \in Nat /\ Len(x) = w * S + d /\ d <= S
      /\ c = [i \in 1..w |-> BlockOf(x, S, i)] /\ t = SubSeq(x, w * S + 1, Len(x))
  <2> DEFINE a == q * S
  <2>1. S \in Nat /\ q \in Nat /\ Len(m) = a + 0
    BY DEF FilledTo
  <2>2. a \in Nat
    BY <2>1, Multiples
  <2> HIDE DEF a
  <2>3. Len(m) = a
    BY ONLY <2>1, <2>2
  <2> QED
    BY <2>3 DEF FilledTo, WholeOf, a
<1> USE <1>0
<1> DEFINE a == q * S
           e == w * S
           l == e + d
           M == m \o x
           H == h \o c
           B == Put(b, 0, t)
           f == (q + w) * S
<1>1. a \in Nat /\ e \in Nat /\ f = a + e /\ S \in Nat
  BY Multiples
<1>2. CatOf(M, m, x, a, l)
  <2>1. CatOf(m \o x, m, x, Len(m), Len(x))
    BY ONLY <1>0, CatIs
  <2> QED
    BY <2>1
<1>3. CatOf(H, h, c, q, w)
  <2>1. c = [i \in 1..w |-> c[i]]
    OBVIOUS
  <2>2. IsStr(c) /\ Len(c) = w
    BY ONLY <2>1, <1>0, FunctionIsStr
  <2>3. IsStr(h) /\ Len(h) = q
    BY DEF Filled
  <2>4. CatOf(h \o c, h, c, Len(h), Len(c))
    BY ONLY <2>2, <2>3, CatIs
  <2> QED
    BY <2>2, <2>3, <2>4
<1>4. PartOf(t, x, e, d)
  <2>1. e <= Len(x) /\ Len(x) - e = d /\ Len(x) = e + d
    <3> HIDE DEF e
    <3>1. Len(x) = e + d
      BY DEF e
    <3> QED
      BY <1>1, <3>1
  <2>2. PartOf(SubSeq(x, e + 1, e + d), x, e, d)
    <3> HIDE DEF e
    <3> QED
      BY ONLY <1>0, <1>1, <2>1, PartIs
  <2> QED
    BY <2>1, <2>2
<1>5. PutOf(B, b, 0, t)
  <2>1. IsStr(b) /\ IsStr(t) /\ 0 + Len(t) <= Len(b)
    BY <1>4 DEF Filled, PartOf
  <2> QED
    BY ONLY <2>1, 0 \in Nat, PutIs
<1>6. \A i \in 1..(q + w) : H[i] = BlockOf(M, S, i)
  <2> TAKE i \in 1..(q + w)
  <2>1. CASE i <= q
    <3>1. i \in 1..q /\ i \in Nat \ {0} /\ Len(m) = a
      BY <2>1
    <3>2. i * S <= a
      BY <1>1, <3>1, BlocksFit
    <3>3. H[i] = h[i] /\ h[i] = BlockOf(m, S, i)
      BY <1>3, <3>1 DEF CatOf, Filled
    <3> HIDE DEF M, a, l, H
    <3>4. BlockOf(M, S, i) = BlockOf(m, S, i)
      BY ONLY <1>2, <3>1, <3>2, <1>0, BlockBefore
    <3> QED
      BY <3>3, <3>4
  <2>2. CASE i > q
    <3> DEFINE j == i - q
    <3>1. j \in 1..w /\ j \in Nat \ {0} /\ q + j = i
      BY <2>2
    <3> HIDE DEF j
    <3>2. j * S <= l
      <4> DEFINE g == j * S
      <4>1. g <= e /\ g \in Nat
        BY <1>1, <3>1, BlocksFit
      <4> HIDE DEF g, e
      <4>2. g <= l
        BY ONLY <1>0, <1>1, <4>1 DEF l
      <4> QED
        BY <4>2 DEF g
    <3>3. H[q + j] = c[j] /\ c[j] = BlockOf(x, S, j)
      BY <1>3, <3>1 DEF CatOf
    <3>4. Len(x) = l
      OBVIOUS
    <3> HIDE DEF M, l, H
    <3>5. BlockOf(M, S, q + j) = BlockOf(x, S, j)
      <4>1. a = q * S /\ i = q + j
        BY <3>1
      <4> HIDE DEF a
      <4>2. AfterBlocks(M, m, x, a, l, S, q, j, i)
        BY ONLY <1>2, <3>1, <3>2, <3>4, <4>1, <1>0
        DEF AfterBlocks
      <4>3. BlockOf(M, S, i) = BlockOf(x, S, j)
        BY ONLY <4>2, BlockAfter
      <4> QED
        BY <3>1, <4>3
    <3> QED
      BY <3>1, <3>3, <3>5
  <2>3. i <= q \/ i > q
    BY ONLY <1>0, i \in 1..(q + w)
  <2> QED
    BY ONLY <2>1, <2>2, <2>3
<1>7. SamePart(B, 0, M, f, d)
  <2> SUFFICES ASSUME NEW k \in 1..d PROVE B[0 + k] = M[f + k]
    BY DEF SamePart
  <2>0. CatOf(M, m, x, a, l) /\ l = e + d /\ Len(t) = d
    BY <1>2, <1>4 DEF PartOf
  <2> HIDE DEF B, M, a, e, f, l
  <2>1. e + k \in 1..l /\ a + (e + k) = f + k /\ k \in 1..Len(t)
    BY <1>1, <2>0
  <2>2. B[0 + k] = t[k]
    BY <1>5, <2>1 DEF PutOf
  <2>3. t[k] = x[e + k]
    BY <1>4 DEF PartOf
  <2>4. M[a + (e + k)] = x[e + k]
    BY <2>0, <2>1 DEF CatOf
  <2> QED
    BY <2>1, <2>2, <2>3, <2>4
<1>8. IsStr(B) /\ Len(B) = S /\ IsStr(H) /\ Len(H) = q + w /\ Len(M) = a + l
      /\ IsStr(M)
  BY <1>2, <1>3, <1>5 DEF PutOf, CatOf, Filled
<1>9. Len(M) = f + d
  <2>1. l = e + d
    OBVIOUS
  <2> HIDE DEF a, e, f, l, M
  <2> QED
    BY <1>1, <1>8, <2>1
<1>10. Len(t) = d
  BY <1>4 DEF PartOf
<1> HIDE DEF B, M, H
<1>11. Filled(H, B, M, S, q + w, d)
  BY ONLY <1>6, <1>7, <1>8 DEF Filled, f
<1>12. FilledTo(H, B, M, S, q + w, d)
  BY ONLY <1>0, <1>8, <1>9, <1>11 DEF FilledTo, f
<1> QED
  BY <1>4, <1>8, <1>10, <1>12 DEF B, M, H, a, l, PartOf

-----------------------------------------------------------------------------
(* Hashing: what sha256update() keeps.                                     *)

\* s has taken the q blocks of m and holds its last r bytes.
Streamed(s, m, q, r) ==
    /\ s = [len |-> s.len, h |-> s.h, buf |-> s.buf]
    /\ IsStr(m) /\ s.len = Len(m) /\ q \in Nat /\ r \in 0..(BlockLen - 1)
    /\ Len(m) = q * BlockLen + r
    /\ Filled(s.h, s.buf, m, BlockLen, q, r)
Streams(s, m) == \E q, r : Streamed(s, m, q, r)

\* What s becomes with the blocks of x and the rest of it.
Taken(s, x) ==
    LET w == Len(x) \div BlockLen
    IN [len |-> s.len + Len(x), h |-> s.h \o [i \in 1..w |-> BlockOf(x, BlockLen, i)],
        buf |-> Put(s.buf, 0, SubSeq(x, w * BlockLen + 1, Len(x)))]
\* And with the first bytes that fill its buffer.
Full(s, x, r) ==
    LET full == Put(s.buf, r, SubSeq(x, 1, BlockLen - r))
    IN [len |-> s.len + (BlockLen - r), h |-> Append(s.h, full), buf |-> full]

LEMMA TakenStreamed ==
    ASSUME NEW s, NEW m, NEW q, Streamed(s, m, q, 0), NEW x, IsStr(x)
    PROVE  \E p, d : Streamed(Taken(s, x), m \o x, p, d)
<1> DEFINE S == BlockLen
           l == Len(x)
           w == l \div S
           d == l % S
           c == [i \in 1..w |-> BlockOf(x, S, i)]
           t == SubSeq(x, w * S + 1, Len(x))
           M == m \o x
           u == Taken(s, x)
<1>1. S \in Nat \ {0}
  BY HashAssumption
<1>2. l \in Nat
  BY StrIs
<1>3. w \in Nat /\ d \in Nat /\ d < S /\ l = w * S + d
  <2> HIDE DEF l
  <2> DEFINE e == w * S
  <2>1. w \in Nat /\ e <= l /\ l < e + S /\ d = l - e
    BY <1>1, <1>2, Quotient, Remainder
  <2>2. e \in Nat
    BY <1>1, <2>1, Multiples
  <2> HIDE DEF w, d, e, S
  <2>3. d \in Nat /\ d < S /\ l = e + d
    BY <1>1, <1>2, <2>1, <2>2
  <2> QED
    BY <2>1, <2>3 DEF e
<1>4. u = [len |-> s.len + l, h |-> s.h \o c, buf |-> Put(s.buf, 0, t)]
  BY DEF Taken
<1>5. WholeOf(x, S, w, d, c, t)
  <2>1. d <= S
    <3> HIDE DEF d
    <3> QED
      BY <1>1, <1>3
  <2> QED
    BY <1>3, <2>1 DEF WholeOf
<1>6. FilledTo(s.h, s.buf, m, S, q, 0) /\ s.len = Len(m) /\ IsStr(m)
  BY <1>1 DEF Streamed, FilledTo
<1>7. l = Len(x)
  OBVIOUS
<1> HIDE DEF S, w, d, c, t, u, M, l
<1>8. /\ FilledTo(s.h \o c, Put(s.buf, 0, t), m \o x, S, q + w, d)
      /\ Len(t) = d /\ IsStr(t) /\ Len(m \o x) = Len(m) + Len(x)
  BY ONLY <1>5, <1>6, FillWhole
<1>9. u.len = Len(M) /\ u.h = s.h \o c /\ u.buf = Put(s.buf, 0, t)
      /\ u = [len |-> u.len, h |-> u.h, buf |-> u.buf]
  BY <1>4, <1>6, <1>7, <1>8 DEF M
<1>10. d \in 0..(S - 1)
  BY <1>1, <1>3
<1>11. Streamed(u, M, q + w, d)
  BY ONLY <1>8, <1>9, <1>10 DEF Streamed, FilledTo, M, S
<1> QED
  BY <1>11 DEF u, M

LEMMA FullStreamed ==
    ASSUME NEW s, NEW m, NEW q, NEW r, Streamed(s, m, q, r), NEW x, IsStr(x),
           BlockLen - r <= Len(x)
    PROVE  \E p : Streamed(Full(s, x, r), m \o SubSeq(x, 1, BlockLen - r), p, 0)
<1> DEFINE S == BlockLen
           n == S - r
           y == SubSeq(x, 1, n)
           b == Put(s.buf, r, y)
           M == m \o y
           u == Full(s, x, r)
<1>1. S \in Nat \ {0}
  BY HashAssumption
<1>2. /\ IsStr(m) /\ s.len = Len(m) /\ q \in Nat /\ r \in Nat /\ r < S /\ Len(m) = q * S + r
      /\ Filled(s.h, s.buf, m, S, q, r)
  BY <1>1 DEF Streamed
<1>3. n \in Nat /\ r + n = S /\ n <= Len(x)
  BY <1>1, <1>2
<1>4. u = [len |-> s.len + n, h |-> Append(s.h, b), buf |-> b]
  BY DEF Full
<1> HIDE DEF S, n, b, u
<1>5. IsStr(y) /\ Len(y) = n
  BY <1>3, StrFirst
<1> HIDE DEF y
<1>6. Filled(s.h, b, M, S, q, S)
  <2>1. r + Len(y) <= S /\ r + Len(y) = S
    BY <1>1, <1>3, <1>5
  <2>2. Filled(s.h, Put(s.buf, r, y), m \o y, S, q, r + Len(y))
    BY ONLY <1>1, <1>2, <1>5, <2>1, FillMore
  <2> QED
    BY <2>1, <2>2 DEF b
<1>7. IsStr(M) /\ Len(M) = Len(m) + n
  BY <1>2, <1>5, StrCat
<1>8. Len(M) = (q + 1) * S
  <2> DEFINE a == q * S
  <2>1. a \in Nat /\ (q + 1) * S = a + S
    BY <1>1, <1>2, Multiples
  <2>2. Len(m) = a + r
    BY <1>2
  <2> HIDE DEF a
  <2>3. Len(M) = a + S
    BY ONLY <1>1, <1>2, <1>3, <1>7, <2>1, <2>2
  <2> QED
    BY <2>1, <2>3
<1> HIDE DEF M
<1>9. Filled(Append(s.h, b), b, M, S, q + 1, 0)
  BY ONLY <1>1, <1>2, <1>6, <1>7, <1>8, FillBlock
<1>10. u.len = Len(M) /\ u.h = Append(s.h, b) /\ u.buf = b
       /\ u = [len |-> u.len, h |-> u.h, buf |-> u.buf]
  BY <1>2, <1>4, <1>7
<1>11. q + 1 \in Nat /\ 0 \in 0..(S - 1)
  BY <1>1, <1>2
<1>12. Len(M) = (q + 1) * S + 0
  <2> DEFINE a == (q + 1) * S
  <2>1. a \in Nat
    BY <1>1, <1>11, Multiples
  <2>2. Len(M) = a
    BY <1>8
  <2> HIDE DEF a
  <2>3. Len(M) = a + 0
    BY ONLY <2>1, <2>2
  <2> QED
    BY <2>3 DEF a
<1>13. Streamed(u, M, q + 1, 0)
  BY ONLY <1>7, <1>9, <1>10, <1>11, <1>12 DEF Streamed, S
<1> QED
  BY <1>13 DEF u, M, y, n, S

LEMMA MoreStreamed ==
    ASSUME NEW s, NEW m, NEW q, NEW r, Streamed(s, m, q, r), NEW x, IsStr(x),
           Len(x) < BlockLen - r
    PROVE  Streamed([len |-> s.len + Len(x), h |-> s.h, buf |-> Put(s.buf, r, x)],
                    m \o x, q, r + Len(x))
<1> DEFINE S == BlockLen
           l == Len(x)
           M == m \o x
           u == [len |-> s.len + l, h |-> s.h, buf |-> Put(s.buf, r, x)]
<1>1. S \in Nat \ {0}
  BY HashAssumption
<1>2. /\ IsStr(m) /\ s.len = Len(m) /\ q \in Nat /\ r \in Nat /\ r < S /\ Len(m) = q * S + r
      /\ Filled(s.h, s.buf, m, S, q, r)
  BY <1>1 DEF Streamed
<1>3. l \in Nat
  BY StrIs
<1>4. r + l < S /\ r + l \in 0..(S - 1) /\ r + Len(x) <= S
  BY <1>1, <1>2, <1>3
<1>5. IsStr(M) /\ Len(M) = Len(m) + l
  BY <1>2, StrCat
<1> HIDE DEF S
<1>6. Filled(s.h, Put(s.buf, r, x), m \o x, S, q, r + Len(x))
  BY ONLY <1>1, <1>2, <1>4, IsStr(x), FillMore
<1>7. Len(M) = q * S + (r + l)
  <2> DEFINE a == q * S
  <2>1. a \in Nat
    BY <1>1, <1>2, Multiples
  <2>2. Len(m) = a + r
    BY <1>2
  <2> HIDE DEF a, l, M
  <2>3. Len(M) = a + (r + l)
    BY ONLY <1>2, <1>3, <1>5, <2>1, <2>2
  <2> QED
    BY <2>3 DEF a
<1>8. u.len = Len(M) /\ u.h = s.h /\ u.buf = Put(s.buf, r, x)
      /\ u = [len |-> u.len, h |-> u.h, buf |-> u.buf]
  BY <1>2, <1>5
<1> HIDE DEF u
<1>9. Streamed(u, M, q, r + l)
  BY ONLY <1>2, <1>4, <1>5, <1>6, <1>7, <1>8 DEF Streamed, S, l, M
<1> QED
  BY <1>9 DEF u, M, l

\* The end of sha256update(): the blocks of x are hashed, the rest is kept.
Rested(t, x) ==
    LET whole == Len(x) \div BlockLen
        cut(i) == SubSeq(x, i * BlockLen + 1, (i + 1) * BlockLen)
    IN [t EXCEPT !.h = @ \o [i \in 1..whole |-> cut(i - 1)],
                 !.buf = Put(@, 0, SubSeq(x, whole * BlockLen + 1, Len(x)))]
\* sha256update() when r bytes are in the buffer.
UpdateOf(s, x, r) ==
    LET fill == IF r = 0 THEN 0 ELSE BlockLen - r
        counted == [s EXCEPT !.len = @ + Len(x)]
        full == Put(s.buf, r, SubSeq(x, 1, fill))
        t == IF r = 0 THEN counted
             ELSE Compressed([counted EXCEPT !.buf = full], full)
    IN IF r # 0 /\ Len(x) < fill
       THEN [counted EXCEPT !.buf = Put(@, r, x)]
       ELSE Rested(t, SubSeq(x, fill + 1, Len(x)))

LEMMA UpdateIsOf ==
    ASSUME NEW s, NEW m, NEW q, NEW r, Streamed(s, m, q, r), NEW x
    PROVE  sha256update(s, x) = UpdateOf(s, x, r)
<1> DEFINE S == BlockLen
<1>1. S \in Nat \ {0}
  BY HashAssumption
<1>2. /\ s = [len |-> s.len, h |-> s.h, buf |-> s.buf] /\ r \in 0..(S - 1)
      /\ s.len = Len(m) /\ Len(m) = q * S + r /\ IsStr(m) /\ q \in Nat
  BY DEF Streamed
<1>3. r \in Nat /\ r < S /\ Len(m) \in Nat
  BY <1>1, <1>2, StrIs
<1> HIDE DEF S
<1>4. Len(m) % S = r
  BY ONLY <1>1, <1>2, <1>3, QuotientIs
<1>5. sha256update(s, x) = UpdateOf(s, x, s.len % BlockLen)
  BY DEF sha256update, UpdateOf, Rested
<1> QED
  BY <1>2, <1>4, <1>5 DEF S

LEMMA RestedIs ==
    ASSUME NEW s, NEW x, IsStr(x), NEW t,
           t = [len |-> s.len + Len(x), h |-> s.h, buf |-> s.buf]
    PROVE  Rested(t, x) = Taken(s, x)
<1> DEFINE S == BlockLen
           w == Len(x) \div S
           c == [i \in 1..w |-> SubSeq(x, (i - 1) * S + 1, ((i - 1) + 1) * S)]
           e == [i \in 1..w |-> BlockOf(x, S, i)]
           k == SubSeq(x, w * S + 1, Len(x))
<1>1. S \in Nat \ {0} /\ Len(x) \in Nat
  BY HashAssumption, StrIs
<1>2. w \in Nat
  BY <1>1, Quotient
<1>3. \A i \in 1..w : (i - 1) + 1 = i
  BY <1>2
<1>4. c = e
  <2> HIDE DEF w
  <2> QED
    BY <1>3 DEF BlockOf
<1>5. Rested(t, x) = [t EXCEPT !.h = @ \o c, !.buf = Put(@, 0, k)]
  BY DEF Rested
<1>6. Taken(s, x) = [len |-> s.len + Len(x), h |-> s.h \o e, buf |-> Put(s.buf, 0, k)]
  BY DEF Taken
<1> HIDE DEF c, e, k
<1> QED
  BY <1>4, <1>5, <1>6

LEMMA CompressedIs ==
    ASSUME NEW s, s = [len |-> s.len, h |-> s.h, buf |-> s.buf], NEW f
    PROVE  Compressed(s, f) = [len |-> s.len, h |-> Append(s.h, f), buf |-> s.buf]
  BY DEF Compressed

\* What sha256update() does is one of three things.
LEMMA UpdateIs ==
    ASSUME NEW s, NEW m, NEW q, NEW r, Streamed(s, m, q, r), NEW x, IsStr(x)
    PROVE  /\ r = 0 => sha256update(s, x) = Taken(s, x)
           /\ r # 0 /\ Len(x) < BlockLen - r =>
                sha256update(s, x) =
                  [len |-> s.len + Len(x), h |-> s.h, buf |-> Put(s.buf, r, x)]
           /\ r # 0 /\ BlockLen - r <= Len(x) =>
                sha256update(s, x) = Taken(Full(s, x, r),
                                           SubSeq(x, BlockLen - r + 1, Len(x)))
<1> DEFINE u == UpdateOf(s, x, r)
           counted == [len |-> s.len + Len(x), h |-> s.h, buf |-> s.buf]
           n == BlockLen - r
<1>1. sha256update(s, x) = u
  BY UpdateIsOf
<1>2. BlockLen \in Nat \ {0} /\ Len(x) \in Nat /\ SubSeq(x, 1, Len(x)) = x
  BY HashAssumption, StrIs, StrAll
<1>3. /\ s = [len |-> s.len, h |-> s.h, buf |-> s.buf] /\ r \in 0..(BlockLen - 1)
      /\ s.len \in Nat
  <2>1. /\ s = [len |-> s.len, h |-> s.h, buf |-> s.buf] /\ r \in 0..(BlockLen - 1)
        /\ s.len = Len(m) /\ IsStr(m)
    BY DEF Streamed
  <2> QED
    BY <2>1, StrIs
<1>4. [s EXCEPT !.len = @ + Len(x)] = counted
  BY <1>3
<1>5. ASSUME r = 0 PROVE u = Taken(s, x)
  <2>1. u = Rested(counted, SubSeq(x, 0 + 1, Len(x)))
    <3> HIDE DEF counted
    <3> QED
      BY <1>4, <1>5 DEF UpdateOf
  <2>2. SubSeq(x, 0 + 1, Len(x)) = x
    BY <1>2
  <2> QED
    BY <2>1, <2>2, RestedIs
<1>6. ASSUME r # 0, Len(x) < n
      PROVE  u = [len |-> s.len + Len(x), h |-> s.h, buf |-> Put(s.buf, r, x)]
  <2>1. u = [counted EXCEPT !.buf = Put(@, r, x)]
    <3> HIDE DEF counted
    <3> QED
      BY <1>4, <1>6 DEF UpdateOf
  <2> QED
    BY <2>1
<1>7. ASSUME r # 0, n <= Len(x)
      PROVE  u = Taken(Full(s, x, r), SubSeq(x, n + 1, Len(x)))
  <2> DEFINE full == Put(s.buf, r, SubSeq(x, 1, n))
             t == [len |-> s.len + Len(x), h |-> Append(s.h, full), buf |-> full]
             y == SubSeq(x, n + 1, Len(x))
             f == Full(s, x, r)
  <2>1. u = Rested(Compressed([counted EXCEPT !.buf = full], full), y)
    <3>1. ~(Len(x) < n)
      BY <1>2, <1>3, <1>7
    <3> HIDE DEF counted, full, n
    <3> QED
      BY <1>4, <1>7, <3>1 DEF UpdateOf, full, n
  <2>2. Compressed([counted EXCEPT !.buf = full], full) = t
    <3> DEFINE g == [counted EXCEPT !.buf = full]
    <3>1. g = [len |-> s.len + Len(x), h |-> s.h, buf |-> full]
      OBVIOUS
    <3> HIDE DEF full, g
    <3>2. /\ g = [len |-> g.len, h |-> g.h, buf |-> g.buf]
          /\ g.len = s.len + Len(x) /\ g.h = s.h /\ g.buf = full
      BY <3>1
    <3>3. Compressed(g, full) = [len |-> g.len, h |-> Append(g.h, full), buf |-> g.buf]
      BY ONLY <3>2, CompressedIs
    <3>4. Compressed(g, full) = t
      BY <3>2, <3>3
    <3> QED
      BY <3>4 DEF g
  <2>3. f = [len |-> s.len + n, h |-> Append(s.h, full), buf |-> full]
    BY DEF Full
  <2>4. IsStr(y) /\ Len(y) = Len(x) - n
    <3>1. n \in Nat /\ n <= Len(x)
      BY <1>2, <1>3, <1>7
    <3> HIDE DEF n
    <3> QED
      BY <3>1, StrSplit DEF PartOf
  <2> HIDE DEF y, f, full
  <2>5. t = [len |-> f.len + Len(y), h |-> f.h, buf |-> f.buf]
    <3>1. f.len = s.len + n /\ f.h = Append(s.h, full) /\ f.buf = full
      BY <2>3
    <3>2. (s.len + n) + Len(y) = s.len + Len(x)
      BY <1>2, <1>3, <2>4
    <3> HIDE DEF n
    <3> QED
      BY <3>1, <3>2
  <2> HIDE DEF t
  <2>6. Rested(t, y) = Taken(f, y)
    BY ONLY <2>4, <2>5, RestedIs
  <2> QED
    BY <2>1, <2>2, <2>6 DEF f, y
<1> QED
  BY <1>1, <1>5, <1>6, <1>7

\* A step of sha256update() adds x to the message.
LEMMA UpdateStreams ==
    ASSUME NEW s, NEW m, Streams(s, m), NEW x, IsStr(x)
    PROVE  Streams(sha256update(s, x), m \o x)
<1> DEFINE u == sha256update(s, x)
<1>1. PICK q, r : Streamed(s, m, q, r)
  BY DEF Streams
<1> DEFINE n == BlockLen - r
           y == SubSeq(x, 1, n)
           t == SubSeq(x, n + 1, Len(x))
           f == Full(s, x, r)
<1>2. /\ r = 0 => u = Taken(s, x)
      /\ r # 0 /\ Len(x) < n =>
           u = [len |-> s.len + Len(x), h |-> s.h, buf |-> Put(s.buf, r, x)]
      /\ r # 0 /\ n <= Len(x) => u = Taken(f, t)
  BY <1>1, UpdateIs
<1>3. /\ BlockLen \in Nat \ {0} /\ Len(x) \in Nat /\ r \in 0..(BlockLen - 1) /\ IsStr(m)
  BY <1>1, HashAssumption, StrIs DEF Streamed
<1>4. n \in Nat
  BY <1>3
<1> HIDE DEF u
<1>5. CASE r = 0
  <2>1. Streamed(s, m, q, 0)
    BY <1>1, <1>5
  <2>2. \E p, d : Streamed(Taken(s, x), m \o x, p, d)
    BY ONLY <2>1, IsStr(x), TakenStreamed
  <2> QED
    BY <1>2, <1>5, <2>2 DEF Streams, u
<1>6. CASE r # 0 /\ Len(x) < n
  <2>1. Streamed([len |-> s.len + Len(x), h |-> s.h, buf |-> Put(s.buf, r, x)],
                 m \o x, q, r + Len(x))
    BY ONLY <1>1, <1>6, IsStr(x), MoreStreamed
  <2> QED
    BY <1>2, <1>6, <2>1 DEF Streams, u
<1>7. CASE r # 0 /\ n <= Len(x)
  <2>1. PICK p : Streamed(f, m \o y, p, 0)
    BY ONLY <1>1, <1>7, IsStr(x), FullStreamed
  <2>2. PartOf(y, x, 0, n) /\ PartOf(t, x, n, Len(x) - n) /\ y \o t = x
    <3> HIDE DEF n
    <3> QED
      BY <1>4, <1>7, StrSplit
  <2>3. IsStr(y) /\ IsStr(t)
    BY <2>2 DEF PartOf
  <2> HIDE DEF y, t, f
  <2>4. \E w, d : Streamed(Taken(f, t), (m \o y) \o t, w, d)
    BY ONLY <2>1, <2>3, TakenStreamed
  <2>5. (m \o y) \o t = m \o x
    <3>1. (m \o y) \o t = m \o (y \o t)
      BY <1>3, <2>3, StrAssoc
    <3> QED
      BY <2>2, <3>1
  <2> QED
    BY <1>2, <1>7, <2>4, <2>5 DEF Streams, u
<1>8. n <= Len(x) \/ Len(x) < n
  BY <1>3, <1>4
<1> QED
  BY <1>5, <1>6, <1>7, <1>8

LEMMA InitStreams == Streams(sha256init, <<>>)
<1> DEFINE s == sha256init
           S == BlockLen
           b == Named("stack", S)
<1>1. S \in Nat \ {0}
  BY HashAssumption
<1>2. IsStr(b) /\ Len(b) = S
  BY <1>1, NamedIs
<1>3. ASSUME NEW m, m = <<>> PROVE Streamed(s, m, 0, 0)
  <2>1. IsStr(m) /\ Len(m) = 0
    BY <1>3, StrEmpty
  <2>2. s = [len |-> 0, h |-> m, buf |-> b]
    BY <1>3 DEF sha256init
  <2>3. 0 * S + 0 = 0 /\ 0 \in 0..(S - 1) /\ 0 \in Nat
    BY <1>1
  <2> HIDE DEF s, b
  <2>4. s = [len |-> s.len, h |-> s.h, buf |-> s.buf] /\ s.len = 0 /\ s.h = m /\ s.buf = b
    BY <2>2
  <2>5. Filled(m, b, m, S, 0, 0)
    <3>1. 1..0 = {}
      OBVIOUS
    <3> HIDE DEF S
    <3> QED
      BY <1>2, <2>1, <3>1 DEF Filled, SamePart
  <2> QED
    BY <2>1, <2>3, <2>4, <2>5 DEF Streamed
<1> QED
  BY <1>3 DEF Streams

-----------------------------------------------------------------------------
(* Hashing: the padding, and the digest of a message in pieces.            *)

LEMMA MoreTo ==
    ASSUME NEW S, NEW h, NEW b, NEW m, NEW q, NEW r, FilledTo(h, b, m, S, q, r),
           NEW x, IsStr(x), NEW l, Len(x) = l, NEW e, e = r + l, e <= S
    PROVE  FilledTo(h, Put(b, r, x), m \o x, S, q, e)
<1> DEFINE a == q * S
           M == m \o x
<1>1. /\ S \in Nat \ {0} /\ q \in Nat /\ r \in Nat /\ IsStr(m) /\ Len(m) = q * S + r
      /\ Filled(h, b, m, S, q, r)
  BY DEF FilledTo
<1>2. r + Len(x) <= S /\ r + Len(x) = e
  OBVIOUS
<1>3. Filled(h, Put(b, r, x), m \o x, S, q, r + Len(x))
  BY ONLY <1>1, <1>2, IsStr(x), FillMore
<1>4. IsStr(M) /\ Len(M) = Len(m) + l /\ l \in Nat
  BY <1>1, StrCat
<1>5. Len(M) = q * S + e /\ e \in Nat
  <2>1. a \in Nat
    BY <1>1, Multiples
  <2>2. Len(m) = a + r /\ e = r + l
    BY <1>1
  <2> HIDE DEF a, M
  <2>3. Len(M) = a + e /\ e \in Nat
    BY ONLY <1>1, <1>4, <2>1, <2>2
  <2> QED
    BY <2>3 DEF a
<1> QED
  BY ONLY <1>1, <1>2, <1>3, <1>4, <1>5 DEF FilledTo, M

LEMMA BlockTo ==
    ASSUME NEW S, NEW h, NEW b, NEW m, NEW q, FilledTo(h, b, m, S, q, S), NEW p, p = q + 1
    PROVE  FilledTo(Append(h, b), b, m, S, p, 0)
<1>1. /\ S \in Nat \ {0} /\ q \in Nat /\ IsStr(m) /\ Len(m) = q * S + S
      /\ Filled(h, b, m, S, q, S)
  BY DEF FilledTo
<1>2. (q + 1) * S = q * S + S /\ (q + 1) * S \in Nat /\ q + 1 \in Nat
  <2>1. q + 1 \in Nat /\ S \in Nat
    BY <1>1
  <2> QED
    BY <1>1, <2>1, Multiples
<1>3. Len(m) = (q + 1) * S
  BY ONLY <1>1, <1>2
<1>4. Filled(Append(h, b), b, m, S, q + 1, 0)
  BY ONLY <1>1, <1>3, FillBlock
<1>5. Len(m) = p * S + 0 /\ p \in Nat /\ Filled(Append(h, b), b, m, S, p, 0)
  <2> DEFINE a == (q + 1) * S
  <2>1. Len(m) = a /\ a \in Nat
    BY <1>2, <1>3
  <2> HIDE DEF a
  <2>2. Len(m) = a + 0
    BY ONLY <2>1
  <2> QED
    BY <1>2, <1>4, <2>2 DEF a
<1> QED
  BY ONLY <1>1, <1>5, 0 \in Nat DEF FilledTo

\* The whole blocks of p.
AllBlocks(p, S) == [i \in 1..(Len(p) \div S) |-> SubSeq(p, (i - 1) * S + 1, i * S)]

LEMMA BlocksOfAll ==
    ASSUME NEW S, NEW h, NEW b, NEW m, NEW q, FilledTo(h, b, m, S, q, 0)
    PROVE  h = AllBlocks(m, S)
<1>1. /\ S \in Nat \ {0} /\ q \in Nat /\ Len(m) = q * S + 0 /\ IsStr(m)
      /\ IsStr(h) /\ Len(h) = q /\ \A i \in 1..q : h[i] = BlockOf(m, S, i)
  BY DEF FilledTo, Filled
<1>2. Len(m) \in Nat /\ h = [i \in 1..Len(h) |-> h[i]]
  BY <1>1, StrIs
<1>3. Len(m) \div S = q
  <2>1. 0 < S /\ 0 \in Nat
    BY <1>1
  <2> QED
    BY ONLY <1>1, <1>2, <2>1, QuotientIs
<1>4. h = [i \in 1..q |-> BlockOf(m, S, i)]
  BY ONLY <1>1, <1>2
<1>5. h = [i \in 1..q |-> SubSeq(m, (i - 1) * S + 1, i * S)]
  BY ONLY <1>4 DEF BlockOf
<1> QED
  BY <1>3, <1>5 DEF AllBlocks

LEMMA RepeatIs ==
    ASSUME NEW x, NEW n \in Nat
    PROVE  /\ IsStr(Repeat(x, n)) /\ Len(Repeat(x, n)) = n
           /\ \A i \in 1..n : Repeat(x, n)[i] = x
<1> DEFINE s == [i \in 1..n |-> x]
<1>1. s = [i \in 1..n |-> s[i]] /\ \A i \in 1..n : s[i] = x
  OBVIOUS
<1> HIDE DEF s
<1>2. IsStr(s) /\ Len(s) = n
  BY <1>1, FunctionIsStr
<1> QED
  BY <1>1, <1>2 DEF s, Repeat

LEMMA ZerosAdd ==
    ASSUME NEW n \in Nat, NEW k \in Nat, NEW e, e = n + k
    PROVE  /\ Zeros(n) \o Zeros(k) = Zeros(e)
           /\ IsStr(Zeros(n)) /\ Len(Zeros(n)) = n
<1> DEFINE x == Zeros(n)
           y == Zeros(k)
           z == Zeros(e)
           r == x \o y
<1>1. /\ IsStr(x) /\ Len(x) = n /\ \A i \in 1..n : x[i] = {}
      /\ IsStr(y) /\ Len(y) = k /\ \A i \in 1..k : y[i] = {}
      /\ IsStr(z) /\ Len(z) = e /\ \A i \in 1..e : z[i] = {}
  <2>1. e \in Nat
    OBVIOUS
  <2> QED
    BY <2>1, RepeatIs DEF Zeros
<1> HIDE DEF x, y, z
<1>2. CatOf(x \o y, x, y, Len(x), Len(y))
  BY ONLY <1>1, CatIs
<1> HIDE DEF r
<1>3. CatOf(r, x, y, n, k)
  BY <1>1, <1>2 DEF r
<1>4. ASSUME NEW i \in 1..e PROVE r[i] = {}
  <2>1. CASE i <= n
    <3>1. i \in 1..n
      BY <2>1
    <3> QED
      BY <1>1, <1>3, <3>1 DEF CatOf
  <2>2. CASE i > n
    <3> DEFINE j == i - n
    <3>1. j \in 1..k /\ n + j = i
      BY <2>2
    <3> HIDE DEF j
    <3>2. r[n + j] = y[j]
      BY <1>3, <3>1 DEF CatOf
    <3> QED
      BY <1>1, <3>1, <3>2
  <2> QED
    BY <2>1, <2>2
<1>5. IsStr(r) /\ Len(r) = e
  BY <1>3 DEF CatOf
<1>6. r = z
  BY <1>1, <1>4, <1>5, StrEqual
<1> QED
  BY <1>1, <1>6 DEF x, y, z, r

\* The number of zero bytes that fill a last block.
LEMMA PadLength ==
    ASSUME NEW S \in Nat \ {0}, NEW a \in Nat, NEW l \in Nat, NEW q \in Nat,
           NEW k \in 0..(S - 1), NEW t, t = q * S, a + 1 + k + l = t
    PROVE  (CHOOSE j \in 0..(S - 1) : (a + 1 + j + l) % S = 0) = k
<1>1. t \in Nat
  BY Multiples
<1>2. (a + 1 + k + l) % S = 0
  <2>1. t = q * S + 0 /\ 0 < S /\ 0 \in Nat
    <3> DEFINE e == q * S
    <3>1. t = e /\ 0 < S
      OBVIOUS
    <3> HIDE DEF e
    <3>2. t = e + 0 /\ 0 < S
      BY ONLY <1>1, <3>1
    <3> QED
      BY <3>2 DEF e
  <2>2. t % S = 0
    BY ONLY <1>1, <2>1, S \in Nat \ {0}, q \in Nat, QuotientIs
  <2> QED
    BY <2>2
<1>3. ASSUME NEW j \in 0..(S - 1), (a + 1 + j + l) % S = 0 PROVE j = k
  <2> DEFINE b == a + 1 + j + l
             p == b \div S
             e == p * S
  <2>1. b \in Nat
    OBVIOUS
  <2>2. b % S = 0
    BY <1>3
  <2> HIDE DEF b
  <2>3. p \in Nat /\ 0 = b - e
    BY <2>1, <2>2, Quotient, Remainder
  <2> HIDE DEF p
  <2>4. e \in Nat
    BY <2>3, Multiples
  <2>5. b = e
    <3> HIDE DEF e
    <3> QED
      BY ONLY <2>1, <2>3, <2>4
  <2>6. p < q => e + S <= t
    BY <2>3, Multiples
  <2>7. q < p => t + S <= e
    BY <2>3, Multiples
  <2>8. p = q => e = t
    OBVIOUS
  <2> HIDE DEF e
  <2>9. b - t = j - k /\ j - k < S /\ k - j < S
    BY ONLY S \in Nat \ {0}, a \in Nat, l \in Nat, k \in 0..(S - 1), a + 1 + k + l = t,
            j \in 0..(S - 1) DEF b
  <2>10. e = t
    BY ONLY S \in Nat \ {0}, q \in Nat, <1>1, <2>1, <2>3, <2>4, <2>5, <2>6, <2>7, <2>8, <2>9
  <2> QED
    BY ONLY <1>1, <2>1, <2>5, <2>9, <2>10, j \in 0..(S - 1), k \in 0..(S - 1), S \in Nat \ {0}
<1> QED
  BY <1>2, <1>3

\* pad() when n bytes are in the buffer.
PadOf(s, n) ==
    LET r == n + 1
        one == Put(s.buf, r - 1, <<Const(128)>>)
        full == Put(one, r, Zeros(BlockLen - r))
        t == IF r > BlockLen - LenLen
             THEN Compressed([s EXCEPT !.buf = full], full)
             ELSE [s EXCEPT !.buf = one]
        at == IF r > BlockLen - LenLen THEN 0 ELSE r
    IN Compressed(t, Put(Put(t.buf, at, Zeros(BlockLen - LenLen - at)),
                           BlockLen - LenLen, BigEndian(8 * s.len, LenLen)))

LEMMA CompressedBlocks ==
    ASSUME NEW s, s = [len |-> s.len, h |-> s.h, buf |-> s.buf], NEW f
    PROVE  Compressed(s, f).h = Append(s.h, f)
  BY CompressedIs

LEMMA RecordSet ==
    ASSUME NEW s, s = [len |-> s.len, h |-> s.h, buf |-> s.buf], NEW f, NEW g, g = [s EXCEPT !.buf = f]
    PROVE  /\ g = [len |-> g.len, h |-> g.h, buf |-> g.buf]
           /\ g.len = s.len /\ g.h = s.h /\ g.buf = f
<1>1. g = [len |-> s.len, h |-> s.h, buf |-> f]
  OBVIOUS
<1> QED
  BY <1>1

\* pad() hashes one block or two.
LEMMA PadIs ==
    ASSUME NEW s, NEW m, NEW q, NEW n, Streamed(s, m, q, n),
           NEW r, r = n + 1, NEW k, k = BlockLen - LenLen,
           NEW one, one = Put(s.buf, n, <<Const(128)>>),
           NEW full, full = Put(one, r, Zeros(BlockLen - r)),
           NEW be, be = BigEndian(8 * Len(m), LenLen)
    PROVE  /\ r <= k => pad(s).h = Append(s.h, Put(Put(one, r, Zeros(k - r)), k, be))
           /\ r > k => pad(s).h = Append(Append(s.h, full), Put(Put(full, 0, Zeros(k)), k, be))
<1> DEFINE S == BlockLen
<1>1. S \in Nat \ {0} /\ LenLen \in Nat
  BY HashAssumption
<1>2. /\ s = [len |-> s.len, h |-> s.h, buf |-> s.buf] /\ n \in 0..(S - 1)
      /\ s.len = Len(m) /\ Len(m) = q * S + n /\ IsStr(m) /\ q \in Nat
  BY DEF Streamed
<1>3. n \in Nat /\ n < S /\ Len(m) \in Nat
  BY <1>1, <1>2, StrIs
<1> HIDE DEF S
<1>4. Len(m) % S = n
  BY ONLY <1>1, <1>2, <1>3, QuotientIs
<1>5. pad(s) = PadOf(s, s.len % BlockLen)
  BY DEF pad, PadOf
<1>6. pad(s) = PadOf(s, n)
  BY <1>2, <1>4, <1>5 DEF S
<1>7. r - 1 = n /\ r \in Nat /\ k \in Int /\ k - 0 = k
  BY <1>1, <1>3 DEF S
<1> DEFINE x == Put(Put(one, r, Zeros(k - r)), k, be)
           y == Put(Put(full, 0, Zeros(k)), k, be)
           f == [s EXCEPT !.buf = full]
           g == [s EXCEPT !.buf = one]
           t == Compressed(f, full)
<1>8. /\ f = [len |-> f.len, h |-> f.h, buf |-> f.buf] /\ f.h = s.h /\ f.buf = full
      /\ g = [len |-> g.len, h |-> g.h, buf |-> g.buf] /\ g.h = s.h /\ g.buf = one
  <2> HIDE DEF f, g
  <2>1. f = [s EXCEPT !.buf = full] /\ g = [s EXCEPT !.buf = one]
    BY DEF f, g
  <2> QED
    BY <1>2, <2>1, RecordSet
<1>9. t = [len |-> t.len, h |-> t.h, buf |-> t.buf] /\ t.h = Append(s.h, full) /\ t.buf = full
  <2> HIDE DEF f
  <2>1. t = [len |-> f.len, h |-> Append(f.h, full), buf |-> f.buf]
    BY <1>8, CompressedIs
  <2> QED
    BY <1>8, <2>1
<1> HIDE DEF x, y, f, g, t
<1>10. ASSUME r <= k PROVE pad(s).h = Append(s.h, x)
  <2>1. ~(r > k)
    BY <1>7, <1>10
  <2>2. PadOf(s, n) = Compressed(g, Put(Put(g.buf, r, Zeros(k - r)), k, BigEndian(8 * s.len, LenLen)))
    BY <1>7, <2>1 DEF PadOf, g
  <2>3. PadOf(s, n) = Compressed(g, x)
    BY <1>2, <1>8, <2>2 DEF x
  <2> QED
    BY <1>6, <1>8, <2>3, CompressedBlocks
<1>11. ASSUME r > k PROVE pad(s).h = Append(Append(s.h, full), y)
  <2>1. PadOf(s, n) = Compressed(t, Put(Put(t.buf, 0, Zeros(k - 0)), k, BigEndian(8 * s.len, LenLen)))
    BY <1>7, <1>11 DEF PadOf, f, t
  <2>2. PadOf(s, n) = Compressed(t, y)
    BY <1>2, <1>7, <1>9, <2>1 DEF y
  <2> QED
    BY <1>6, <1>9, <2>2, CompressedBlocks
<1> QED
  BY <1>10, <1>11 DEF x, y

LEMMA BigEndianIs ==
    ASSUME NEW n, NEW w \in Nat
    PROVE  IsStr(BigEndian(n, w)) /\ Len(BigEndian(n, w)) = w
<1> DEFINE f(i) == Const((n \div 256^(w - i)) % 256)
           s == [i \in 1..w |-> f(i)]
<1> HIDE DEF f
<1>1. s = [i \in 1..w |-> s[i]]
  OBVIOUS
<1> HIDE DEF s
<1>2. IsStr(s) /\ Len(s) = w
  BY <1>1, FunctionIsStr
<1> QED
  BY <1>2 DEF s, f, BigEndian

\* The state that has taken m gives its digest.
LEMMA FinalHash ==
    ASSUME NEW s, NEW m, Streams(s, m)
    PROVE  sha256final(s) = Hash(m)
<1> DEFINE S == BlockLen
           L == LenLen
           l == Len(m)
           k == S - L
           o == <<Const(128)>>
           be == BigEndian(8 * l, L)
           fill == CHOOSE j \in 0..(S - 1) : (l + 1 + j + L) % S = 0
           p == m \o o \o Zeros(fill) \o be
           want == AllBlocks(p, S)
<1>1. PICK q, n : Streamed(s, m, q, n)
  BY DEF Streams
<1> DEFINE r == n + 1
           one == Put(s.buf, n, o)
           full == Put(one, r, Zeros(S - r))
<1>2. S \in Nat \ {0} /\ L \in Nat \ {0} /\ L < S
  BY HashAssumption
<1>3. FilledTo(s.h, s.buf, m, S, q, n) /\ n \in Nat /\ n < S /\ q \in Nat /\ IsStr(m)
      /\ l = q * S + n
  BY <1>1, <1>2 DEF Streamed, FilledTo
<1>4. IsStr(o) /\ Len(o) = 1 /\ IsStr(be) /\ Len(be) = L
  BY <1>2, StrOne, BigEndianIs
<1>5. r \in Nat /\ r <= S /\ r = n + 1 /\ k \in Nat /\ k + L = S /\ k <= S /\ l \in Nat
  <2>1. l \in Nat
    BY <1>3, StrIs
  <2> QED
    BY <1>2, <1>3, <2>1
<1>6. /\ r <= k => pad(s).h = Append(s.h, Put(Put(one, r, Zeros(k - r)), k, be))
      /\ r > k => pad(s).h = Append(Append(s.h, full), Put(Put(full, 0, Zeros(k)), k, be))
  <2>1. /\ r = n + 1 /\ k = BlockLen - LenLen /\ one = Put(s.buf, n, <<Const(128)>>)
        /\ full = Put(one, r, Zeros(BlockLen - r)) /\ be = BigEndian(8 * Len(m), LenLen)
    OBVIOUS
  <2> HIDE DEF r, k, one, full, be
  <2> QED
    BY ONLY <1>1, <2>1, PadIs
<1>7. Hash(m) = Digest(want) /\ sha256final(s) = Digest(pad(s).h)
  BY DEF Hash, sha256final, AllBlocks
<1>8. one = Put(s.buf, n, o) /\ full = Put(one, r, Zeros(S - r)) /\ p = m \o o \o Zeros(fill) \o be
      /\ want = AllBlocks(p, S)
      /\ fill = CHOOSE j \in 0..(S - 1) : (l + 1 + j + L) % S = 0
  OBVIOUS
<1> HIDE DEF r, k, one, full, be, o, S, L, l, fill, p, want
<1>9. FilledTo(s.h, one, m \o o, S, q, r)
  <2>1. FilledTo(s.h, Put(s.buf, n, o), m \o o, S, q, r)
    BY ONLY <1>3, <1>4, <1>5, MoreTo
  <2> QED
    BY <1>8, <2>1
<1>10. CASE r <= k
  <2> DEFINE d == k - r
             z == Zeros(d)
             b == Put(one, r, z)
             c == Put(b, k, be)
             t == (q + 1) * S
  <2>1. d \in Nat /\ r + d = k
    BY <1>5, <1>10
  <2>2. fill = d
    <3>1. t = q * S + S /\ t \in Nat /\ q + 1 \in Nat
      BY <1>2, <1>3, Multiples
    <3>2. l + 1 + d + L = t
      <4> DEFINE e == q * S
      <4>1. t = e + S /\ l = e + n /\ e \in Nat
        BY <1>2, <1>3, <3>1, Multiples
      <4> HIDE DEF e, t, d
      <4> QED
        BY <1>2, <1>3, <1>5, <2>1, <4>1
    <3>3. d \in 0..(S - 1)
      BY <1>2, <1>3, <1>5, <2>1
    <3>4. t = (q + 1) * S
      OBVIOUS
    <3> HIDE DEF d, t
    <3>5. (CHOOSE j \in 0..(S - 1) : (l + 1 + j + L) % S = 0) = d
      BY ONLY <1>2, <1>5, <3>1, <3>2, <3>3, <3>4, PadLength
    <3> QED
      BY <1>8, <3>5
  <2>3. IsStr(z) /\ Len(z) = d
    BY <2>1, RepeatIs DEF Zeros
  <2> HIDE DEF d, z
  <2>4. FilledTo(s.h, b, (m \o o) \o z, S, q, k)
    BY ONLY <1>5, <1>9, <2>1, <2>3, MoreTo DEF b
  <2> HIDE DEF b
  <2>5. FilledTo(s.h, c, ((m \o o) \o z) \o be, S, q, S)
    <3>1. S <= S
      BY <1>2
    <3> QED
      BY ONLY <1>4, <1>5, <2>4, <3>1, MoreTo DEF c
  <2> HIDE DEF c
  <2>6. p = ((m \o o) \o z) \o be
    BY <1>8, <2>2 DEF z
  <2>7. FilledTo(Append(s.h, c), c, p, S, q + 1, 0)
    BY <2>5, <2>6, BlockTo
  <2>8. Append(s.h, c) = want
    BY ONLY <1>8, <2>7, BlocksOfAll
  <2>9. pad(s).h = Append(s.h, c)
    BY <1>6, <1>10 DEF c, b, z, d
  <2> QED
    BY <1>7, <2>8, <2>9
<1>11. CASE r > k
  <2> DEFINE d == S - r
             z == Zeros(d)
             y == Zeros(k)
             b == Put(full, 0, y)
             c == Put(b, k, be)
             h == Append(s.h, full)
             t == ((q + 1) + 1) * S
  <2>1. d \in Nat /\ r + d = S
    BY <1>2, <1>5
  <2>2. fill = d + k
    <3>1. t = (q + 1) * S + S /\ (q + 1) * S = q * S + S /\ t \in Nat /\ q + 1 \in Nat
          /\ (q + 1) + 1 \in Nat
      <4>1. q + 1 \in Nat /\ (q + 1) + 1 \in Nat /\ S \in Nat
        BY <1>2, <1>3
      <4> QED
        BY <1>3, <4>1, Multiples
    <3>2. l + 1 + (d + k) + L = t
      <4> DEFINE e == q * S
      <4>1. t = e + S + S /\ l = e + n /\ e \in Nat
        BY <1>2, <1>3, <3>1, Multiples
      <4> HIDE DEF e, t, d
      <4> QED
        BY <1>2, <1>3, <1>5, <2>1, <4>1
    <3>3. d + k \in 0..(S - 1)
      BY <1>2, <1>3, <1>5, <1>11, <2>1
    <3>4. t = ((q + 1) + 1) * S
      OBVIOUS
    <3> DEFINE g == d + k
               v == (q + 1) + 1
    <3>5. t = v * S /\ v \in Nat /\ g \in 0..(S - 1) /\ l + 1 + g + L = t
      BY <3>1, <3>2, <3>3
    <3> HIDE DEF t, g, v
    <3>6. (CHOOSE j \in 0..(S - 1) : (l + 1 + j + L) % S = 0) = g
      BY ONLY <1>2, <1>5, <3>5, PadLength
    <3> QED
      BY <1>8, <3>6 DEF g
  <2>3. IsStr(z) /\ Len(z) = d /\ IsStr(y) /\ Len(y) = k
    BY <1>5, <2>1, RepeatIs DEF Zeros
  <2>4. full = Put(one, r, z)
    BY <1>8
  <2>5. z \o y = Zeros(fill)
    <3> HIDE DEF d
    <3> QED
      BY <1>5, <2>1, <2>2, ZerosAdd
  <2> HIDE DEF d, z, y
  <2>6. FilledTo(s.h, full, (m \o o) \o z, S, q, S)
    <3>1. S <= S /\ S = r + d
      BY <1>2, <2>1
    <3>2. FilledTo(s.h, Put(one, r, z), (m \o o) \o z, S, q, S)
      BY ONLY <1>9, <2>3, <3>1, MoreTo
    <3> QED
      BY <2>4, <3>2
  <2>7. FilledTo(h, full, (m \o o) \o z, S, q + 1, 0)
    BY <2>6, BlockTo
  <2> HIDE DEF h
  <2>8. FilledTo(h, b, ((m \o o) \o z) \o y, S, q + 1, k)
    <3>1. k = 0 + k
      BY <1>5
    <3> QED
      BY ONLY <1>5, <2>3, <2>7, <3>1, MoreTo DEF b
  <2> HIDE DEF b
  <2>9. FilledTo(h, c, (((m \o o) \o z) \o y) \o be, S, q + 1, S)
    <3>1. S <= S
      BY <1>2
    <3> QED
      BY ONLY <1>4, <1>5, <2>8, <3>1, MoreTo DEF c
  <2> HIDE DEF c
  <2>10. p = (((m \o o) \o z) \o y) \o be
    <3>1. IsStr(m \o o)
      BY <1>3, <1>4, StrCat
    <3>2. ((m \o o) \o z) \o y = (m \o o) \o (z \o y)
      BY <2>3, <3>1, StrAssoc
    <3> QED
      BY <1>8, <2>5, <3>2
  <2>11. FilledTo(Append(h, c), c, p, S, (q + 1) + 1, 0)
    BY <2>9, <2>10, BlockTo
  <2>12. Append(h, c) = want
    BY ONLY <1>8, <2>11, BlocksOfAll
  <2>13. pad(s).h = Append(h, c)
    BY <1>6, <1>11 DEF c, b, y, h
  <2> QED
    BY <1>7, <2>12, <2>13
<1> QED
  BY <1>5, <1>10, <1>11

\* h is what the fold of sha256update over s has after each step.
HashRun(h, D, z, s) ==
    /\ h[0] = z
    /\ \A i \in 0..Len(s) : h[i] \in D
    /\ \A i \in 1..Len(s) : h[i] = sha256update(h[i - 1], s[i])

LEMMA HashFolds ==
    ASSUME NEW D, NEW z \in D, NEW s, IsStr(s),
           \A x \in D : \A i \in 1..Len(s) : sha256update(x, s[i]) \in D
    PROVE  \E h : HashRun(h, D, z, s) /\ FoldLeft(sha256update, z, s) = h[Len(s)]
<1> DEFINE n == Len(s)
           G == [i \in 1..n |-> [x \in D |-> sha256update(x, s[i])]]
           It(f) == f = [T \in SUBSET DOMAIN s |->
                           IF T = {} THEN z
                           ELSE LET x == Max(T) IN sha256update(f[T \ {x}], s[x])]
           f == CHOOSE f : It(f)
<1>1. n \in Nat /\ DOMAIN s = 1..n
  BY StrIs
<1>2. G \in [1..n -> [D -> D]]
  OBVIOUS
<1>3. \A i \in 1..n : \A x \in D : G[i][x] = sha256update(x, s[i])
  OBVIOUS
<1> HIDE DEF n, G
<1>4. PICK g : g = [T \in SUBSET (1..n) |-> g[T]] /\ FoldsOver(g, n, D, z, G)
  BY ONLY <1>1, <1>2, z \in D, FoldExists DEF FoldTo
<1>5. \A T \in SUBSET (1..n) : T # {} => Max(T) \in 1..n /\ T \ {Max(T)} \in SUBSET (1..n)
  BY ONLY <1>1, MaxIsGreatest
<1>6. It(g)
  <2>1. ASSUME NEW T \in SUBSET (1..n)
        PROVE  g[T] = IF T = {} THEN z ELSE LET x == Max(T) IN sha256update(g[T \ {x}], s[x])
    <3>1. CASE T = {}
      BY <1>4, <3>1 DEF FoldsOver
    <3>2. CASE T # {}
      <4>1. Max(T) \in 1..n /\ T \ {Max(T)} \in SUBSET (1..n)
        BY <1>5, <3>2
      <4>2. g[T \ {Max(T)}] \in D /\ g[T] = G[Max(T)][g[T \ {Max(T)}]]
        BY <1>4, <3>2, <4>1 DEF FoldsOver
      <4>3. g[T] = sha256update(g[T \ {Max(T)}], s[Max(T)])
        BY ONLY <1>3, <4>1, <4>2
      <4> QED
        BY <3>2, <4>3
    <3> QED
      BY <3>1, <3>2
  <2> QED
    BY <1>1, <1>4, <2>1
<1>7. It(f)
  <2> HIDE DEF It
  <2> QED
    BY <1>6
<1>8. FoldLeft(sha256update, z, s) = f[DOMAIN s]
  BY DEF FoldLeft, MapThenFoldSet
<1> HIDE DEF f
<1>9. Stepping(f, n, D, z, G)
  <2>1. ASSUME NEW T \in SUBSET (1..n)
        PROVE  /\ T = {} => f[T] = z
               /\ T # {} /\ f[T \ {Max(T)}] \in D => f[T] = G[Max(T)][f[T \ {Max(T)}]]
    <3>1. f[T] = IF T = {} THEN z ELSE LET x == Max(T) IN sha256update(f[T \ {x}], s[x])
      BY <1>1, <1>7
    <3> HIDE DEF It
    <3> QED
      BY ONLY <1>3, <1>5, <3>1
  <2> QED
    BY ONLY <2>1 DEF Stepping
<1> HIDE DEF It
<1>10. PICK h : FoldRun(h, n, D, z, G) /\ f[1..n] = h[n]
  BY ONLY <1>1, <1>2, <1>9, z \in D, FoldRuns
<1>11. \A i \in 1..n : h[i] = sha256update(h[i - 1], s[i])
  <2>1. ASSUME NEW i \in 1..n PROVE h[i] = sha256update(h[i - 1], s[i])
    <3>1. i - 1 \in 0..n
      BY <1>1
    <3>2. h[i] = G[i][h[i - 1]] /\ h[i - 1] \in D
      BY ONLY <1>10, <3>1, <2>1 DEF FoldRun
    <3> QED
      BY ONLY <1>3, <3>2, i \in 1..n
  <2> QED
    BY <2>1
<1>12. HashRun(h, D, z, s)
  BY ONLY <1>10, <1>11 DEF FoldRun, HashRun, n
<1> QED
  BY ONLY <1>1, <1>8, <1>10, <1>12 DEF n

LEMMA SubIn ==
    ASSUME NEW E, NEW s \in Seq(E), NEW a \in Nat
    PROVE  /\ SubSeq(s, a + 1, Len(s)) \in Seq(E)
           /\ a <= Len(s) => SubSeq(s, 1, a) \in Seq(E) /\ Len(SubSeq(s, a + 1, Len(s))) = Len(s) - a
<1> DEFINE l == Len(s)
           p == SubSeq(s, a + 1, l)
           f == SubSeq(s, 1, a)
<1>1. IsStr(s) /\ l \in Nat /\ l <= Len(s) /\ \A i \in 1..l : s[i] \in E
  BY LenProperties DEF IsStr
<1>2. /\ IsStr(p) /\ Len(p) = IF a <= l THEN l - a ELSE 0
      /\ \A i \in 1..(l - a) : p[i] = s[a + i]
  <2> HIDE DEF l
  <2> QED
    BY ONLY <1>1, a \in Nat, StrPart
<1> HIDE DEF p, f, l
<1>3. \A i \in 1..Len(p) : p[i] \in E
  <2> TAKE i \in 1..Len(p)
  <2>1. i \in 1..(l - a) /\ a + i \in 1..l
    BY <1>1, <1>2
  <2> QED
    BY <1>1, <1>2, <2>1
<1>4. p \in Seq(E)
  BY <1>2, <1>3, StrSub
<1>5. ASSUME a <= l PROVE f \in Seq(E)
  <2>1. IsStr(f) /\ Len(f) = a /\ \A i \in 1..a : f[i] = s[i]
    BY <1>1, <1>5, StrFirst DEF f, l
  <2>2. \A i \in 1..Len(f) : f[i] \in E
    BY <1>1, <1>5, <2>1
  <2> QED
    BY <2>1, <2>2, StrSub
<1> QED
  BY <1>2, <1>4, <1>5 DEF p, f, l

LEMMA PutIn ==
    ASSUME NEW E, NEW b \in Seq(E), NEW t \in Seq(E), NEW n \in Nat, n + Len(t) <= Len(b)
    PROVE  Put(b, n, t) \in Seq(E)
<1> DEFINE e == n + Len(t)
           x == SubSeq(b, 1, n)
           y == SubSeq(b, e + 1, Len(b))
<1>1. Len(t) \in Nat /\ Len(b) \in Nat
  BY LenProperties
<1>2. e \in Nat /\ n <= Len(b)
  BY <1>1
<1> HIDE DEF e
<1>3. x \in Seq(E) /\ y \in Seq(E)
  BY <1>2, SubIn
<1> HIDE DEF x, y
<1>4. Put(b, n, t) = x \o t \o y
  BY DEF Put, x, y, e
<1> QED
  BY <1>3, <1>4

LEMMA TakenIn ==
    ASSUME NEW E, NEW s, NEW m, NEW q, Streamed(s, m, q, 0), s.buf \in Seq(E), NEW x \in Seq(E)
    PROVE  Taken(s, x).buf \in Seq(E)
<1> DEFINE S == BlockLen
           l == Len(x)
           e == (l \div S) * S
           t == SubSeq(x, e + 1, Len(x))
<1>1. S \in Nat \ {0} /\ l \in Nat /\ Len(s.buf) = S
  BY HashAssumption, LenProperties DEF Streamed, Filled
<1>2. e \in Nat /\ e <= l /\ l < e + S
  <2> HIDE DEF S, l
  <2>1. (l \div S) \in Nat /\ (l \div S) * S <= l /\ l < (l \div S) * S + S
    BY <1>1, Quotient
  <2> DEFINE w == l \div S
  <2>2. w * S \in Nat
    <3>1. w \in Nat
      BY <2>1
    <3> HIDE DEF w
    <3> QED
      BY <1>1, <3>1, Multiples
  <2> QED
    BY <2>1, <2>2
<1>3. Taken(s, x).buf = Put(s.buf, 0, t)
  BY DEF Taken
<1> HIDE DEF e, S
<1>4. t \in Seq(E) /\ Len(t) = l - e
  BY <1>2, SubIn
<1> HIDE DEF t, l
<1>5. 0 + Len(t) <= Len(s.buf) /\ 0 \in Nat
  BY <1>1, <1>2, <1>4
<1>6. Put(s.buf, 0, t) \in Seq(E)
  BY ONLY <1>4, <1>5, s.buf \in Seq(E), PutIn
<1> QED
  BY <1>3, <1>6

\* The buffer holds bytes of the messages and of what it was.
LEMMA UpdateIn ==
    ASSUME NEW E, NEW s, NEW m, Streams(s, m), s.buf \in Seq(E), NEW x \in Seq(E)
    PROVE  sha256update(s, x).buf \in Seq(E)
<1> DEFINE u == sha256update(s, x)
<1>1. PICK q, r : Streamed(s, m, q, r)
  BY DEF Streams
<1> DEFINE n == BlockLen - r
           y == SubSeq(x, 1, n)
           t == SubSeq(x, n + 1, Len(x))
           f == Full(s, x, r)
<1>0. IsStr(x)
  BY DEF IsStr
<1>2. /\ r = 0 => u = Taken(s, x)
      /\ r # 0 /\ Len(x) < n =>
           u = [len |-> s.len + Len(x), h |-> s.h, buf |-> Put(s.buf, r, x)]
      /\ r # 0 /\ n <= Len(x) => u = Taken(f, t)
  BY <1>0, <1>1, UpdateIs
<1>3. /\ BlockLen \in Nat \ {0} /\ Len(x) \in Nat /\ r \in 0..(BlockLen - 1) /\ r \in Nat
      /\ Len(s.buf) = BlockLen
  <2>1. BlockLen \in Nat \ {0}
    BY HashAssumption
  <2> QED
    BY <1>0, <1>1, <2>1, StrIs DEF Streamed, Filled
<1>4. n \in Nat /\ r + n = BlockLen
  BY <1>3
<1> HIDE DEF u
<1>5. CASE r = 0
  <2>1. Streamed(s, m, q, 0)
    BY <1>1, <1>5
  <2> QED
    BY <1>2, <1>5, <2>1, TakenIn DEF u
<1>6. CASE r # 0 /\ Len(x) < n
  <2>1. u.buf = Put(s.buf, r, x)
    BY <1>2, <1>6
  <2>2. r + Len(x) <= Len(s.buf)
    BY <1>3, <1>6
  <2>3. Put(s.buf, r, x) \in Seq(E)
    BY <1>3, <2>2, PutIn
  <2> QED
    BY <2>1, <2>3 DEF u
<1>7. CASE r # 0 /\ n <= Len(x)
  <2>1. PICK p : Streamed(f, m \o y, p, 0)
    BY ONLY <1>0, <1>1, <1>7, FullStreamed
  <2>2. f.buf = Put(s.buf, r, y)
    BY DEF Full
  <2> HIDE DEF n, f
  <2>3. y \in Seq(E) /\ t \in Seq(E)
    BY <1>4, <1>7, SubIn
  <2>4. Len(y) = n
    BY <1>0, <1>4, <1>7, StrFirst
  <2> HIDE DEF y, t
  <2>5. r + Len(y) <= Len(s.buf)
    BY <1>3, <1>4, <2>4
  <2>6. f.buf \in Seq(E)
    BY <1>3, <2>2, <2>3, <2>5, PutIn
  <2>7. Taken(f, t).buf \in Seq(E)
    BY ONLY <2>1, <2>3, <2>6, TakenIn
  <2> QED
    BY <1>2, <1>7, <2>7 DEF u
<1> QED
  BY <1>3, <1>4, <1>5, <1>6, <1>7

\* The states a hash goes through when its bytes are those of E.
HashStates(E) == {s \in [len : Nat, h : Seq(Seq(E)), buf : Seq(E)] :
                    \E m \in Seq(E) : Streams(s, m)}

LEMMA StreamsIn ==
    ASSUME NEW E, NEW s, NEW m \in Seq(E), Streams(s, m), s.buf \in Seq(E)
    PROVE  s \in HashStates(E)
<1>1. PICK q, r : Streamed(s, m, q, r)
  BY DEF Streams
<1> DEFINE S == BlockLen
           h == s.h
<1>2. /\ S \in Nat \ {0} /\ q \in Nat /\ r \in Nat /\ s.len = Len(m) /\ Len(m) = q * S + r
      /\ Len(m) \in Nat /\ IsStr(m) /\ \A i \in 1..Len(m) : m[i] \in E
      /\ s = [len |-> s.len, h |-> s.h, buf |-> s.buf]
  <2>1. S \in Nat \ {0}
    BY HashAssumption
  <2> QED
    BY <1>1, <2>1, LenProperties DEF Streamed
<1>3. IsStr(h) /\ Len(h) = q /\ \A i \in 1..q : h[i] = BlockOf(m, S, i)
  BY <1>1 DEF Streamed, Filled
<1> HIDE DEF h, S
<1>4. ASSUME NEW i \in 1..q PROVE h[i] \in Seq(E)
  <2> DEFINE a == q * S
             e == i * S
             o == (i - 1) * S
             b == BlockOf(m, S, i)
  <2>1. e <= a /\ a \in Nat /\ e \in Nat
    BY <1>2, BlocksFit
  <2>2. Len(m) = a + r
    BY <1>2
  <2> HIDE DEF a, e
  <2>3. e <= Len(m)
    BY ONLY <1>2, <2>1, <2>2
  <2>4. i \in Nat \ {0}
    BY <1>2
  <2>5. PartOf(b, m, o, S)
    BY <1>2, <2>3, <2>4, BlockIs DEF e
  <2>6. o \in Nat /\ o + S = e
    <3>1. i - 1 \in Nat /\ (i - 1) + 1 = i /\ S \in Nat
      BY <1>2
    <3>2. (i - 1) * S \in Nat /\ ((i - 1) + 1) * S = (i - 1) * S + S
      BY ONLY <3>1, Multiples
    <3> QED
      BY <3>1, <3>2 DEF e
  <2> HIDE DEF o, b
  <2>7. \A k \in 1..Len(b) : b[k] \in E
    <3> TAKE k \in 1..Len(b)
    <3>1. k \in 1..S /\ b[k] = m[o + k]
      BY <2>5 DEF PartOf
    <3>2. o + k \in 1..Len(m)
      BY <1>2, <2>1, <2>3, <2>6, <3>1
    <3> QED
      BY <1>2, <3>1, <3>2
  <2>8. b \in Seq(E)
    BY <2>5, <2>7, StrSub DEF PartOf
  <2> QED
    BY <1>3, <2>8 DEF b
<1>5. h \in Seq(Seq(E))
  BY <1>3, <1>4, StrSub
<1> QED
  BY <1>2, <1>5 DEF HashStates, h

\* c is what has been hashed after each piece of ms.
LEMMA ShaIs ==
    ASSUME NEW ms, IsStr(ms), \A i \in 1..Len(ms) : IsStr(ms[i]), NEW c, c[0] = <<>>,
           \A i \in 1..Len(ms) : c[i] = c[i - 1] \o ms[i]
    PROVE  sha256(ms) = Hash(c[Len(ms)])
<1> DEFINE n == Len(ms)
           b == Named("stack", BlockLen)
           E == {b[i] : i \in 1..BlockLen} \cup UNION {{ms[i][j] : j \in 1..Len(ms[i])} : i \in 1..n}
           D == HashStates(E)
<1>1. n \in Nat /\ BlockLen \in Nat
  BY StrIs, HashAssumption
<1>2. b \in Seq(E)
  <2>1. IsStr(b) /\ Len(b) = BlockLen
    BY <1>1, NamedIs
  <2> HIDE DEF b
  <2>2. \A i \in 1..Len(b) : b[i] \in E
    BY <2>1
  <2> HIDE DEF E
  <2> QED
    BY <2>1, <2>2, StrSub
<1>3. ASSUME NEW i \in 1..n PROVE ms[i] \in Seq(E)
  <2>1. IsStr(ms[i])
    OBVIOUS
  <2>2. \A j \in 1..Len(ms[i]) : ms[i][j] \in E
    OBVIOUS
  <2> HIDE DEF E
  <2> QED
    BY <2>1, <2>2, StrSub
<1> HIDE DEF E, D, b, n
<1>4. sha256init.buf = b
  BY DEF sha256init, b
<1>5. sha256init \in D
  <2>1. <<>> \in Seq(E)
    OBVIOUS
  <2>2. sha256init.buf \in Seq(E)
    BY <1>2, <1>4
  <2> QED
    BY <2>1, <2>2, InitStreams, StreamsIn DEF D
<1>6. \A x \in D : \A i \in 1..Len(ms) : sha256update(x, ms[i]) \in D
  <2>1. ASSUME NEW x \in D, NEW i \in 1..n PROVE sha256update(x, ms[i]) \in D
    <3> DEFINE p == ms[i]
               u == sha256update(x, p)
    <3>1. PICK m \in Seq(E) : Streams(x, m)
      BY DEF D, HashStates
    <3>2. x.buf \in Seq(E)
      BY DEF D, HashStates
    <3>3. p \in Seq(E)
      BY <1>3
    <3> HIDE DEF p
    <3>4. IsStr(p)
      BY <3>3, StrIn
    <3>5. Streams(u, m \o p)
      BY ONLY <3>1, <3>4, UpdateStreams
    <3>6. u.buf \in Seq(E)
      BY ONLY <3>1, <3>2, <3>3, UpdateIn
    <3>7. m \o p \in Seq(E)
      BY <3>3
    <3> HIDE DEF u
    <3>8. u \in HashStates(E)
      BY ONLY <3>5, <3>6, <3>7, StreamsIn
    <3> QED
      BY <3>8 DEF D, u, p
  <2> QED
    BY <2>1 DEF n
<1>7. PICK h : HashRun(h, D, sha256init, ms) /\ FoldLeft(sha256update, sha256init, ms) = h[Len(ms)]
  BY ONLY <1>5, <1>6, IsStr(ms), HashFolds
<1> DEFINE P == {i \in Nat : i <= n => Streams(h[i], c[i])}
<1>8. 0 \in P
  <2>1. h[0] = sha256init
    BY <1>7 DEF HashRun
  <2> QED
    BY <2>1, InitStreams
<1>9. ASSUME NEW i \in Nat, i \in P PROVE i + 1 \in P
  <2> SUFFICES ASSUME i + 1 <= n PROVE Streams(h[i + 1], c[i + 1])
    OBVIOUS
  <2> DEFINE j == i + 1
  <2>1. j \in 1..Len(ms) /\ j - 1 = i /\ i <= n
    BY <1>1 DEF n
  <2>2. Streams(h[i], c[i])
    BY <1>9, <2>1
  <2> HIDE DEF j
  <2>3. h[j] = sha256update(h[j - 1], ms[j])
    BY <1>7, <2>1 DEF HashRun
  <2>4. c[j] = c[j - 1] \o ms[j] /\ IsStr(ms[j])
    BY <2>1
  <2>5. Streams(sha256update(h[i], ms[j]), c[i] \o ms[j])
    BY ONLY <2>2, <2>4, UpdateStreams
  <2>6. Streams(h[j], c[j])
    BY <2>1, <2>3, <2>4, <2>5
  <2> QED
    BY <2>6 DEF j
<1> HIDE DEF P
<1>10. Nat \subseteq P
  BY <1>8, <1>9, NatInduct
<1>11. Streams(h[n], c[n])
  BY <1>1, <1>10 DEF P
<1>12. sha256final(h[n]) = Hash(c[n])
  BY ONLY <1>11, FinalHash
<1>13. sha256(ms) = sha256final(FoldLeft(sha256update, sha256init, ms))
  BY DEF sha256, Updated
<1> QED
  BY <1>7, <1>12, <1>13 DEF n

LEMMA ShaOne ==
    ASSUME NEW x, IsStr(x)
    PROVE  sha256(<<x>>) = Hash(x)
<1> DEFINE ms == <<x>>
           c == [i \in 0..1 |-> IF i = 0 THEN <<>> ELSE x]
<1>1. IsStr(ms) /\ Len(ms) = 1 /\ ms[1] = x
  BY StrOne
<1>2. c[0] = <<>> /\ c[1] = x /\ <<>> \o x = x
  BY StrNothing
<1> HIDE DEF ms, c
<1>3. \A i \in 1..Len(ms) : IsStr(ms[i]) /\ c[i] = c[i - 1] \o ms[i]
  <2> TAKE i \in 1..Len(ms)
  <2>1. i = 1 /\ i - 1 = 0
    BY <1>1
  <2> QED
    BY <1>1, <1>2, <2>1
<1>4. sha256(ms) = Hash(c[Len(ms)])
  BY ONLY <1>1, <1>2, <1>3, ShaIs
<1> QED
  BY <1>1, <1>2, <1>4 DEF ms

LEMMA ShaTwo ==
    ASSUME NEW x, IsStr(x), NEW y, IsStr(y)
    PROVE  sha256(<<x, y>>) = Hash(x \o y)
<1> DEFINE ms == <<x, y>>
           z == x \o y
           c == [i \in 0..2 |-> IF i = 0 THEN <<>> ELSE IF i = 1 THEN x ELSE z]
<1>1. IsStr(ms) /\ Len(ms) = 2 /\ ms[1] = x /\ ms[2] = y
  BY StrTwo
<1>2. c[0] = <<>> /\ c[1] = x /\ c[2] = z /\ <<>> \o x = x /\ z = x \o y
  BY StrNothing
<1> HIDE DEF ms, c, z
<1>3. \A i \in 1..Len(ms) : IsStr(ms[i]) /\ c[i] = c[i - 1] \o ms[i]
  <2> TAKE i \in 1..Len(ms)
  <2>1. (i = 1 /\ i - 1 = 0) \/ (i = 2 /\ i - 1 = 1)
    BY <1>1
  <2> QED
    BY <1>1, <1>2, <2>1
<1>4. sha256(ms) = Hash(c[Len(ms)])
  BY ONLY <1>1, <1>2, <1>3, ShaIs
<1> QED
  BY <1>1, <1>2, <1>4 DEF ms

LEMMA ShaThree ==
    ASSUME NEW ms, IsStr(ms), Len(ms) = 3, \A i \in 1..3 : IsStr(ms[i])
    PROVE  sha256(ms) = Hash((ms[1] \o ms[2]) \o ms[3])
<1> DEFINE y == ms[1] \o ms[2]
           z == y \o ms[3]
           c == [i \in 0..3 |-> IF i = 0 THEN <<>> ELSE IF i = 1 THEN ms[1]
                                ELSE IF i = 2 THEN y ELSE z]
<1>1. c[0] = <<>> /\ c[1] = ms[1] /\ c[2] = y /\ c[3] = z /\ <<>> \o ms[1] = ms[1]
      /\ z = y \o ms[3] /\ y = ms[1] \o ms[2]
  BY StrNothing
<1> HIDE DEF c, y, z
<1>2. \A i \in 1..Len(ms) : IsStr(ms[i]) /\ c[i] = c[i - 1] \o ms[i]
  <2> TAKE i \in 1..Len(ms)
  <2>1. (i = 1 /\ i - 1 = 0) \/ (i = 2 /\ i - 1 = 1) \/ (i = 3 /\ i - 1 = 2)
    OBVIOUS
  <2> QED
    BY <1>1, <2>1
<1>3. sha256(ms) = Hash(c[Len(ms)])
  BY ONLY <1>1, <1>2, IsStr(ms), ShaIs
<1> QED
  BY <1>1, <1>3

-----------------------------------------------------------------------------
(* HMAC and HKDF.                                                          *)

LEMMA DigestIs ==
    ASSUME NEW m
    PROVE  /\ IsStr(Hash(m)) /\ Len(Hash(m)) = DigestLen
           /\ DigestLen \in Nat /\ DigestLen <= BlockLen /\ BlockLen \in Nat
<1>1. DigestLen \in Nat /\ DigestLen <= BlockLen /\ BlockLen \in Nat
  BY HashAssumption
<1>2. ASSUME NEW h PROVE IsStr(Digest(h)) /\ Len(Digest(h)) = DigestLen
  <2> DEFINE s == [i \in 1..DigestLen |-> {<<"digest", h, i>>}]
  <2>1. s = [i \in 1..DigestLen |-> s[i]]
    OBVIOUS
  <2> HIDE DEF s
  <2>2. IsStr(s) /\ Len(s) = DigestLen
    BY <1>1, <2>1, FunctionIsStr
  <2> QED
    BY <2>2 DEF s, Digest
<1>3. \E h : Hash(m) = Digest(h)
  BY DEF Hash
<1> QED
  BY <1>1, <1>2, <1>3

\* A key put under a byte, as the code and as the RFC do it.
UnderOf(k, c) ==
    LET k0 == k \o Zeros(BlockLen - Len(k))
    IN [i \in 1..BlockLen |-> XorByte(k0[i], Const(c))]

LEMMA KeyPadIs ==
    ASSUME NEW k, IsStr(k), Len(k) <= BlockLen, NEW c
    PROVE  KeyPad(c, k) = UnderOf(k, c) /\ IsStr(KeyPad(c, k))
<1> DEFINE S == BlockLen
           l == Len(k)
           z == Zeros(S - l)
           k0 == k \o z
           C == Const(c)
           p == [i \in 1..S |-> IF i <= l THEN XorByte(C, k[i]) ELSE C]
           u == [i \in 1..S |-> XorByte(k0[i], C)]
<1>1. S \in Nat /\ l \in Nat /\ S - l \in Nat
  BY HashAssumption, StrIs
<1>2. IsStr(z) /\ Len(z) = S - l /\ \A i \in 1..(S - l) : z[i] = {}
  BY <1>1, RepeatIs DEF Zeros
<1> HIDE DEF z
<1>3. CatOf(k0, k, z, l, S - l)
  <2>1. CatOf(k \o z, k, z, Len(k), Len(z))
    BY ONLY <1>2, IsStr(k), CatIs
  <2> QED
    BY <1>2, <2>1
<1> HIDE DEF k0, C
<1>4. \A i \in 1..S : (IF i <= l THEN XorByte(C, k[i]) ELSE C) = XorByte(k0[i], C)
  <2> TAKE i \in 1..S
  <2>1. CASE i <= l
    <3>1. i \in 1..l
      BY <2>1
    <3>2. k0[i] = k[i]
      BY <1>3, <3>1 DEF CatOf
    <3>3. XorByte(C, k[i]) = XorByte(k[i], C)
      BY DEF XorByte
    <3> QED
      BY <2>1, <3>2, <3>3
  <2>2. CASE ~(i <= l)
    <3> DEFINE j == i - l
    <3>1. j \in 1..(S - l) /\ l + j = i
      BY <1>1, <2>2
    <3> HIDE DEF j
    <3>2. k0[l + j] = z[j] /\ z[j] = {}
      BY <1>2, <1>3, <3>1 DEF CatOf
    <3>3. XorByte({}, C) = C
      BY DEF XorByte
    <3> QED
      BY <2>2, <3>1, <3>2, <3>3
  <2> QED
    BY <2>1, <2>2
<1>5. p = u
  BY <1>4
<1>6. p = [i \in 1..S |-> p[i]]
  OBVIOUS
<1> HIDE DEF p, u, S
<1>7. IsStr(p)
  BY <1>1, <1>6, FunctionIsStr
<1>8. KeyPad(c, k) = p
  BY DEF KeyPad, p, l, S, C
<1>9. UnderOf(k, c) = u
  BY DEF UnderOf, u, k0, z, l, S, C
<1> QED
  BY <1>5, <1>7, <1>8, <1>9

\* The key an HMAC uses.
HmacKey(key) == IF Len(key) > BlockLen THEN Hash(key) ELSE key

LEMMA HmacKeyIs ==
    ASSUME NEW key, IsStr(key)
    PROVE  /\ IsStr(HmacKey(key)) /\ Len(HmacKey(key)) <= BlockLen
           /\ HmacKey(key) = IF Len(key) > BlockLen THEN sha256(<<key>>) ELSE key
<1>1. IsStr(Hash(key)) /\ Len(Hash(key)) <= BlockLen
  BY DigestIs
<1>2. sha256(<<key>>) = Hash(key)
  BY ShaOne
<1>3. BlockLen \in Nat /\ Len(key) \in Nat
  BY HashAssumption, StrIs
<1>4. CASE Len(key) > BlockLen
  BY <1>1, <1>2, <1>4 DEF HmacKey
<1>5. CASE ~(Len(key) > BlockLen)
  <2>1. Len(key) <= BlockLen
    BY <1>3, <1>5
  <2> QED
    BY <1>5, <2>1 DEF HmacKey
<1> QED
  BY <1>4, <1>5

LEMMA HmacOf ==
    ASSUME NEW key, IsStr(key), NEW m
    PROVE  Hmac(key, m) = Hash(KeyPad(92, HmacKey(key)) \o Hash(KeyPad(54, HmacKey(key)) \o m))
<1>1. \A c : UnderOf(HmacKey(key), c) = KeyPad(c, HmacKey(key))
  BY HmacKeyIs, KeyPadIs
<1>2. Hmac(key, m) = Hash(UnderOf(HmacKey(key), 92) \o Hash(UnderOf(HmacKey(key), 54) \o m))
  BY DEF Hmac, HmacKey, UnderOf
<1> QED
  BY <1>1, <1>2

\* The state that has taken one string.
LEMMA FirstStreams ==
    ASSUME NEW x, IsStr(x)
    PROVE  Streams(sha256update(sha256init, x), x)
<1>1. Streams(sha256update(sha256init, x), <<>> \o x)
  BY InitStreams, UpdateStreams
<1> QED
  BY <1>1, StrNothing

LEMMA HmacExact ==
    ASSUME NEW key, IsStr(key), NEW m, IsStr(m)
    PROVE  hmacsha256(key, m) = Hmac(key, m)
<1> DEFINE k == HmacKey(key)
           a == KeyPad(54, k)
           b == KeyPad(92, k)
           i == sha256update(sha256init, a)
           o == sha256update(sha256init, b)
           d == Hash(a \o m)
<1>1. IsStr(a) /\ IsStr(b)
  <2>1. IsStr(k) /\ Len(k) <= BlockLen
    BY HmacKeyIs
  <2> HIDE DEF k
  <2> QED
    BY <2>1, KeyPadIs
<1>2. hmacsha256init(key) = [inner |-> i, outer |-> o]
  <2>1. k = IF Len(key) > BlockLen THEN sha256(<<key>>) ELSE key
    BY HmacKeyIs
  <2> HIDE DEF k
  <2> QED
    BY <2>1 DEF hmacsha256init
<1> HIDE DEF a, b
<1>3. Streams(i, a) /\ Streams(o, b)
  BY <1>1, FirstStreams
<1> HIDE DEF i, o
<1>4. sha256final(sha256update(i, m)) = d
  <2>1. Streams(sha256update(i, m), a \o m)
    BY <1>3, UpdateStreams
  <2> QED
    BY <2>1, FinalHash
<1>5. IsStr(d)
  BY DigestIs
<1> HIDE DEF d
<1>6. sha256final(sha256update(o, d)) = Hash(b \o d)
  <2>1. Streams(sha256update(o, d), b \o d)
    BY <1>3, <1>5, UpdateStreams
  <2> QED
    BY <2>1, FinalHash
<1>7. hmacsha256(key, m) = sha256final(sha256update(o, sha256final(sha256update(i, m))))
  BY <1>2 DEF hmacsha256, hmacsha256update, hmacsha256final
<1>8. Hmac(key, m) = Hash(b \o d)
  BY HmacOf DEF b, d, a, k
<1> QED
  BY <1>4, <1>6, <1>7, <1>8

LEMMA StrThree ==
    ASSUME NEW x, NEW y, NEW z
    PROVE  /\ IsStr(<<x, y, z>>) /\ Len(<<x, y, z>>) = 3
           /\ <<x, y, z>>[1] = x /\ <<x, y, z>>[2] = y /\ <<x, y, z>>[3] = z
<1>1. <<x, y, z>> \in Seq({x, y, z})
  OBVIOUS
<1> QED
  BY <1>1 DEF IsStr

LEMMA HkdfExact ==
    ASSUME NEW ikm, IsStr(ikm), NEW salt, IsStr(salt), NEW info, IsStr(info)
    PROVE  hkdfsha256(ikm, salt, info) = Hkdf(ikm, salt, info)
<1> DEFINE prk == Hmac(salt, ikm)
           a == KeyPad(54, prk)
           b == KeyPad(92, prk)
           o == <<Const(1)>>
           ms == <<a, info, o>>
           n == info \o o
<1>1. IsStr(prk) /\ Len(prk) <= BlockLen
  BY HmacOf, DigestIs
<1>2. HmacKey(prk) = prk
  <2>1. Len(prk) \in Nat /\ BlockLen \in Nat
    BY <1>1, StrIs, HashAssumption
  <2> HIDE DEF prk
  <2> QED
    BY <1>1, <2>1 DEF HmacKey
<1> HIDE DEF prk
<1>3. IsStr(a) /\ IsStr(b) /\ IsStr(o)
  BY <1>1, KeyPadIs, StrOne
<1>4. IsStr(ms) /\ Len(ms) = 3 /\ ms[1] = a /\ ms[2] = info /\ ms[3] = o
  <2> HIDE DEF a, o
  <2> QED
    BY StrThree
<1>5. Append(info, Const(1)) = n
  BY StrAppend
<1>6. Hmac(prk, n) = Hash(b \o Hash(a \o n))
  <2> HIDE DEF n
  <2> QED
    BY <1>1, <1>2, HmacOf
<1>7. hkdfsha256(ikm, salt, info) = sha256(<<b, sha256(ms)>>)
  BY HmacExact DEF hkdfsha256, prk
<1>8. Hkdf(ikm, salt, info) = Hmac(prk, n)
  BY <1>5 DEF Hkdf, prk
<1> HIDE DEF a, b, o, ms, n
<1>9. sha256(ms) = Hash(a \o n)
  <2>1. \A i \in 1..3 : IsStr(ms[i])
    <3> TAKE i \in 1..3
    <3>1. i = 1 \/ i = 2 \/ i = 3
      OBVIOUS
    <3> QED
      BY <1>3, <1>4, <3>1
  <2>2. sha256(ms) = Hash((ms[1] \o ms[2]) \o ms[3])
    BY ONLY <1>4, <2>1, ShaThree
  <2>3. (a \o info) \o o = a \o (info \o o)
    BY <1>3, StrAssoc
  <2> QED
    BY <1>4, <2>2, <2>3 DEF n
<1>10. sha256(<<b, sha256(ms)>>) = Hash(b \o sha256(ms))
  BY <1>3, <1>9, DigestIs, ShaTwo
<1> QED
  BY <1>6, <1>7, <1>8, <1>9, <1>10

LEMMA HashJob ==
    ASSUME JobOK
    PROVE  /\ job.do = "sha256" => job.sizes \in Nat \X Nat \X Nat
           /\ job.do = "hmac" => job.key \in Nat /\ job.text \in Nat
           /\ job.do = "hkdf" => job.ikm \in Nat /\ job.salt \in Nat /\ job.info \in Nat
<1>1. PieceSizes \subseteq Nat /\ LongSizes \subseteq Nat /\ MacSizes \subseteq Nat
  BY PrimitivesAssumption
<1>2. ASSUME job.do = "sha256" PROVE job.sizes \in Nat \X Nat \X Nat
  <2>1. job \in HashJobs
    BY <1>2 DEF JobOK, BufferJobs, KdfJobs, SealJobs, RoundJobs, FieldJobs, CurveJobs
  <2>2. \/ job.sizes \in PieceSizes \X PieceSizes \X PieceSizes
        \/ job.sizes \in LongSizes \X {0} \X {0}
    BY <1>2, <2>1 DEF HashJobs
  <2>3. 0 \in Nat
    OBVIOUS
  <2> QED
    BY <1>1, <2>2, <2>3
<1>3. ASSUME job.do = "hmac" PROVE job.key \in Nat /\ job.text \in Nat
  <2>1. job \in HashJobs
    BY <1>3 DEF JobOK, BufferJobs, KdfJobs, SealJobs, RoundJobs, FieldJobs, CurveJobs
  <2>2. job.key \in MacSizes \cup LongSizes /\ job.text \in MacSizes
    BY <1>3, <2>1 DEF HashJobs
  <2> QED
    BY <1>1, <2>2
<1>4. ASSUME job.do = "hkdf" PROVE job.ikm \in Nat /\ job.salt \in Nat /\ job.info \in Nat
  <2>1. job \in HashJobs
    BY <1>4 DEF JobOK, BufferJobs, KdfJobs, SealJobs, RoundJobs, FieldJobs, CurveJobs
  <2>2. job.ikm \in MacSizes /\ job.salt \in MacSizes /\ job.info \in MacSizes
    BY <1>4, <2>1 DEF HashJobs
  <2> QED
    BY <1>1, <2>2
<1> QED
  BY <1>2, <1>3, <1>4

(***************************************************************************)
(* sha256.c, hmac.c, hkdf.c: for a block, a length field and a digest of   *)
(* any size, a message given in pieces of any sizes has the digest of its  *)
(* padded whole, for any bytes left in the buffer, and HMAC and HKDF are   *)
(* those of the RFCs for keys and messages of any length.                  *)
(***************************************************************************)
THEOREM HashIsExact == Spec => []HashExact
<1>1. Init => HashExact
  BY DEF Init, HashExact, Finished
<1>2. JobOK /\ HashExact /\ [Next]_vars => HashExact'
  <2> SUFFICES ASSUME JobOK, HashExact, [Next]_vars PROVE HashExact'
    OBVIOUS
  <2>1. CASE Sha /\ UNCHANGED job
    <3> DEFINE x == sha256(Pieces)
               want == Hash(Piece(1) \o Piece(2) \o Piece(3))
    <3>1. job.do = "sha256" /\ job' = job /\ result' = <<x>>
      BY <2>1 DEF Sha
    <3>2. x = want
      <4>1. job.sizes \in Nat \X Nat \X Nat
        BY <3>1, HashJob
      <4>2. /\ IsStr(Pieces) /\ Len(Pieces) = 3
            /\ \A i \in 1..3 : Pieces[i] = Piece(i) /\ IsStr(Piece(i))
        BY <4>1, PiecesAre
      <4>3. \A i \in 1..3 : IsStr(Pieces[i])
        BY <4>2
      <4>4. x = Hash((Pieces[1] \o Pieces[2]) \o Pieces[3])
        BY ONLY <4>2, <4>3, ShaThree
      <4>5. 1 \in 1..3 /\ 2 \in 1..3 /\ 3 \in 1..3
        OBVIOUS
      <4> QED
        BY <4>2, <4>4, <4>5
    <3>3. want' = want
      BY <3>1 DEF Piece
    <3> HIDE DEF x, want
    <3>4. (result[1] = want)'
      BY <3>1, <3>2, <3>3
    <3> QED
      BY <3>1, <3>4 DEF HashExact, Finished, want
  <2>2. CASE Mac /\ UNCHANGED job
    <3> DEFINE x == hmacsha256(Named("key", job.key), Clear)
               want == Hmac(Named("key", job.key), Clear)
    <3>1. job.do = "hmac" /\ job' = job /\ result' = <<x>>
      BY <2>2 DEF Mac
    <3>2. x = want
      <4>1. job.key \in Nat /\ job.text \in Nat
        BY <3>1, HashJob
      <4>2. IsStr(Named("key", job.key)) /\ IsStr(Clear)
        BY <4>1, NamedIs DEF Clear
      <4> QED
        BY <4>2, HmacExact
    <3>3. want' = want
      BY <3>1 DEF Clear
    <3> HIDE DEF x, want
    <3>4. (result[1] = want)'
      BY <3>1, <3>2, <3>3
    <3> QED
      BY <3>1, <3>4 DEF HashExact, Finished, want
  <2>3. CASE HkdfStep /\ UNCHANGED job
    <3> DEFINE x == hkdfsha256(Named("ikm", job.ikm), Named("salt", job.salt), Named("info", job.info))
               want == Hkdf(Named("ikm", job.ikm), Named("salt", job.salt), Named("info", job.info))
    <3>1. job.do = "hkdf" /\ job' = job /\ result' = <<x>>
      BY <2>3 DEF HkdfStep
    <3>2. x = want
      <4>1. job.ikm \in Nat /\ job.salt \in Nat /\ job.info \in Nat
        BY <3>1, HashJob
      <4>2. IsStr(Named("ikm", job.ikm)) /\ IsStr(Named("salt", job.salt)) /\ IsStr(Named("info", job.info))
        BY <4>1, NamedIs
      <4> QED
        BY <4>2, HkdfExact
    <3>3. want' = want
      BY <3>1
    <3> HIDE DEF x, want
    <3>4. (result[1] = want)'
      BY <3>1, <3>2, <3>3
    <3> QED
      BY <3>1, <3>4 DEF HashExact, Finished, want
  <2>4. CASE UNCHANGED vars
    BY <2>4 DEF HashExact, Finished, vars, Piece, Clear
  <2>5. CASE /\ ~(Sha /\ UNCHANGED job) /\ ~(Mac /\ UNCHANGED job)
             /\ ~(HkdfStep /\ UNCHANGED job) /\ ~UNCHANGED vars
    <3>1. job' = job /\ job.do \notin {"sha256", "hmac", "hkdf"}
      BY <2>5 DEF Next, Work, Done, Message, Sink, Pbkdf2Step, ScryptStep, Seal, KeyEnc,
                  Round, Field, X25519, Agree
    <3> QED
      BY <3>1 DEF HashExact, Finished
  <2> QED
    BY <2>1, <2>2, <2>3, <2>4, <2>5
<1> QED
  BY <1>1, <1>2, JobKept, PTL DEF Spec

\* h is what the fold of poly1305_update has after each step.
LEMMA MacFolds ==
    ASSUME NEW s, IsStr(s), NEW h,
           \A i \in 1..Len(s) : h[i] = poly1305_update(h[i - 1], s[i])
    PROVE  FoldLeft(poly1305_update, h[0], s) = h[Len(s)]
<1> DEFINE n == Len(s)
           z == h[0]
           Steps(g, k) == \A T \in SUBSET (1..k) :
                            g[T] = IF T = {} THEN z
                                   ELSE poly1305_update(g[T \ {Max(T)}], s[Max(T)])
           P == {k \in Nat : \E g : g = [T \in SUBSET (1..k) |-> g[T]] /\ Steps(g, k)}
           It(f) == f = [T \in SUBSET DOMAIN s |->
                           IF T = {} THEN z
                           ELSE LET x == Max(T) IN poly1305_update(f[T \ {x}], s[x])]
           f == CHOOSE f : It(f)
<1>1. n \in Nat /\ DOMAIN s = 1..n
  BY StrIs
<1>2. 0 \in P
  <2> DEFINE g == [T \in SUBSET (1..0) |-> z]
  <2>1. SUBSET (1..0) = {{}}
    OBVIOUS
  <2>2. Steps(g, 0)
    BY <2>1
  <2>3. g = [T \in SUBSET (1..0) |-> g[T]]
    OBVIOUS
  <2> HIDE DEF g, Steps
  <2> QED
    BY <2>2, <2>3
<1>3. ASSUME NEW k \in Nat, k \in P PROVE k + 1 \in P
  <2>1. PICK g : Steps(g, k)
    BY <1>3
  <2> DEFINE m == k + 1
             e == [T \in SUBSET (1..m) |->
                     IF m \in T THEN poly1305_update(g[T \ {m}], s[m]) ELSE g[T]]
  <2>2. ASSUME NEW T \in SUBSET (1..m)
        PROVE  e[T] = IF T = {} THEN z ELSE poly1305_update(e[T \ {Max(T)}], s[Max(T)])
    <3>0. m \in Nat
      OBVIOUS
    <3>1. T \ {m} \in SUBSET (1..k) /\ T \ {m} \in SUBSET (1..m)
      OBVIOUS
    <3>2. T # {} => Max(T) \in T /\ \A y \in T : y <= Max(T)
      BY <3>0, MaxIsGreatest
    <3>3. CASE m \in T
      <4>1. Max(T) = m
        <5>1. Max(T) \in T /\ m <= Max(T)
          BY <3>2, <3>3
        <5>2. PICK x \in 1..m : x = Max(T)
          BY <5>1
        <5> QED
          BY <5>1, <5>2
      <4>2. e[T \ {m}] = g[T \ {m}]
        BY <3>1
      <4>3. e[T] = poly1305_update(g[T \ {m}], s[m])
        BY <3>3
      <4> HIDE DEF e
      <4> QED
        BY <3>3, <4>1, <4>2, <4>3
    <3>4. CASE m \notin T
      <4>1. T \in SUBSET (1..k)
        BY <3>1, <3>4
      <4>2. e[T] = g[T]
        BY <3>4
      <4>3. T # {} => T \ {Max(T)} \in SUBSET (1..k)
        BY <4>1
      <4>4. T # {} => e[T \ {Max(T)}] = g[T \ {Max(T)}]
        <5>1. T \ {Max(T)} \in SUBSET (1..m) /\ m \notin T \ {Max(T)}
          BY <3>4
        <5> QED
          BY <5>1
      <4> HIDE DEF e
      <4> QED
        BY <2>1, <4>1, <4>2, <4>4
    <3> QED
      BY <3>3, <3>4
  <2>3. e = [T \in SUBSET (1..m) |-> e[T]]
    OBVIOUS
  <2> HIDE DEF e
  <2>4. Steps(e, m)
    BY <2>2
  <2>5. m \in Nat
    OBVIOUS
  <2> HIDE DEF Steps, m
  <2>6. m \in P
    BY <2>3, <2>4, <2>5
  <2> QED
    BY <2>6 DEF m
<1> HIDE DEF P
<1>4. n \in P
  <2>1. Nat \subseteq P
    BY <1>2, <1>3, NatInduct
  <2> QED
    BY <1>1, <2>1
<1> HIDE DEF n
<1>5. PICK g : g = [T \in SUBSET (1..n) |-> g[T]] /\ Steps(g, n)
  BY <1>4 DEF P
<1>6. It(g)
  <2>1. ASSUME NEW T \in SUBSET (1..n)
        PROVE  g[T] = IF T = {} THEN z ELSE LET x == Max(T) IN poly1305_update(g[T \ {x}], s[x])
    BY <1>5
  <2> QED
    BY <1>1, <1>5, <2>1
<1>7. It(f)
  <2> HIDE DEF It
  <2> QED
    BY <1>6
<1>8. FoldLeft(poly1305_update, z, s) = f[DOMAIN s]
  BY DEF FoldLeft, MapThenFoldSet
<1> HIDE DEF f
<1>9. ASSUME NEW T \in SUBSET (1..n)
      PROVE  f[T] = IF T = {} THEN z ELSE poly1305_update(f[T \ {Max(T)}], s[Max(T)])
  BY <1>1, <1>7
<1> HIDE DEF It, z
<1> DEFINE Q == {k \in Nat : k <= n => f[1..k] = h[k]}
<1>10. 0 \in Q
  <2>1. 1..0 = {}
    OBVIOUS
  <2>2. f[{}] = z
    BY <1>9
  <2> QED
    BY <2>1, <2>2 DEF z
<1>11. ASSUME NEW k \in Nat, k \in Q PROVE k + 1 \in Q
  <2> SUFFICES ASSUME k + 1 <= n PROVE f[1..(k + 1)] = h[k + 1]
    OBVIOUS
  <2> DEFINE m == k + 1
             T == 1..m
  <2>0. m \in Nat /\ m \in 1..n /\ m - 1 = k /\ k <= n
    BY <1>1
  <2>1. m \in Nat /\ m \in 1..n /\ m - 1 = k /\ k <= n /\ T # {} /\ T \in SUBSET (1..n)
    <3>1. m \in T
      BY <2>0
    <3>2. \A y \in T : y \in 1..n
      BY <1>1, <2>0
    <3> QED
      BY <2>0, <3>1, <3>2
  <2>2. Max(T) = m
    <3>1. Max(T) \in T /\ \A y \in T : y <= Max(T)
      <4>1. T \in SUBSET (1..m)
        OBVIOUS
      <4> HIDE DEF T
      <4> QED
        BY <2>1, <4>1, MaxIsGreatest
    <3>2. PICK x \in 1..m : x = Max(T)
      BY <3>1
    <3>3. m \in T
      BY <2>1
    <3> QED
      BY <3>1, <3>2, <3>3
  <2>3. T \ {m} = 1..k
    OBVIOUS
  <2>4. f[1..k] = h[k]
    BY <1>11, <2>1
  <2> HIDE DEF T, m
  <2>5. f[T] = poly1305_update(f[T \ {m}], s[m])
    BY <1>9, <2>1, <2>2
  <2>6. h[m] = poly1305_update(h[k], s[m])
    BY <2>1 DEF n
  <2>7. f[T] = h[m]
    BY <2>3, <2>4, <2>5, <2>6
  <2> QED
    BY <2>7 DEF T, m
<1> HIDE DEF Q
<1>12. Nat \subseteq Q
  BY <1>10, <1>11, NatInduct
<1>13. f[1..n] = h[n]
  BY <1>1, <1>12 DEF Q
<1> QED
  BY <1>1, <1>8, <1>13 DEF n, z

-----------------------------------------------------------------------------
(* chacha20poly1305.c: what the MAC is of.                                 *)

Pairs(b) == [i \in 1..Len(b) |-> <<b[i], 1>>]

LEMMA PairsAre ==
    ASSUME NEW b, IsStr(b)
    PROVE  /\ IsStr(Pairs(b)) /\ Len(Pairs(b)) = Len(b) /\ Len(b) \in Nat
           /\ \A i \in 1..Len(b) : Pairs(b)[i] = <<b[i], 1>>
<1> DEFINE n == Len(b)
           f == Pairs(b)
<1>1. n \in Nat
  BY StrIs
<1>2. f = [i \in 1..n |-> f[i]] /\ \A i \in 1..n : f[i] = <<b[i], 1>>
  BY DEF Pairs
<1> HIDE DEF f, n
<1>3. IsStr(f) /\ Len(f) = n
  BY <1>1, <1>2, FunctionIsStr
<1> QED
  BY <1>1, <1>2, <1>3 DEF f, n

LEMMA PairsCat ==
    ASSUME NEW a, IsStr(a), NEW b, IsStr(b)
    PROVE  Pairs(a) \o Pairs(b) = Pairs(a \o b)
<1> DEFINE c == a \o b
           x == Pairs(a)
           y == Pairs(b)
           z == Pairs(c)
           w == x \o y
           m == Len(a)
           n == Len(b)
<1>1. CatOf(c, a, b, m, n)
  BY CatIs
<1>2. /\ IsStr(x) /\ Len(x) = m /\ m \in Nat /\ \A i \in 1..m : x[i] = <<a[i], 1>>
      /\ IsStr(y) /\ Len(y) = n /\ n \in Nat /\ \A i \in 1..n : y[i] = <<b[i], 1>>
  BY PairsAre
<1> HIDE DEF c, x, y, m, n
<1>3. IsStr(z) /\ Len(z) = m + n /\ \A i \in 1..(m + n) : z[i] = <<c[i], 1>>
  <2>1. IsStr(c) /\ Len(c) = m + n
    BY <1>1 DEF CatOf
  <2> QED
    BY <2>1, PairsAre
<1> HIDE DEF z
<1>4. CatOf(w, x, y, m, n)
  <2>1. CatOf(x \o y, x, y, Len(x), Len(y))
    BY ONLY <1>2, CatIs
  <2> QED
    BY <1>2, <2>1
<1> HIDE DEF w
<1>5. ASSUME NEW i \in 1..(m + n) PROVE w[i] = z[i]
  <2>1. CASE i <= m
    <3>1. i \in 1..m
      BY <1>2, <2>1
    <3>2. w[i] = x[i] /\ c[i] = a[i]
      BY <1>1, <1>4, <3>1 DEF CatOf
    <3> QED
      BY <1>2, <1>3, <3>1, <3>2
  <2>2. CASE ~(i <= m)
    <3> DEFINE k == i - m
    <3>1. k \in 1..n /\ m + k = i
      BY <1>2, <2>2
    <3> HIDE DEF k
    <3>2. w[m + k] = y[k] /\ c[m + k] = b[k]
      BY <1>1, <1>4, <3>1 DEF CatOf
    <3> QED
      BY <1>2, <1>3, <3>1, <3>2
  <2> QED
    BY <2>1, <2>2
<1>6. IsStr(w) /\ Len(w) = m + n
  BY <1>4 DEF CatOf
<1>7. w = z
  BY ONLY <1>3, <1>5, <1>6, StrEqual
<1> QED
  BY <1>7 DEF w, x, y, z, c

(***************************************************************************)
(* The blocks b of m are in h, and what remains of m, r bytes, in c.       *)
(***************************************************************************)
MacsTo(ctx, key, b, m, q, r) ==
    /\ ctx = [key |-> ctx.key, h |-> ctx.h, c |-> ctx.c, c_idx |-> ctx.c_idx]
    /\ ctx.key = key /\ ctx.h = Pairs(b) /\ ctx.c_idx = r
    /\ FilledTo(b, ctx.c, m, MacLen, q, r)
Macs(ctx, key, m) == \E b, q, r : MacsTo(ctx, key, b, m, q, r) /\ r < MacLen

\* The three steps of poly1305_update.
PolyFirst(ctx, x, n) == [ctx EXCEPT !.c = Put(@, ctx.c_idx, x), !.c_idx = @ + n]
PolyFull(t) ==
    IF t.c_idx = MacLen THEN [poly_blocks(t, <<t.c>>, 1) EXCEPT !.c_idx = 0] ELSE t
PolyRest(u, rest) ==
    LET whole == Len(rest) \div MacLen
        cut(i) == SubSeq(rest, (i - 1) * MacLen + 1, i * MacLen)
        tail == SubSeq(rest, whole * MacLen + 1, Len(rest))
        v == poly_blocks(u, [i \in 1..whole |-> cut(i)], 1)
    IN [v EXCEPT !.c = Put(@, v.c_idx, tail), !.c_idx = @ + Len(tail)]
AlignedOf(r, n) == LET room == gap(r, MacLen) IN IF room <= n THEN room ELSE n

LEMMA PolySteps ==
    ASSUME NEW ctx, NEW m, m # <<>>, NEW n, n = AlignedOf(ctx.c_idx, Len(m))
    PROVE  poly1305_update(ctx, m) =
             PolyRest(PolyFull(PolyFirst(ctx, SubSeq(m, 1, n), n)), SubSeq(m, n + 1, Len(m)))
<1>1. poly1305_update(ctx, m) =
        IF m = <<>> THEN ctx
        ELSE PolyRest(PolyFull(PolyFirst(ctx, SubSeq(m, 1, AlignedOf(ctx.c_idx, Len(m))),
                                         AlignedOf(ctx.c_idx, Len(m)))),
                      SubSeq(m, AlignedOf(ctx.c_idx, Len(m)) + 1, Len(m)))
  BY DEF poly1305_update, PolyRest, PolyFull, PolyFirst, AlignedOf
<1> QED
  BY <1>1

LEMMA PolyFirstMacs ==
    ASSUME NEW ctx, NEW key, NEW b, NEW m, NEW q, NEW r, MacsTo(ctx, key, b, m, q, r),
           NEW x, IsStr(x), NEW n, Len(x) = n, NEW e, e = r + n, e <= MacLen
    PROVE  MacsTo(PolyFirst(ctx, x, n), key, b, m \o x, q, e)
<1> DEFINE c == Put(ctx.c, r, x)
           t == PolyFirst(ctx, x, n)
<1>1. /\ ctx = [key |-> ctx.key, h |-> ctx.h, c |-> ctx.c, c_idx |-> ctx.c_idx]
      /\ ctx.key = key /\ ctx.h = Pairs(b) /\ ctx.c_idx = r
      /\ FilledTo(b, ctx.c, m, MacLen, q, r)
  BY DEF MacsTo
<1>2. FilledTo(b, c, m \o x, MacLen, q, e)
  BY ONLY <1>1, IsStr(x), Len(x) = n, e = r + n, e <= MacLen, MoreTo
<1>3. t = [ctx EXCEPT !.c = Put(@, r, x), !.c_idx = @ + n]
  BY <1>1 DEF PolyFirst
<1>4. t = [key |-> ctx.key, h |-> ctx.h, c |-> c, c_idx |-> e]
  <2>1. ctx.c_idx + n = e
    BY <1>1
  <2> HIDE DEF t
  <2> QED
    BY <1>1, <1>3, <2>1
<1> HIDE DEF c, t
<1>5. t.key = key /\ t.h = Pairs(b) /\ t.c = c /\ t.c_idx = e
      /\ t = [key |-> t.key, h |-> t.h, c |-> t.c, c_idx |-> t.c_idx]
  BY <1>1, <1>4
<1>6. MacsTo(t, key, b, m \o x, q, e)
  BY ONLY <1>2, <1>5 DEF MacsTo
<1> QED
  BY <1>6 DEF t

LEMMA PolyBlocksIs ==
    ASSUME NEW u, u = [key |-> u.key, h |-> u.h, c |-> u.c, c_idx |-> u.c_idx],
           NEW s, IsStr(s)
    PROVE  poly_blocks(u, s, 1)
             = [key |-> u.key, h |-> u.h \o Pairs(s), c |-> u.c, c_idx |-> u.c_idx]
<1> DEFINE f == [i \in DOMAIN s |-> <<s[i], 1>>]
<1>1. f = Pairs(s)
  BY StrIs DEF Pairs
<1>2. poly_blocks(u, s, 1) = [u EXCEPT !.h = @ \o f]
  BY DEF poly_blocks
<1> HIDE DEF f
<1> QED
  BY <1>1, <1>2

LEMMA PolyFullMacs ==
    ASSUME NEW t, NEW key, NEW b, NEW m, NEW q, NEW e, MacsTo(t, key, b, m, q, e),
           NEW p, p = q + 1
    PROVE  /\ e = MacLen => MacsTo(PolyFull(t), key, Append(b, t.c), m, p, 0)
           /\ e # MacLen => PolyFull(t) = t
<1>1. /\ t = [key |-> t.key, h |-> t.h, c |-> t.c, c_idx |-> t.c_idx]
      /\ t.key = key /\ t.h = Pairs(b) /\ t.c_idx = e
      /\ FilledTo(b, t.c, m, MacLen, q, e)
  BY DEF MacsTo
<1>2. ASSUME e = MacLen
      PROVE  MacsTo(PolyFull(t), key, Append(b, t.c), m, p, 0)
  <2> DEFINE d == Append(b, t.c)
             u == PolyFull(t)
             o == <<t.c>>
  <2>1. FilledTo(d, t.c, m, MacLen, p, 0)
    BY ONLY <1>1, <1>2, p = q + 1, BlockTo
  <2>2. IsStr(o) /\ IsStr(b)
    BY <1>1, StrOne DEF FilledTo, Filled
  <2>3. d = b \o o
    BY <2>2, StrAppend
  <2>4. u = [poly_blocks(t, o, 1) EXCEPT !.c_idx = 0]
    BY <1>1, <1>2 DEF PolyFull
  <2> HIDE DEF o, u, d
  <2>5. poly_blocks(t, o, 1) = [key |-> t.key, h |-> t.h \o Pairs(o), c |-> t.c,
                                c_idx |-> t.c_idx]
    BY ONLY <1>1, <2>2, PolyBlocksIs
  <2>6. t.h \o Pairs(o) = Pairs(d)
    BY <1>1, <2>2, <2>3, PairsCat
  <2>7. u = [key |-> t.key, h |-> Pairs(d), c |-> t.c, c_idx |-> 0]
    BY <2>4, <2>5, <2>6
  <2>8. u.key = key /\ u.h = Pairs(d) /\ u.c = t.c /\ u.c_idx = 0
        /\ u = [key |-> u.key, h |-> u.h, c |-> u.c, c_idx |-> u.c_idx]
    BY <1>1, <2>7
  <2>9. MacsTo(u, key, d, m, p, 0)
    BY ONLY <2>1, <2>8 DEF MacsTo
  <2> QED
    BY <2>9 DEF u, d
<1>3. ASSUME e # MacLen PROVE PolyFull(t) = t
  BY <1>1, <1>3 DEF PolyFull
<1> QED
  BY <1>2, <1>3

\* What is left is empty unless the buffer is.
LEMMA PolyRestEmpty ==
    ASSUME NEW u, NEW key, NEW b, NEW m, NEW q, NEW r, MacsTo(u, key, b, m, q, r), r <= MacLen,
           NEW x, IsStr(x), Len(x) = 0
    PROVE  PolyRest(u, x) = u
<1>1. /\ u = [key |-> u.key, h |-> u.h, c |-> u.c, c_idx |-> u.c_idx]
      /\ u.c_idx = r /\ u.h = Pairs(b) /\ MacLen \in Nat \ {0} /\ r \in Nat
      /\ IsStr(u.c) /\ Len(u.c) = MacLen /\ IsStr(b)
  BY DEF MacsTo, FilledTo, Filled
<1> DEFINE w == Len(x) \div MacLen
           f == [i \in 1..w |-> SubSeq(x, (i - 1) * MacLen + 1, i * MacLen)]
           t == SubSeq(x, w * MacLen + 1, Len(x))
           v == poly_blocks(u, f, 1)
           c == Put(u.c, r, t)
<1>2. PolyRest(u, x) = [v EXCEPT !.c = Put(@, v.c_idx, t), !.c_idx = @ + Len(t)]
  BY DEF PolyRest
<1>3. w = 0
  BY <1>1, Quotient
<1>4. x = <<>> /\ f = <<>>
  BY <1>3, StrNull
<1>5. t = <<>> /\ Len(t) = 0
  <2>1. w * MacLen = 0
    BY <1>1, <1>3
  <2>2. t = SubSeq(x, 0 + 1, Len(x))
    BY <2>1
  <2> HIDE DEF t
  <2>3. IsStr(t) /\ Len(t) = 0
    <3>1. PartOf(SubSeq(x, 0 + 1, 0 + 0), x, 0, 0)
      BY PartIs
    <3> QED
      BY <2>2, <3>1 DEF PartOf
  <2> QED
    BY <2>3, StrNull
<1> HIDE DEF f, t
<1>6. v = u
  <2>1. IsStr(f) /\ Len(f) = 0
    BY <1>4, StrEmpty
  <2>2. v = [key |-> u.key, h |-> u.h \o Pairs(f), c |-> u.c, c_idx |-> u.c_idx]
    BY ONLY <1>1, <2>1, PolyBlocksIs DEF v
  <2>3. Pairs(f) = <<>>
    BY <2>1, PairsAre, StrNull
  <2>4. IsStr(u.h)
    BY <1>1, PairsAre
  <2>5. u.h \o Pairs(f) = u.h
    BY <2>3, <2>4, StrNothing
  <2> QED
    BY <1>1, <2>2, <2>5
<1>7. c = u.c
  <2>1. IsStr(t) /\ r + Len(t) = r /\ r + Len(t) <= Len(u.c)
    BY <1>1, <1>5, StrEmpty
  <2>2. PutOf(Put(u.c, r, t), u.c, r, t)
    BY <1>1, <2>1, PutIs
  <2> HIDE DEF c
  <2>3. /\ IsStr(c) /\ Len(c) = Len(u.c) /\ \A i \in 1..r : c[i] = u.c[i]
        /\ \A i \in (r + 1)..MacLen : c[i] = u.c[i]
    BY <1>1, <2>1, <2>2 DEF PutOf, c
  <2>4. \A i \in 1..Len(c) : c[i] = u.c[i]
    BY <1>1, <2>3
  <2> QED
    BY <1>1, <2>3, <2>4, StrEqual
<1> HIDE DEF v, c
<1>8. PolyRest(u, x) = [key |-> u.key, h |-> u.h, c |-> c, c_idx |-> r + 0]
  <2>1. [u EXCEPT !.c = Put(@, u.c_idx, t), !.c_idx = @ + Len(t)]
          = [key |-> u.key, h |-> u.h, c |-> Put(u.c, r, t), c_idx |-> r + 0]
    <3> DEFINE e == [key |-> u.key, h |-> u.h, c |-> Put(u.c, r, t), c_idx |-> u.c_idx]
    <3>1. [u EXCEPT !.c = Put(@, u.c_idx, t)] = e
      BY ONLY <1>1
    <3>2. [e EXCEPT !.c_idx = @ + Len(t)]
            = [key |-> u.key, h |-> u.h, c |-> Put(u.c, r, t), c_idx |-> r + 0]
      BY ONLY <1>1, <1>5
    <3> HIDE DEF e
    <3>3. [e EXCEPT !.c_idx = u.c_idx + Len(t)] = [e EXCEPT !.c_idx = @ + Len(t)]
      <4>1. e.c_idx = u.c_idx
        BY DEF e
      <4> QED
        BY <4>1
    <3> QED
      BY <3>1, <3>2, <3>3
  <2> QED
    BY <1>2, <1>6, <2>1 DEF c
<1>9. r + 0 = r
  BY <1>1
<1> QED
  BY <1>1, <1>7, <1>8, <1>9

\* The whole blocks of x, and what remains of it.
LEMMA PolyRestMacs ==
    ASSUME NEW u, NEW key, NEW b, NEW m, NEW q, MacsTo(u, key, b, m, q, 0), NEW x, IsStr(x)
    PROVE  Macs(PolyRest(u, x), key, m \o x)
<1>1. /\ u = [key |-> u.key, h |-> u.h, c |-> u.c, c_idx |-> u.c_idx]
      /\ u.key = key /\ u.h = Pairs(b) /\ u.c_idx = 0
      /\ FilledTo(b, u.c, m, MacLen, q, 0)
  BY DEF MacsTo
<1>2. MacLen \in Nat \ {0} /\ IsStr(b) /\ Len(x) \in Nat /\ q \in Nat
  BY <1>1, StrIs DEF FilledTo, Filled
<1> DEFINE S == MacLen
           w == Len(x) \div S
           d == Len(x) - w * S
           f == [i \in 1..w |-> BlockOf(x, S, i)]
           t == SubSeq(x, w * S + 1, Len(x))
           v == poly_blocks(u, f, 1)
           c == Put(u.c, 0, t)
           z == PolyRest(u, x)
<1>3. w \in Nat /\ d \in Nat /\ d < S /\ Len(x) = w * S + d
  <2> DEFINE a == w * S
  <2>1. w \in Nat /\ a <= Len(x) /\ Len(x) < a + S
    BY <1>2, Quotient
  <2>2. a \in Nat
    <3> HIDE DEF w
    <3> QED
      BY <1>2, <2>1, Multiples
  <2> HIDE DEF a, w
  <2>3. Len(x) - a \in Nat /\ Len(x) - a < S /\ Len(x) = a + (Len(x) - a)
    BY ONLY <1>2, <2>1, <2>2 DEF S
  <2> QED
    BY <2>1, <2>3 DEF a
<1>4. z = [v EXCEPT !.c = Put(@, v.c_idx, t), !.c_idx = @ + Len(t)]
  BY DEF PolyRest, BlockOf
<1> HIDE DEF w, d
<1> HIDE DEF f, t, S
<1>5. WholeOf(x, S, w, d, f, t)
  <2>1. d <= S
    BY ONLY <1>2, <1>3 DEF S
  <2> QED
    BY ONLY <1>3, <2>1, IsStr(x) DEF WholeOf, f, t
<1>6. FilledTo(b \o f, Put(u.c, 0, t), m \o x, S, q + w, d) /\ Len(t) = d
  BY ONLY <1>1, <1>5, FillWhole DEF S
<1> HIDE DEF v, z
<1>7. IsStr(f)
  BY <1>3, <1>5, FunctionIsStr DEF WholeOf
<1>8. v = [key |-> u.key, h |-> Pairs(b \o f), c |-> u.c, c_idx |-> 0]
  <2>1. v = [key |-> u.key, h |-> u.h \o Pairs(f), c |-> u.c, c_idx |-> u.c_idx]
    BY ONLY <1>1, <1>7, PolyBlocksIs DEF v
  <2>2. Pairs(b) \o Pairs(f) = Pairs(b \o f)
    BY <1>2, <1>7, PairsCat
  <2> QED
    BY <1>1, <2>1, <2>2
<1>9. z = [key |-> u.key, h |-> Pairs(b \o f), c |-> c, c_idx |-> d]
  <2>1. 0 + Len(t) = d
    BY <1>3, <1>6
  <2> QED
    BY <1>4, <1>8, <2>1
<1> HIDE DEF c
<1>10. /\ z.key = key /\ z.h = Pairs(b \o f) /\ z.c = c /\ z.c_idx = d
       /\ z = [key |-> z.key, h |-> z.h, c |-> z.c, c_idx |-> z.c_idx]
  BY <1>1, <1>9
<1> DEFINE p == q + w
           g == b \o f
<1>11. FilledTo(g, c, m \o x, S, p, d)
  BY <1>6 DEF c
<1> HIDE DEF p, g
<1>12. MacsTo(z, key, g, m \o x, p, d)
  BY ONLY <1>10, <1>11 DEF MacsTo, g, S
<1>13. d < MacLen
  BY <1>3 DEF S
<1> QED
  BY <1>12, <1>13 DEF Macs, z

LEMMA PolyUpdateMacs ==
    ASSUME NEW ctx, NEW key, NEW m, Macs(ctx, key, m), NEW x, IsStr(x)
    PROVE  Macs(poly1305_update(ctx, x), key, m \o x)
<1>1. PICK b, q, r : MacsTo(ctx, key, b, m, q, r) /\ r < MacLen
  BY DEF Macs
<1>2. IsStr(m) /\ MacLen \in Nat \ {0} /\ q \in Nat /\ r \in Nat /\ ctx.c_idx = r
  BY <1>1 DEF MacsTo, FilledTo
<1>3. CASE x = <<>>
  <2>1. poly1305_update(ctx, x) = ctx
    BY <1>3 DEF poly1305_update
  <2>2. m \o x = m
    BY <1>2, <1>3, StrNothing
  <2> QED
    BY <2>1, <2>2
<1>4. CASE x # <<>>
  <2> DEFINE l == Len(x)
             n == AlignedOf(r, l)
             e == r + n
             p == q + 1
             y == SubSeq(x, 1, n)
             k == SubSeq(x, n + 1, Len(x))
             t == PolyFirst(ctx, y, n)
             u == PolyFull(t)
  <2>1. l \in Nat
    BY StrIs
  <2>2. gap(r, MacLen) = IF r = 0 THEN 0 ELSE MacLen - r
    <3>1. r % MacLen = r
      BY <1>1, <1>2
    <3>2. (MacLen - r) % MacLen = IF r = 0 THEN 0 ELSE MacLen - r
      BY <1>1, <1>2
    <3> QED
      BY <3>1, <3>2 DEF gap
  <2>3. /\ n \in Nat /\ n <= l /\ e \in Nat /\ e <= MacLen
        /\ e = MacLen \/ e = 0 \/ n = l
    <3>1. n = IF gap(r, MacLen) <= l THEN gap(r, MacLen) ELSE l
      BY DEF AlignedOf
    <3> HIDE DEF n
    <3> QED
      BY <1>1, <1>2, <2>1, <2>2, <3>1
  <2>4. poly1305_update(ctx, x) = PolyRest(u, k)
    <3>1. n = AlignedOf(ctx.c_idx, Len(x))
      BY <1>2
    <3> HIDE DEF n
    <3> QED
      BY <1>4, <3>1, PolySteps
  <2> HIDE DEF n
  <2>5. PartOf(y, x, 0, n) /\ PartOf(k, x, n, l - n) /\ y \o k = x
    BY <2>3, StrSplit
  <2> HIDE DEF y, k, t, e
  <2>6. IsStr(y) /\ Len(y) = n /\ IsStr(k) /\ Len(k) = l - n
    BY <2>5 DEF PartOf
  <2>7. MacsTo(t, key, b, m \o y, q, e)
    BY ONLY <1>1, <2>3, <2>6, PolyFirstMacs DEF t, e
  <2>8. (m \o y) \o k = m \o x
    <3>1. (m \o y) \o k = m \o (y \o k)
      BY ONLY <1>2, <2>6, StrAssoc
    <3> QED
      BY ONLY <2>5, <3>1
  <2> HIDE DEF u, l
  <2>9. CASE e = MacLen
    <3> DEFINE g == Append(b, t.c)
    <3>1. MacsTo(u, key, g, m \o y, p, 0)
      BY ONLY <2>7, <2>9, PolyFullMacs DEF u, p
    <3> HIDE DEF g, p
    <3>2. Macs(PolyRest(u, k), key, (m \o y) \o k)
      BY ONLY <2>6, <3>1, PolyRestMacs
    <3> QED
      BY <2>4, <2>8, <3>2
  <2>10. CASE e # MacLen
    <3>1. u = t
      BY ONLY <2>7, <2>10, PolyFullMacs DEF u
    <3>2. CASE e = 0
      <4>1. MacsTo(u, key, b, m \o y, q, 0)
        BY <2>7, <3>1, <3>2
      <4>2. Macs(PolyRest(u, k), key, (m \o y) \o k)
        BY ONLY <2>6, <4>1, PolyRestMacs
      <4> QED
        BY <2>4, <2>8, <4>2
    <3>3. CASE e # 0
      <4>1. n = l /\ Len(k) = 0
        BY <2>1, <2>3, <2>6, <2>10, <3>3
      <4>2. PolyRest(u, k) = u
        BY ONLY <2>3, <2>6, <2>7, <3>1, <4>1, PolyRestEmpty
      <4>3. k = <<>>
        BY <2>6, <4>1, StrNull
      <4>4. m \o x = m \o y
        <5>1. IsStr(m \o y)
          BY <1>2, <2>6, StrCat
        <5> QED
          BY <2>8, <4>3, <5>1, StrNothing
      <4>5. Macs(u, key, m \o y)
        <5>1. e < MacLen
          BY <1>2, <2>3, <2>10
        <5> QED
          BY <2>7, <3>1, <5>1 DEF Macs
      <4> QED
        BY <2>4, <4>2, <4>4, <4>5
    <3> QED
      BY <3>2, <3>3
  <2> QED
    BY <2>9, <2>10
<1> QED
  BY <1>3, <1>4

\* The tag of some blocks, and of the blocks of a string.
TagOf(key, b) == [i \in 1..MacLen |-> {<<"tag", <<key, b>>, i>>}]
MacOf(key, m) == TagOf(key, Pairs(AllBlocks(m, MacLen)))

LEMMA TagIs ==
    ASSUME NEW key, NEW m
    PROVE  /\ IsStr(MacOf(key, m)) /\ Len(MacOf(key, m)) = MacLen /\ MacLen \in Nat \ {0}
           /\ \A i \in 1..MacLen :
                MacOf(key, m)[i] = {<<"tag", <<key, Pairs(AllBlocks(m, MacLen))>>, i>>}
<1> DEFINE b == Pairs(AllBlocks(m, MacLen))
           f == MacOf(key, m)
<1>1. f = [i \in 1..MacLen |-> {<<"tag", <<key, b>>, i>>}]
  BY DEF MacOf, TagOf
<1>2. MacLen \in Nat \ {0}
  BY AeadAssumption
<1> HIDE DEF b, f
<1>3. f = [i \in 1..MacLen |-> f[i]] /\ \A i \in 1..MacLen : f[i] = {<<"tag", <<key, b>>, i>>}
  BY <1>1
<1>4. IsStr(f) /\ Len(f) = MacLen
  BY <1>2, <1>3, FunctionIsStr
<1> QED
  BY <1>2, <1>3, <1>4 DEF b, f

LEMMA InitMacs == ASSUME NEW key PROVE Macs(poly1305_init(key), key, <<>>)
<1> DEFINE c == Named("stack", MacLen)
           x == poly1305_init(key)
<1>1. MacLen \in Nat \ {0}
  BY AeadAssumption
<1>2. IsStr(c) /\ Len(c) = MacLen
  BY <1>1, NamedIs
<1>3. x = [key |-> key, h |-> <<>>, c |-> c, c_idx |-> 0]
  BY DEF poly1305_init
<1> HIDE DEF c, x
<1>4. ASSUME NEW e, e = <<>> PROVE Macs(x, key, e)
  <2>1. IsStr(e) /\ Len(e) = 0
    BY <1>4, StrEmpty
  <2>2. 0 * MacLen = 0 /\ 0 \in Nat /\ 0 + 0 = 0
    BY <1>1
  <2>3. Filled(e, c, e, MacLen, 0, 0)
    <3>1. SamePart(c, 0, e, 0 * MacLen, 0)
      BY DEF SamePart
    <3>2. \A i \in 1..0 : e[i] = BlockOf(e, MacLen, i)
      OBVIOUS
    <3> QED
      BY <1>2, <2>1, <3>1, <3>2 DEF Filled
  <2>4. FilledTo(e, c, e, MacLen, 0, 0)
    BY <1>1, <2>1, <2>2, <2>3 DEF FilledTo
  <2>5. Pairs(e) = e
    BY <1>4, <2>1, PairsAre, StrNull
  <2>6. MacsTo(x, key, e, e, 0, 0)
    BY <1>3, <1>4, <2>4, <2>5 DEF MacsTo
  <2>7. 0 < MacLen
    BY <1>1
  <2> QED
    BY <2>6, <2>7 DEF Macs
<1> QED
  BY <1>4 DEF x

\* What is left over of a number that is a multiple.
LEMMA NoRest ==
    ASSUME NEW S \in Nat \ {0}, NEW q \in Nat, NEW r \in Nat, r < S, NEW k \in Nat,
           NEW a, a = q * S + r, a = k * S
    PROVE  r = 0
<1> DEFINE p == q * S
           t == k * S
<1>1. p \in Nat /\ t \in Nat
  BY Multiples
<1>2. a \in Int /\ p <= a /\ a < p + S /\ t <= a /\ a < t + S /\ r = a - p
  <2>1. a = p + r /\ a = t
    OBVIOUS
  <2> HIDE DEF p, t
  <2> QED
    BY ONLY <1>1, <2>1, r \in Nat, r < S, S \in Nat \ {0}
<1>3. k = q
  BY ONLY <1>2, SameMultiple, S \in Nat \ {0}, q \in Nat, k \in Nat DEF p, t
<1>4. p = t
  BY <1>3
<1>5. a = t
  OBVIOUS
<1> HIDE DEF p, t
<1> QED
  BY ONLY <1>1, <1>2, <1>4, <1>5

\* Nothing is left over at the end.
LEMMA FinalTags ==
    ASSUME NEW ctx, NEW key, NEW m, Macs(ctx, key, m), NEW k \in Nat, Len(m) = k * MacLen
    PROVE  poly1305_final(ctx) = MacOf(key, m)
<1>1. PICK b, q, r : MacsTo(ctx, key, b, m, q, r) /\ r < MacLen
  BY DEF Macs
<1>2. /\ ctx.key = key /\ ctx.h = Pairs(b) /\ ctx.c_idx = r /\ FilledTo(b, ctx.c, m, MacLen, q, r)
  BY <1>1 DEF MacsTo
<1>3. MacLen \in Nat \ {0} /\ q \in Nat /\ r \in Nat /\ Len(m) = q * MacLen + r
  BY <1>2 DEF FilledTo
<1>4. r = 0
  <2>1. Len(m) = q * MacLen + r /\ r < MacLen
    BY <1>1, <1>3
  <2> QED
    BY ONLY <1>3, <2>1, k \in Nat, Len(m) = k * MacLen, NoRest
<1>5. b = AllBlocks(m, MacLen)
  BY ONLY <1>2, <1>4, BlocksOfAll
<1>6. poly1305_final(ctx) = [i \in 1..MacLen |-> {<<"tag", <<ctx.key, ctx.h>>, i>>}]
  BY <1>2, <1>4 DEF poly1305_final
<1> QED
  BY <1>2, <1>5, <1>6 DEF MacOf, TagOf

\* Five strings given one after the other.
LEMMA FiveMacs ==
    ASSUME NEW key, NEW a, NEW b, NEW c, NEW d, NEW e,
           IsStr(a), IsStr(b), IsStr(c), IsStr(d), IsStr(e)
    PROVE  Macs(FoldLeft(poly1305_update, poly1305_init(key), <<a, b, c, d, e>>), key,
                (((a \o b) \o c) \o d) \o e)
<1> DEFINE x0 == poly1305_init(key)
           x1 == poly1305_update(x0, a)
           x2 == poly1305_update(x1, b)
           x3 == poly1305_update(x2, c)
           x4 == poly1305_update(x3, d)
           x5 == poly1305_update(x4, e)
           ab == a \o b
           ac == ab \o c
           ae == ac \o d
           af == ae \o e
           s == <<a, b, c, d, e>>
           h == [i \in 0..5 |-> CASE i = 0 -> x0 [] i = 1 -> x1 [] i = 2 -> x2
                                  [] i = 3 -> x3 [] i = 4 -> x4 [] i = 5 -> x5]
<1>1. IsStr(ab) /\ IsStr(ac) /\ IsStr(ae)
  <2>1. IsStr(ab)
    BY StrCat
  <2> HIDE DEF ab
  <2>2. IsStr(ac)
    BY <2>1, StrCat
  <2> HIDE DEF ac
  <2> QED
    BY <2>1, <2>2, StrCat
<1>2. Macs(x1, key, a)
  <2> HIDE DEF x0
  <2>1. Macs(x0, key, <<>>)
    BY InitMacs DEF x0
  <2>2. <<>> \o a = a
    BY StrNothing
  <2> QED
    BY <2>1, <2>2, PolyUpdateMacs
<1>3. Macs(x2, key, ab)
  <2> HIDE DEF x1
  <2> QED
    BY <1>2, PolyUpdateMacs
<1>4. Macs(x3, key, ac)
  <2> HIDE DEF x2, ab
  <2> QED
    BY <1>3, PolyUpdateMacs
<1>5. Macs(x4, key, ae)
  <2> HIDE DEF x3, ac
  <2> QED
    BY <1>4, PolyUpdateMacs
<1>6. Macs(x5, key, af)
  <2> HIDE DEF x4, ae
  <2> QED
    BY <1>5, PolyUpdateMacs
<1>7. /\ x1 = poly1305_update(x0, s[1]) /\ x2 = poly1305_update(x1, s[2])
      /\ x3 = poly1305_update(x2, s[3]) /\ x4 = poly1305_update(x3, s[4])
      /\ x5 = poly1305_update(x4, s[5])
  <2>1. s[1] = a /\ s[2] = b /\ s[3] = c /\ s[4] = d /\ s[5] = e
    OBVIOUS
  <2> HIDE DEF s, x0
  <2> QED
    BY <2>1
<1> HIDE DEF x0, x1, x2, x3, x4, x5
<1>8. IsStr(s) /\ Len(s) = 5
  <2>1. s \in Seq({a, b, c, d, e}) /\ Len(s) = 5
    OBVIOUS
  <2> HIDE DEF s
  <2> QED
    BY <2>1, StrIn
<1> HIDE DEF s
<1>9. /\ h[0] = x0 /\ h[1] = x1 /\ h[2] = x2 /\ h[3] = x3 /\ h[4] = x4 /\ h[5] = x5
  OBVIOUS
<1> HIDE DEF h
<1>10. \A i \in 1..5 : h[i] = poly1305_update(h[i - 1], s[i])
  <2> SUFFICES ASSUME NEW i \in 1..5 PROVE h[i] = poly1305_update(h[i - 1], s[i])
    OBVIOUS
  <2>1. \/ (i = 1 /\ i - 1 = 0) \/ (i = 2 /\ i - 1 = 1) \/ (i = 3 /\ i - 1 = 2)
        \/ (i = 4 /\ i - 1 = 3) \/ (i = 5 /\ i - 1 = 4)
    OBVIOUS
  <2> QED
    BY <1>7, <1>9, <2>1
<1>11. \A i \in 1..Len(s) : h[i] = poly1305_update(h[i - 1], s[i])
  BY <1>8, <1>10
<1>12. FoldLeft(poly1305_update, h[0], s) = h[Len(s)]
  BY ONLY <1>8, <1>11, MacFolds
<1>13. FoldLeft(poly1305_update, x0, s) = x5
  BY <1>8, <1>9, <1>12
<1> QED
  BY <1>6, <1>13 DEF x0, s

\* What makes a number a multiple.
LEMMA GapIs ==
    ASSUME NEW S \in Nat \ {0}, NEW n \in Nat
    PROVE  /\ gap(n, S) \in Nat /\ \E k \in Nat : n + gap(n, S) = k * S
<1> DEFINE q == n \div S
           p == q * S
           r == n % S
<1>1. q \in Nat /\ p \in Nat /\ p <= n /\ n < p + S /\ r = n - p /\ p + S = (q + 1) * S
  <2>1. q \in Nat /\ p <= n /\ n < p + S /\ r = n - p
    BY Quotient, Remainder
  <2> HIDE DEF q
  <2> QED
    BY <2>1, Multiples
<1> HIDE DEF p, r
<1>2. r \in Nat /\ r < S /\ n = p + r
  BY <1>1
<1>3. gap(n, S) = (S - r) % S
  BY DEF gap, r
<1>4. CASE r = 0
  <2>1. S - r = 1 * S + 0 /\ S - r \in Nat /\ 0 < S
    BY <1>4
  <2>2. (S - r) % S = 0
    <3>1. S % S = 0
      OBVIOUS
    <3>2. S - r = S
      BY <1>4
    <3> QED
      BY <3>1, <3>2
  <2>3. gap(n, S) = 0 /\ n + gap(n, S) = p
    BY <1>2, <1>3, <1>4, <2>2, <1>1
  <2>4. n + gap(n, S) = q * S /\ q \in Nat
    BY <1>1, <2>3 DEF p
  <2> HIDE DEF q
  <2> QED
    BY <2>3, <2>4
<1>5. CASE r # 0
  <2>1. S - r \in 0..(S - 1)
    BY <1>2, <1>5
  <2>2. (S - r) % S = S - r
    BY <2>1
  <2>3. gap(n, S) = S - r /\ S - r \in Nat
    BY <1>3, <2>1, <2>2
  <2>4. n + gap(n, S) = p + S
    BY <1>1, <1>2, <2>3
  <2>5. n + gap(n, S) = (q + 1) * S /\ q + 1 \in Nat
    BY <1>1, <2>4
  <2> QED
    BY <2>3, <2>5
<1> QED
  BY <1>4, <1>5

\* What the MAC covers, as RFC 8439 says.
FilledUp(s) == s \o Zeros((MacLen - (Len(s) % MacLen)) % MacLen)
Covered(ad, text) ==
    FilledUp(ad) \o FilledUp(text) \o LittleEndian(Len(ad)) \o LittleEndian(Len(text))

LEMMA FilledUpIs ==
    ASSUME NEW s, IsStr(s)
    PROVE  /\ Len(s) \in Nat /\ gap(Len(s), MacLen) \in Nat /\ MacLen \in Nat \ {0}
           /\ FilledUp(s) = s \o Zeros(gap(Len(s), MacLen))
           /\ IsStr(Zeros(gap(Len(s), MacLen)))
           /\ CatOf(FilledUp(s), s, Zeros(gap(Len(s), MacLen)), Len(s), gap(Len(s), MacLen))
           /\ \E k \in Nat : Len(FilledUp(s)) = k * MacLen
<1> DEFINE n == Len(s)
           g == gap(n, MacLen)
           z == Zeros(g)
<1>1. n \in Nat /\ MacLen \in Nat \ {0}
  BY StrIs, AeadAssumption
<1>2. FilledUp(s) = s \o z
  BY DEF FilledUp, gap
<1> HIDE DEF n
<1>3. g \in Nat /\ \E k \in Nat : n + g = k * MacLen
  BY <1>1, GapIs
<1> HIDE DEF g
<1>4. IsStr(z) /\ Len(z) = g
  BY <1>3, RepeatIs DEF Zeros
<1> HIDE DEF z
<1>5. CatOf(s \o z, s, z, n, g)
  BY <1>4, CatIs DEF n
<1>6. Len(FilledUp(s)) = n + g
  BY <1>2, <1>5 DEF CatOf
<1>7. \E k \in Nat : Len(FilledUp(s)) = k * MacLen
  BY <1>3, <1>6
<1> QED
  BY <1>1, <1>2, <1>3, <1>4, <1>5, <1>7 DEF n, g, z

LEMMA LittleEndianIs ==
    ASSUME NEW n \in Nat, NEW w, w = MacLen \div 2
    PROVE  /\ IsStr(LittleEndian(n)) /\ Len(LittleEndian(n)) = w
           /\ w \in Nat \ {0} /\ w + w = MacLen
           /\ LittleEndian(n)[1] = Const(n % 256)
<1> DEFINE s == BigEndian(n, w)
           f == [i \in 1..Len(s) |-> s[(Len(s) - i) + 1]]
           g == [i \in 1..w |-> Const((n \div 256^(w - i)) % 256)]
<1>1. w \in Nat \ {0} /\ w + w = MacLen
  BY AeadAssumption
<1>2. IsStr(s) /\ Len(s) = w
  BY <1>1, BigEndianIs
<1>3. LittleEndian(n) = f
  BY DEF LittleEndian, Reverse
<1>4. s = g
  BY DEF BigEndian
<1>5. w \in 1..w /\ w - w = 0
  BY <1>1
<1>6. g[w] = Const(n % 256)
  <2>1. g[w] = Const((n \div 256^(w - w)) % 256)
    BY <1>5
  <2>2. 256^0 = 1
    OBVIOUS
  <2>3. 256^(w - w) = 1
    BY <1>5, <2>2
  <2>4. n \div 1 = n
    OBVIOUS
  <2> HIDE DEF g
  <2> QED
    BY <2>1, <2>3, <2>4
<1>7. s[w] = Const(n % 256)
  BY <1>4, <1>6
<1> HIDE DEF s, g
<1>8. f = [i \in 1..w |-> s[(w - i) + 1]]
  BY <1>2
<1> HIDE DEF f
<1>9. IsStr(f) /\ Len(f) = w
  <2>1. f = [i \in 1..w |-> f[i]]
    BY <1>8
  <2> QED
    BY <1>1, <2>1, FunctionIsStr
<1>10. f[1] = s[w]
  <2>1. (w - 1) + 1 = w /\ 1 \in 1..w
    BY <1>1
  <2>2. f[1] = s[(w - 1) + 1]
    BY <1>8, <2>1
  <2> QED
    BY <2>1, <2>2
<1> QED
  BY <1>1, <1>3, <1>7, <1>9, <1>10

\* What is where in it: the data, the text from la on, the size of the data.
UpTo(n) == n + gap(n, MacLen)
CoveredOf(v, ad, text, la, lt) ==
    /\ IsStr(v) /\ Len(v) = la + lt + MacLen /\ la \in Nat /\ lt \in Nat
    /\ Len(ad) \in 0..la /\ Len(text) \in 0..lt
    /\ \A i \in 1..Len(ad) : v[i] = ad[i]
    /\ \A i \in 1..Len(text) : v[la + i] = text[i]
    /\ v[la + lt + 1] = Const(Len(ad) % 256)
    /\ \E k \in Nat : Len(v) = k * MacLen

LEMMA CoveredIs ==
    ASSUME NEW ad, IsStr(ad), NEW text, IsStr(text),
           NEW la, la = UpTo(Len(ad)), NEW lt, lt = UpTo(Len(text))
    PROVE  CoveredOf(Covered(ad, text), ad, text, la, lt)
<1> DEFINE a == FilledUp(ad)
           t == FilledUp(text)
           x == LittleEndian(Len(ad))
           y == LittleEndian(Len(text))
           w == MacLen \div 2
           at == a \o t
           ax == at \o x
           v == ax \o y
           m == Len(ad)
           n == Len(text)
<1>1. /\ m \in Nat /\ gap(m, MacLen) \in Nat /\ MacLen \in Nat \ {0}
      /\ CatOf(a, ad, Zeros(gap(m, MacLen)), m, gap(m, MacLen))
      /\ \E k \in Nat : Len(a) = k * MacLen
  BY FilledUpIs
<1>2. /\ n \in Nat /\ gap(n, MacLen) \in Nat
      /\ CatOf(t, text, Zeros(gap(n, MacLen)), n, gap(n, MacLen))
      /\ \E k \in Nat : Len(t) = k * MacLen
  BY FilledUpIs
<1>3. IsStr(x) /\ Len(x) = w /\ w \in Nat \ {0} /\ w + w = MacLen /\ x[1] = Const(m % 256)
  BY <1>1, LittleEndianIs
<1>4. IsStr(y) /\ Len(y) = w
  BY <1>2, LittleEndianIs
<1>5. Covered(ad, text) = v
  BY DEF Covered
<1> HIDE DEF a, t, x, y, w, m, n
<1>6. /\ IsStr(a) /\ Len(a) = la /\ \A i \in 1..m : a[i] = ad[i]
      /\ la \in Nat /\ m \in 0..la
  BY <1>1 DEF CatOf, UpTo, m
<1>7. /\ IsStr(t) /\ Len(t) = lt /\ \A i \in 1..n : t[i] = text[i]
      /\ lt \in Nat /\ n \in 0..lt
  BY <1>2 DEF CatOf, UpTo, n
<1>8. CatOf(at, a, t, la, lt)
  BY ONLY <1>6, <1>7, CatIs
<1>9. IsStr(at) /\ Len(at) = la + lt
  BY <1>8 DEF CatOf
<1> HIDE DEF at
<1>10. CatOf(ax, at, x, la + lt, w)
  BY ONLY <1>3, <1>9, CatIs
<1>11. IsStr(ax) /\ Len(ax) = la + lt + w
  BY <1>10 DEF CatOf
<1> HIDE DEF ax
<1>12. CatOf(v, ax, y, la + lt + w, w)
  BY ONLY <1>4, <1>11, CatIs
<1> HIDE DEF v
<1>13. IsStr(v) /\ Len(v) = la + lt + MacLen
  <2>1. Len(v) = (la + lt + w) + w /\ IsStr(v)
    BY <1>12 DEF CatOf
  <2> QED
    BY ONLY <1>3, <1>6, <1>7, <2>1
<1>14. \A i \in 1..(la + lt) : v[i] = at[i]
  <2> SUFFICES ASSUME NEW i \in 1..(la + lt) PROVE v[i] = at[i]
    OBVIOUS
  <2>1. i \in 1..(la + lt + w)
    BY <1>3, <1>6, <1>7
  <2>2. v[i] = ax[i]
    BY <1>12, <2>1 DEF CatOf
  <2>3. ax[i] = at[i]
    BY <1>10 DEF CatOf
  <2> QED
    BY <2>2, <2>3
<1>15. \A i \in 1..m : v[i] = ad[i]
  <2> SUFFICES ASSUME NEW i \in 1..m PROVE v[i] = ad[i]
    OBVIOUS
  <2>1. i \in 1..la /\ i \in 1..(la + lt)
    BY <1>1, <1>6, <1>7
  <2>2. at[i] = a[i]
    BY <1>8, <2>1 DEF CatOf
  <2>3. v[i] = at[i] /\ a[i] = ad[i]
    BY <1>6, <1>14, <2>1
  <2> QED
    BY <2>2, <2>3
<1>16. \A i \in 1..n : v[la + i] = text[i]
  <2> SUFFICES ASSUME NEW i \in 1..n PROVE v[la + i] = text[i]
    OBVIOUS
  <2>1. i \in 1..lt /\ la + i \in 1..(la + lt)
    BY <1>2, <1>6, <1>7
  <2>2. at[la + i] = t[i]
    BY <1>8, <2>1 DEF CatOf
  <2>3. v[la + i] = at[la + i] /\ t[i] = text[i]
    BY <1>7, <1>14, <2>1
  <2> QED
    BY <2>2, <2>3
<1>17. v[la + lt + 1] = Const(m % 256)
  <2>1. 1 \in 1..w /\ la + lt + 1 \in 1..(la + lt + w)
    BY <1>3, <1>6, <1>7
  <2>2. ax[(la + lt) + 1] = x[1]
    BY <1>10, <2>1 DEF CatOf
  <2>3. v[la + lt + 1] = ax[la + lt + 1]
    BY <1>12, <2>1 DEF CatOf
  <2> QED
    BY <1>3, <2>2, <2>3
<1>18. \E k \in Nat : Len(v) = k * MacLen
  <2>1. PICK i \in Nat : la = i * MacLen
    BY <1>1, <1>6
  <2>2. PICK j \in Nat : lt = j * MacLen
    BY <1>2, <1>7
  <2>3. (i + j) + 1 \in Nat
    OBVIOUS
  <2>4. ((i + j) + 1) * MacLen = i * MacLen + j * MacLen + MacLen
    BY <1>1
  <2>5. Len(v) = ((i + j) + 1) * MacLen
    BY ONLY <1>13, <2>1, <2>2, <2>4
  <2> QED
    BY <2>3, <2>5
<1>19. CoveredOf(v, ad, text, la, lt)
  BY <1>6, <1>7, <1>13, <1>15, <1>16, <1>17, <1>18 DEF CoveredOf, m, n
<1> QED
  BY <1>5, <1>19

\* The tag of what is sealed.
LEMMA LockIs ==
    ASSUME NEW key, NEW ad, IsStr(ad), NEW text, IsStr(text)
    PROVE  lock_auth(key, ad, text) = MacOf(key, Covered(ad, text))
<1> DEFINE za == Zeros(gap(Len(ad), MacLen))
           zt == Zeros(gap(Len(text), MacLen))
           x == LittleEndian(Len(ad))
           y == LittleEndian(Len(text))
           a == FilledUp(ad)
           t == FilledUp(text)
           at == a \o t
           xy == x \o y
           ctx == FoldLeft(poly1305_update, poly1305_init(key), <<ad, za, text, zt, xy>>)
<1>1. Len(ad) \in Nat /\ IsStr(za) /\ a = ad \o za /\ IsStr(a)
  BY FilledUpIs DEF CatOf
<1>2. Len(text) \in Nat /\ IsStr(zt) /\ t = text \o zt /\ IsStr(t)
  BY FilledUpIs DEF CatOf
<1>3. IsStr(x) /\ IsStr(y)
  BY <1>1, <1>2, LittleEndianIs
<1>4. lock_auth(key, ad, text) = poly1305_final(ctx)
  BY DEF lock_auth
<1>5. Covered(ad, text) = (at \o x) \o y
  BY DEF Covered
<1> HIDE DEF za, zt, x, y, a, t
<1>6. IsStr(xy)
  BY <1>3, StrCat
<1> HIDE DEF xy
<1>7. Macs(ctx, key, (((ad \o za) \o text) \o zt) \o xy)
  BY <1>1, <1>2, <1>6, FiveMacs
<1>8. IsStr(at)
  BY <1>1, <1>2, StrCat
<1>9. ((ad \o za) \o text) \o zt = at
  <2>1. (a \o text) \o zt = a \o (text \o zt)
    BY <1>1, <1>2, StrAssoc
  <2> QED
    BY <1>1, <1>2, <2>1 DEF at
<1> HIDE DEF at
<1>10. (at \o x) \o y = at \o xy
  <2>1. (at \o x) \o y = at \o (x \o y)
    BY <1>3, <1>8, StrAssoc
  <2> QED
    BY <2>1 DEF xy
<1>11. Macs(ctx, key, Covered(ad, text))
  BY ONLY <1>5, <1>7, <1>9, <1>10
<1> HIDE DEF ctx
<1>12. CoveredOf(Covered(ad, text), ad, text, UpTo(Len(ad)), UpTo(Len(text)))
  BY CoveredIs
<1>13. PICK k \in Nat : Len(Covered(ad, text)) = k * MacLen
  BY <1>12 DEF CoveredOf
<1>14. poly1305_final(ctx) = MacOf(key, Covered(ad, text))
  BY ONLY <1>11, <1>13, FinalTags
<1> QED
  BY <1>4, <1>14

-----------------------------------------------------------------------------
(* chacha20poly1305.c: the cipher and the keys.                            *)

\* The high word of the counter does not wrap within t bytes.
NoWrap(top, t) ==
    /\ top \in Nat /\ t \in Nat
    /\ top + (1 + t \div (2 * CipherKey)) \div WordVals < WordVals

LEMMA QuotientsGrow ==
    ASSUME NEW S \in Nat \ {0}, NEW a \in Nat, NEW b \in Nat, a <= b
    PROVE  a \div S <= b \div S /\ a \div S \in Nat /\ b \div S \in Nat
<1> DEFINE x == a \div S
           y == b \div S
<1>1. /\ x \in Nat /\ x * S <= a /\ a < x * S + S
      /\ y \in Nat /\ y * S <= b /\ b < y * S + S
  BY Quotient
<1> HIDE DEF x, y
<1>2. ASSUME y < x PROVE FALSE
  <2>1. (y + 1) * S <= x * S /\ (y + 1) * S = y * S + S /\ x * S \in Nat /\ y * S \in Nat
    BY <1>1, <1>2, Multiples
  <2> DEFINE p == x * S
             q == y * S
             e == (y + 1) * S
  <2>2. e <= p /\ e = q + S /\ p \in Nat /\ q \in Nat /\ p <= a /\ b < q + S
    BY <1>1, <2>1
  <2> HIDE DEF p, q, e
  <2> QED
    BY ONLY <2>2, a <= b, a \in Nat, b \in Nat, S \in Nat \ {0}
<1> QED
  BY <1>1, <1>2 DEF x, y

LEMMA Counts ==
    ASSUME NEW top, NEW t, NoWrap(top, t), NEW j \in Nat, j <= t \div (2 * CipherKey)
    PROVE  /\ Counted(Counted(<<0, top>>, 1), j) =
                <<(1 + j) % WordVals, top + (1 + j) \div WordVals>>
           /\ Counted(<<0, top>>, 0) = <<0 % WordVals, top + 0 \div WordVals>>
<1> DEFINE W == WordVals
           size == 2 * CipherKey
           n == t \div size
           x == (1 + n) \div W
           y == (1 + j) \div W
<1>1. W \in Nat \ {0} /\ size \in Nat \ {0}
  BY AeadAssumption
<1>2. top \in Nat /\ t \in Nat /\ top + x < W
  BY DEF NoWrap
<1>3. n \in Nat
  BY <1>1, <1>2, Quotient
<1>4. j <= n
  OBVIOUS
<1> HIDE DEF n, size
<1>5. y <= x /\ x \in Nat /\ y \in Nat
  <2>1. 1 + j <= 1 + n /\ 1 + j \in Nat /\ 1 + n \in Nat
    BY <1>3, <1>4
  <2> QED
    BY <1>1, <2>1, QuotientsGrow
<1>6. W > 1
  <2> SUFFICES ASSUME W = 1 PROVE FALSE
    BY <1>1
  <2>1. x = 1 + n
    <3>1. (1 + n) \div 1 = 1 + n
      BY <1>3
    <3> QED
      BY <3>1
  <2> HIDE DEF x, W
  <2> QED
    BY <1>2, <1>3, <2>1
<1> HIDE DEF x, y
<1>7. top < W /\ top + y < W /\ top + y \in Nat
  BY <1>1, <1>2, <1>5
<1>8. /\ 1 % W = 1 /\ 1 \div W = 0 /\ 0 % W = 0 /\ 0 \div W = 0
      /\ top % W = top /\ (top + y) % W = top + y
  <2>1. 1 % W = 1 /\ 1 \div W = 0 /\ 0 % W = 0 /\ 0 \div W = 0
    <3> HIDE DEF W
    <3> QED
      BY <1>1, <1>6
  <2>2. \A v \in 0..(W - 1) : v % W = v
    <3> HIDE DEF W
    <3> QED
      BY <1>1
  <2>3. top \in 0..(W - 1) /\ top + y \in 0..(W - 1)
    <3> HIDE DEF W
    <3> QED
      BY <1>1, <1>2, <1>7
  <2> QED
    BY <2>1, <2>2, <2>3
<1>9. Counted(<<0, top>>, 1) = <<1, top>>
  <2>1. Counted(<<0, top>>, 1) = <<(0 + 1) % W, (top + (0 + 1) \div W) % W>>
    BY DEF Counted
  <2>2. 0 + 1 = 1 /\ top + 0 = top
    BY <1>2
  <2> QED
    BY <1>8, <2>1, <2>2
<1>10. Counted(<<1, top>>, j) = <<(1 + j) % W, (top + y) % W>>
  BY DEF Counted, y
<1>11. Counted(<<0, top>>, 0) = <<0 % W, (top + 0 \div W) % W>>
  <2>1. Counted(<<0, top>>, 0) = <<(0 + 0) % W, (top + (0 + 0) \div W) % W>>
    BY DEF Counted
  <2>2. 0 + 0 = 0
    OBVIOUS
  <2> QED
    BY <2>1, <2>2
<1>12. top + 0 = top
  BY <1>2
<1> QED
  BY <1>8, <1>9, <1>10, <1>11, <1>12 DEF y

\* The cipher and the first key of RFC 8439.
CipherOf(key, nonce, text) ==
    [k \in DOMAIN text |->
       XorByte(text[k], {StreamByte(key, nonce, 1 + (k - 1) \div (2 * CipherKey),
                                    ((k - 1) % (2 * CipherKey)) + 1)})]
MacKey(key, nonce) == [i \in 1..CipherKey |-> {StreamByte(key, nonce, 0, i)}]

LEMMA CipherIs ==
    ASSUME NEW key, NEW nonce, NEW text, IsStr(text), NoWrap(nonce[1], Len(text)),
           NEW ctx, ctx = chacha20poly1305init(key, nonce)
    PROVE  chacha20_djb(text, ctx.key, ctx.nonce, Counted(ctx.counter, 1))
             = CipherOf(key, nonce, text)
<1> DEFINE size == 2 * CipherKey
           top == nonce[1]
           two == <<nonce[2], nonce[3]>>
           c == Counted(<<0, top>>, 1)
           n == Len(text)
           f == [k \in DOMAIN text |->
                   XorByte(text[k], StreamBlock(key, two, Counted(c, (k - 1) \div size))
                                      [((k - 1) % size) + 1])]
           g == CipherOf(key, nonce, text)
<1>1. size \in Nat \ {0}
  BY AeadAssumption
<1>2. ctx.key = key /\ ctx.nonce = two /\ ctx.counter = <<0, top>>
  BY DEF chacha20poly1305init
<1>3. chacha20_djb(text, key, two, c) = f
  BY DEF chacha20_djb
<1>4. n \in Nat /\ DOMAIN text = 1..n
  BY StrIs
<1>5. ASSUME NEW k \in DOMAIN text PROVE f[k] = g[k]
  <2> DEFINE j == (k - 1) \div size
             r == (k - 1) % size
             i == r + 1
             ctr == Counted(c, j)
  <2>1. k \in 1..n /\ k - 1 \in Nat /\ k - 1 <= n
    BY <1>4
  <2>2. j \in Nat /\ j <= n \div size
    BY <1>1, <1>4, <2>1, QuotientsGrow
  <2>3. i \in 1..size
    <3>1. r \in 0..(size - 1)
      BY <1>1, <2>1
    <3> HIDE DEF r
    <3> QED
      BY <1>1, <3>1
  <2>4. f[k] = XorByte(text[k], StreamBlock(key, two, ctr)[i])
    OBVIOUS
  <2>5. g[k] = XorByte(text[k], {StreamByte(key, nonce, 1 + j, i)})
    BY DEF CipherOf
  <2> HIDE DEF f, g
  <2>6. ctr = <<(1 + j) % WordVals, top + (1 + j) \div WordVals>>
    BY <2>2, Counts
  <2> HIDE DEF ctr, j, i, r
  <2>7. StreamBlock(key, two, ctr)[i] = {<<"stream", <<key, ctr, two>>, i>>}
    BY <2>3 DEF StreamBlock
  <2>8. StreamByte(key, nonce, 1 + j, i) = <<"stream", <<key, ctr, two>>, i>>
    BY <2>6 DEF StreamByte
  <2> QED
    BY <2>4, <2>5, <2>7, <2>8
<1>6. f = [k \in DOMAIN text |-> f[k]] /\ g = [k \in DOMAIN text |-> g[k]]
  BY DEF CipherOf
<1> HIDE DEF f, g
<1>7. f = g
  BY <1>5, <1>6
<1> QED
  BY <1>2, <1>3, <1>7 DEF g

LEMMA CipherStr ==
    ASSUME NEW key, NEW nonce, NEW text, IsStr(text)
    PROVE  /\ IsStr(CipherOf(key, nonce, text)) /\ Len(CipherOf(key, nonce, text)) = Len(text)
           /\ DOMAIN CipherOf(key, nonce, text) = 1..Len(text) /\ Len(text) \in Nat
           /\ DOMAIN text = 1..Len(text)
           /\ \A k \in 1..Len(text) :
                CipherOf(key, nonce, text)[k] =
                  XorByte(text[k], {StreamByte(key, nonce, 1 + (k - 1) \div (2 * CipherKey),
                                               ((k - 1) % (2 * CipherKey)) + 1)})
<1> DEFINE f == CipherOf(key, nonce, text)
           n == Len(text)
<1>1. n \in Nat /\ DOMAIN text = 1..n
  BY StrIs
<1>2. /\ f = [k \in 1..n |-> f[k]] /\ DOMAIN f = 1..n
      /\ \A k \in 1..n :
           f[k] = XorByte(text[k], {StreamByte(key, nonce, 1 + (k - 1) \div (2 * CipherKey),
                                               ((k - 1) % (2 * CipherKey)) + 1)})
  BY <1>1 DEF CipherOf
<1>3. IsStr(f) /\ Len(f) = n
  <2> HIDE DEF f
  <2> QED
    BY <1>1, <1>2, FunctionIsStr
<1> QED
  BY <1>1, <1>2, <1>3

LEMMA KeysAre ==
    ASSUME NEW key, NEW nonce, NEW t, NoWrap(nonce[1], t),
           NEW ctx, ctx = chacha20poly1305init(key, nonce)
    PROVE  /\ AuthKey(ctx) = MacKey(key, nonce)
           /\ Rekeyed(ctx) = chacha20poly1305init(NextKey(key, nonce), nonce)
<1> DEFINE half == CipherKey
           size == 2 * half
           top == nonce[1]
           two == <<nonce[2], nonce[3]>>
           z == Zeros(size)
           ctr == Counted(<<0, top>>, 0)
           f == [k \in DOMAIN z |->
                   XorByte(z[k], StreamBlock(key, two, Counted(<<0, top>>, (k - 1) \div size))
                                   [((k - 1) % size) + 1])]
<1>1. half \in Nat \ {0} /\ size \in Nat \ {0} /\ size = half + half
  BY AeadAssumption
<1>2. ctx = [key |-> key, nonce |-> two, counter |-> <<0, top>>]
  BY DEF chacha20poly1305init
<1>3. ctx.key = key /\ ctx.nonce = two /\ ctx.counter = <<0, top>>
  BY <1>2
<1>4. Keystream(ctx) = f
  <2>1. Keystream(ctx) = chacha20_djb(Zeros(2 * CipherKey), key, two, <<0, top>>)
    BY <1>3 DEF Keystream
  <2> QED
    BY <2>1 DEF chacha20_djb
<1>5. IsStr(z) /\ Len(z) = size /\ DOMAIN z = 1..size /\ \A k \in 1..size : z[k] = {}
  <2>1. IsStr(z) /\ Len(z) = size /\ \A k \in 1..size : z[k] = {}
    BY <1>1, RepeatIs DEF Zeros
  <2> HIDE DEF z
  <2> QED
    BY <2>1, StrIs
<1>6. ctr = <<0 % WordVals, top + 0 \div WordVals>>
  <2>1. 0 \in Nat /\ 0 <= t \div (2 * CipherKey)
    <3>1. t \in Nat
      BY DEF NoWrap
    <3> QED
      BY <1>1, <3>1, Quotient
  <2> QED
    BY <2>1, Counts
<1>7. ASSUME NEW k \in 1..size PROVE f[k] = {StreamByte(key, nonce, 0, k)}
  <2>1. (k - 1) \div size = 0 /\ (k - 1) % size = k - 1
    <3>1. k - 1 \in 0..(size - 1)
      BY <1>1
    <3> QED
      BY <1>1, <3>1
  <2>2. (k - 1) + 1 = k
    OBVIOUS
  <2>3. f[k] = XorByte(z[k], StreamBlock(key, two, Counted(<<0, top>>, (k - 1) \div size))
                                         [((k - 1) % size) + 1])
    BY <1>5
  <2>4. f[k] = XorByte({}, StreamBlock(key, two, ctr)[k])
    BY <1>5, <2>1, <2>2, <2>3
  <2> HIDE DEF f, ctr
  <2>5. StreamBlock(key, two, ctr)[k] = {<<"stream", <<key, ctr, two>>, k>>}
    BY DEF StreamBlock
  <2>6. StreamByte(key, nonce, 0, k) = <<"stream", <<key, ctr, two>>, k>>
    BY <1>6 DEF StreamByte
  <2>7. \A x : XorByte({}, x) = x
    BY DEF XorByte
  <2> QED
    BY <2>4, <2>5, <2>6, <2>7
<1>8. IsStr(f) /\ Len(f) = size
  <2>1. f = [k \in 1..size |-> f[k]]
    BY <1>5
  <2> HIDE DEF f
  <2> QED
    BY <1>1, <2>1, FunctionIsStr
<1> HIDE DEF f
<1>9. SubSeq(f, 1, half) = MacKey(key, nonce)
  <2> DEFINE a == SubSeq(f, 1, half)
             b == MacKey(key, nonce)
  <2>1. IsStr(a) /\ Len(a) = half /\ \A i \in 1..half : a[i] = f[i]
    BY <1>1, <1>8, StrFirst
  <2>2. b = [i \in 1..half |-> b[i]] /\ \A i \in 1..half : b[i] = {StreamByte(key, nonce, 0, i)}
    BY DEF MacKey
  <2> HIDE DEF a, b
  <2>3. IsStr(b) /\ Len(b) = half
    BY <1>1, <2>2, FunctionIsStr
  <2>4. \A i \in 1..half : a[i] = b[i]
    <3> SUFFICES ASSUME NEW i \in 1..half PROVE a[i] = b[i]
      OBVIOUS
    <3>1. i \in 1..size
      BY <1>1
    <3> QED
      BY <1>7, <2>1, <2>2, <3>1
  <2>5. a = b
    BY <2>1, <2>3, <2>4, StrEqual
  <2> QED
    BY <2>5 DEF a, b
<1>10. SubSeq(f, half + 1, size) = NextKey(key, nonce)
  <2> DEFINE a == SubSeq(f, half + 1, half + half)
             b == NextKey(key, nonce)
  <2>1. PartOf(a, f, half, half)
    <3>1. half \in Nat /\ half + half <= Len(f)
      BY <1>1, <1>8
    <3> QED
      BY <1>8, <3>1, PartIs
  <2>2. b = [i \in 1..half |-> b[i]] /\ \A i \in 1..half : b[i] = {StreamByte(key, nonce, 0, half + i)}
    BY DEF NextKey
  <2> HIDE DEF a, b
  <2>3. IsStr(b) /\ Len(b) = half
    BY <1>1, <2>2, FunctionIsStr
  <2>4. \A i \in 1..half : a[i] = b[i]
    <3> SUFFICES ASSUME NEW i \in 1..half PROVE a[i] = b[i]
      OBVIOUS
    <3>1. half + i \in 1..size
      BY <1>1
    <3>2. a[i] = f[half + i]
      BY <2>1 DEF PartOf
    <3> QED
      BY <1>7, <2>2, <3>1, <3>2
  <2>5. a = b
    BY <2>1, <2>3, <2>4, StrEqual DEF PartOf
  <2>6. a = SubSeq(f, half + 1, size)
    BY <1>1 DEF a
  <2> QED
    BY <2>5, <2>6 DEF b
<1>11. AuthKey(ctx) = MacKey(key, nonce)
  BY <1>4, <1>9 DEF AuthKey
<1>12. Rekeyed(ctx) = [ctx EXCEPT !.key = NextKey(key, nonce)]
  BY <1>4, <1>10 DEF Rekeyed
<1>13. Rekeyed(ctx) = [key |-> NextKey(key, nonce), nonce |-> two, counter |-> <<0, top>>]
  BY <1>2, <1>12
<1> QED
  BY <1>11, <1>13 DEF chacha20poly1305init

LEMMA PairBlocks ==
    ASSUME NEW m, IsStr(m)
    PROVE  Pairs(AllBlocks(m, MacLen))
             = [i \in 1 .. Len(m) \div MacLen |->
                  <<SubSeq(m, (i - 1) * MacLen + 1, i * MacLen), 1>>]
<1> DEFINE n == Len(m) \div MacLen
           f == AllBlocks(m, MacLen)
<1>1. n \in Nat
  BY StrIs, AeadAssumption, Quotient
<1>2. f = [i \in 1..n |-> SubSeq(m, (i - 1) * MacLen + 1, i * MacLen)]
  BY DEF AllBlocks
<1> HIDE DEF n, f
<1>3. Len(f) = n
  <2>1. f = [i \in 1..n |-> f[i]]
    BY <1>2
  <2> QED
    BY <1>1, <2>1, FunctionIsStr
<1>4. Pairs(f) = [i \in 1..n |-> <<f[i], 1>>]
  BY <1>3 DEF Pairs
<1>5. \A i \in 1..n : f[i] = SubSeq(m, (i - 1) * MacLen + 1, i * MacLen)
  BY <1>2
<1>6. Pairs(f) = [i \in 1..n |-> <<SubSeq(m, (i - 1) * MacLen + 1, i * MacLen), 1>>]
  BY <1>4, <1>5
<1> QED
  BY <1>6 DEF n, f

LEMMA SealedIs ==
    ASSUME NEW key, NEW nonce, NEW ad, IsStr(ad), NEW text, IsStr(text)
    PROVE  Sealed(key, nonce, ad, text)
             = CipherOf(key, nonce, text)
               \o MacOf(MacKey(key, nonce), Covered(ad, CipherOf(key, nonce, text)))
<1> DEFINE c == CipherOf(key, nonce, text)
           v == FilledUp(ad) \o FilledUp(c) \o LittleEndian(Len(ad)) \o LittleEndian(Len(text))
           b == [i \in 1 .. Len(v) \div MacLen |->
                   <<SubSeq(v, (i - 1) * MacLen + 1, i * MacLen), 1>>]
<1>1. Sealed(key, nonce, ad, text)
        = c \o [i \in 1..MacLen |-> {<<"tag", <<MacKey(key, nonce), b>>, i>>}]
  BY DEF Sealed, CipherOf, FilledUp, MacKey
<1>2. IsStr(c) /\ Len(c) = Len(text)
  BY CipherStr
<1> HIDE DEF c
<1>3. v = Covered(ad, c)
  BY <1>2 DEF Covered
<1> HIDE DEF v
<1>4. IsStr(v)
  BY <1>2, <1>3, CoveredIs DEF CoveredOf
<1>5. Pairs(AllBlocks(v, MacLen)) = b
  BY <1>4, PairBlocks
<1> HIDE DEF b
<1>6. MacOf(MacKey(key, nonce), v) = [i \in 1..MacLen |-> {<<"tag", <<MacKey(key, nonce), b>>, i>>}]
  BY <1>5 DEF MacOf, TagOf
<1> QED
  BY <1>1, <1>3, <1>6 DEF c

\* A writer's context stays one: the next text is sealed under the next key.
LEMMA WriteIs ==
    ASSUME NEW key, NEW nonce, NEW ad, IsStr(ad), NEW text, IsStr(text),
           NoWrap(nonce[1], Len(text))
    PROVE  chacha20poly1305write(chacha20poly1305init(key, nonce), ad, text)
             = [out |-> Sealed(key, nonce, ad, text),
                ctx |-> chacha20poly1305init(NextKey(key, nonce), nonce)]
<1> DEFINE ctx == chacha20poly1305init(key, nonce)
           c == CipherOf(key, nonce, text)
           next == chacha20poly1305init(NextKey(key, nonce), nonce)
<1>1. AuthKey(ctx) = MacKey(key, nonce) /\ Rekeyed(ctx) = next
  BY KeysAre
<1>2. chacha20_djb(text, ctx.key, ctx.nonce, Counted(ctx.counter, 1)) = c
  BY CipherIs
<1> HIDE DEF ctx, next
<1>3. chacha20poly1305write(ctx, ad, text) = [out |-> c \o lock_auth(AuthKey(ctx), ad, c), ctx |-> Rekeyed(ctx)]
  BY <1>2 DEF chacha20poly1305write
<1>4. IsStr(c)
  BY CipherStr
<1> HIDE DEF c
<1>5. lock_auth(AuthKey(ctx), ad, c) = MacOf(MacKey(key, nonce), Covered(ad, c))
  BY <1>1, <1>4, LockIs
<1>6. Sealed(key, nonce, ad, text) = c \o MacOf(MacKey(key, nonce), Covered(ad, c))
  BY SealedIs DEF c
<1> QED
  BY <1>1, <1>3, <1>5, <1>6 DEF ctx, next

-----------------------------------------------------------------------------
(* What the reader accepts.                                                *)

Opens(key, nonce, ad, in) ==
    LET n == Len(in) - MacLen
    IN n >= 0 /\ SubSeq(in, n + 1, Len(in))
                   = MacOf(MacKey(key, nonce), Covered(ad, SubSeq(in, 1, n)))
Refused(ctx) == [mismatch |-> TRUE, out |-> <<>>, ctx |-> ctx]
Opened(key, nonce, text) ==
    [mismatch |-> FALSE, out |-> CipherOf(key, nonce, text),
     ctx |-> chacha20poly1305init(NextKey(key, nonce), nonce)]

ReadTo(r, ctx, key, nonce, ad, in, n) ==
    /\ ~Opens(key, nonce, ad, in) => r = Refused(ctx)
    /\ Opens(key, nonce, ad, in) /\ NoWrap(nonce[1], n) => r = Opened(key, nonce, SubSeq(in, 1, n))

LEMMA ReadIs ==
    ASSUME NEW key, NEW nonce, NEW t, NoWrap(nonce[1], t),
           NEW ctx, ctx = chacha20poly1305init(key, nonce),
           NEW ad, IsStr(ad), NEW in, IsStr(in), NEW n, n = Len(in) - MacLen
    PROVE  ReadTo(chacha20poly1305read(ctx, ad, in), ctx, key, nonce, ad, in, n)
<1> DEFINE text == SubSeq(in, 1, n)
           tag == SubSeq(in, n + 1, Len(in))
           mac == MacOf(MacKey(key, nonce), Covered(ad, text))
           lock == lock_auth(AuthKey(ctx), ad, text)
           out == chacha20_djb(text, ctx.key, ctx.nonce, Counted(ctx.counter, 1))
<1>1. MacLen \in Nat \ {0} /\ Len(in) \in Nat /\ n \in Int
  BY AeadAssumption, StrIs
<1>2. AuthKey(ctx) = MacKey(key, nonce) /\ Rekeyed(ctx) = chacha20poly1305init(NextKey(key, nonce), nonce)
  BY KeysAre
<1>3. chacha20poly1305read(ctx, ad, in) =
        IF n < 0 \/ tag # lock THEN [mismatch |-> TRUE, out |-> <<>>, ctx |-> ctx]
        ELSE [mismatch |-> FALSE, out |-> out, ctx |-> Rekeyed(ctx)]
  BY DEF chacha20poly1305read
<1>4. Opens(key, nonce, ad, in) <=> n >= 0 /\ tag = mac
  BY DEF Opens
<1>5. n >= 0 => IsStr(text) /\ Len(text) = n
  <2> SUFFICES ASSUME n >= 0 PROVE IsStr(text) /\ Len(text) = n
    OBVIOUS
  <2>1. n \in Nat /\ n <= Len(in)
    BY <1>1
  <2> QED
    BY <2>1, StrFirst
<1> HIDE DEF text, tag
<1>6. n >= 0 => lock = mac
  BY <1>2, <1>5, LockIs
<1>7. n >= 0 /\ NoWrap(nonce[1], n) => out = CipherOf(key, nonce, text)
  BY <1>5, CipherIs
<1> HIDE DEF lock, mac, out
<1>8. n < 0 <=> ~(n >= 0)
  BY <1>1
<1> QED
  BY <1>2, <1>3, <1>4, <1>6, <1>7, <1>8 DEF ReadTo, Refused, Opened, text

\* A string is its blocks.
LEMMA BlocksTell ==
    ASSUME NEW S \in Nat \ {0}, NEW v, IsStr(v), NEW w, IsStr(w), NEW k \in Nat,
           Len(v) = k * S, Len(w) = k * S,
           \A i \in 1..k : BlockOf(v, S, i) = BlockOf(w, S, i)
    PROVE  v = w
<1> DEFINE l == k * S
<1>1. l \in Nat
  BY Multiples
<1>2. ASSUME NEW p \in 1..l PROVE v[p] = w[p]
  <2> DEFINE j == (p - 1) \div S
             i == j + 1
             a == (i - 1) * S
             c == j * S
             o == p - a
  <2>1. p - 1 \in Nat /\ p - 1 < l
    BY <1>1
  <2>2. j \in Nat /\ c <= p - 1 /\ p - 1 < c + S
    BY <2>1, Quotient
  <2> HIDE DEF j
  <2>3. c \in Nat /\ a = c
    <3>1. i - 1 = j
      BY <2>2
    <3> QED
      BY <2>2, <3>1, Multiples
  <2>4. j < k
    <3>1. k <= j => l <= c
      BY <2>2, Multiples
    <3> HIDE DEF l, c
    <3> QED
      BY <1>1, <2>1, <2>2, <2>3, <3>1
  <2>5. i \in 1..k /\ i \in Nat \ {0}
    BY <2>2, <2>4
  <2>6. i * S <= l
    BY <2>2, <2>4, Multiples
  <2> HIDE DEF l, c
  <2>7. o \in 1..S /\ a + o = p /\ a \in Nat
    <3> HIDE DEF a
    <3> QED
      BY ONLY <1>1, <2>1, <2>2, <2>3, p \in 1..l, S \in Nat \ {0} DEF o
  <2> HIDE DEF o
  <2>8. Len(v) = l /\ Len(w) = l
    BY DEF l
  <2>9. i * S <= Len(v) /\ i * S <= Len(w)
    BY <2>6, <2>8
  <2>10. PartOf(BlockOf(v, S, i), v, a, S) /\ PartOf(BlockOf(w, S, i), w, a, S)
    BY <2>5, <2>9, BlockIs
  <2> HIDE DEF a, i
  <2>11. BlockOf(v, S, i)[o] = v[p] /\ BlockOf(w, S, i)[o] = w[p]
    BY <2>7, <2>10 DEF PartOf
  <2> QED
    BY <2>5, <2>11
<1>3. Len(v) = l /\ Len(w) = l
  OBVIOUS
<1> HIDE DEF l
<1> QED
  BY <1>2, <1>3, StrEqual

\* A tag tells the key and what it covers.
LEMMA TagTells ==
    ASSUME NEW x, NEW y, NEW v, IsStr(v), NEW w, IsStr(w),
           NEW k \in Nat, Len(v) = k * MacLen, NEW l \in Nat, Len(w) = l * MacLen,
           MacOf(x, v)[1] = MacOf(y, w)[1]
    PROVE  x = y /\ v = w
<1> DEFINE S == MacLen
           b == AllBlocks(v, S)
           c == AllBlocks(w, S)
<1>1. S \in Nat \ {0} /\ 1 \in 1..S
  BY AeadAssumption
<1>2. MacOf(x, v)[1] = {<<"tag", <<x, Pairs(b)>>, 1>>} /\ MacOf(y, w)[1] = {<<"tag", <<y, Pairs(c)>>, 1>>}
  BY <1>1, TagIs
<1>3. x = y /\ Pairs(b) = Pairs(c)
  <2> DEFINE p == Pairs(b)
             q == Pairs(c)
  <2>1. {<<"tag", <<x, p>>, 1>>} = {<<"tag", <<y, q>>, 1>>}
    BY <1>2
  <2> HIDE DEF p, q
  <2>2. <<"tag", <<x, p>>, 1>> = <<"tag", <<y, q>>, 1>>
    BY ONLY <2>1
  <2> QED
    BY <2>2 DEF p, q
<1>4. /\ IsStr(b) /\ Len(b) = k /\ \A i \in 1..k : b[i] = BlockOf(v, S, i)
      /\ IsStr(c) /\ Len(c) = l /\ \A i \in 1..l : c[i] = BlockOf(w, S, i)
  <2>1. ASSUME NEW m, NEW n \in Nat, Len(m) = n * S
        PROVE  LET a == AllBlocks(m, S)
               IN IsStr(a) /\ Len(a) = n /\ \A i \in 1..n : a[i] = BlockOf(m, S, i)
    <3> DEFINE a == AllBlocks(m, S)
    <3>1. (n * S) \div S = n
      <4> DEFINE p == n * S
      <4>1. p \in Nat /\ p = n * S + 0
        <5>1. n * S \in Nat
          BY <1>1, Multiples
        <5> QED
          BY <5>1
      <4>2. 0 \in Nat /\ 0 < S
        BY <1>1
      <4> HIDE DEF p
      <4>3. p \div S = n
        BY ONLY <1>1, <4>1, <4>2, n \in Nat, QuotientIs
      <4> QED
        BY <4>3 DEF p
    <3>2. a = [i \in 1..n |-> BlockOf(m, S, i)]
      BY <2>1, <3>1 DEF AllBlocks, BlockOf
    <3> HIDE DEF a
    <3>3. a = [i \in 1..n |-> a[i]] /\ \A i \in 1..n : a[i] = BlockOf(m, S, i)
      BY <3>2
    <3>4. IsStr(a) /\ Len(a) = n
      BY <3>3, FunctionIsStr
    <3> QED
      BY <3>3, <3>4 DEF a
  <2> QED
    BY <2>1
<1> HIDE DEF b, c
<1>5. /\ IsStr(Pairs(b)) /\ Len(Pairs(b)) = k /\ \A i \in 1..k : Pairs(b)[i] = <<b[i], 1>>
      /\ IsStr(Pairs(c)) /\ Len(Pairs(c)) = l /\ \A i \in 1..l : Pairs(c)[i] = <<c[i], 1>>
  <2>1. /\ IsStr(Pairs(b)) /\ Len(Pairs(b)) = Len(b) /\ \A i \in 1..Len(b) : Pairs(b)[i] = <<b[i], 1>>
    BY <1>4, PairsAre
  <2>2. /\ IsStr(Pairs(c)) /\ Len(Pairs(c)) = Len(c) /\ \A i \in 1..Len(c) : Pairs(c)[i] = <<c[i], 1>>
    BY <1>4, PairsAre
  <2> QED
    BY <1>4, <2>1, <2>2
<1>6. k = l
  BY <1>3, <1>5
<1>7. \A i \in 1..k : BlockOf(v, S, i) = BlockOf(w, S, i)
  <2> SUFFICES ASSUME NEW i \in 1..k PROVE BlockOf(v, S, i) = BlockOf(w, S, i)
    OBVIOUS
  <2>1. <<b[i], 1>> = <<c[i], 1>>
    BY <1>3, <1>5, <1>6
  <2>2. b[i] = c[i]
    BY ONLY <2>1
  <2> QED
    BY <1>4, <1>6, <2>2
<1>8. Len(v) = k * S /\ Len(w) = k * S
  BY <1>6
<1>9. v = w
  BY ONLY <1>1, <1>7, <1>8, k \in Nat, IsStr(v), IsStr(w), BlocksTell
<1> QED
  BY <1>3, <1>9

LEMMA XorIs ==
    ASSUME NEW x, NEW y
    PROVE  XorByte(XorByte(x, y), y) = x /\ XorByte(x, Const(1)) # x
<1>1. XorByte(XorByte(x, y), y) = x
  BY DEF XorByte
<1>2. Const(1) = {<<"const", 1, 0>>}
  BY DEF Const
<1>3. \A e : XorByte(x, {e}) # x
  BY DEF XorByte
<1> QED
  BY <1>1, <1>2, <1>3

\* A sealed text: the cipher and its tag.
SealedAs(s, c, m, n) ==
    /\ IsStr(s) /\ n \in Nat /\ MacLen \in Nat \ {0} /\ Len(s) = n + MacLen
    /\ IsStr(c) /\ Len(c) = n
    /\ \A i \in 1..n : s[i] = c[i]
    /\ \A i \in 1..MacLen : s[n + i] = m[i]
    /\ SubSeq(s, 1, n) = c /\ SubSeq(s, n + 1, Len(s)) = m

LEMMA SealedParts ==
    ASSUME NEW key, NEW nonce, NEW ad, IsStr(ad), NEW text, IsStr(text),
           NEW c, c = CipherOf(key, nonce, text),
           NEW m, m = MacOf(MacKey(key, nonce), Covered(ad, c))
    PROVE  SealedAs(Sealed(key, nonce, ad, text), c, m, Len(text))
<1> DEFINE s == c \o m
           n == Len(text)
<1>1. Sealed(key, nonce, ad, text) = s
  BY SealedIs
<1>2. IsStr(c) /\ Len(c) = n /\ n \in Nat
  BY CipherStr
<1>3. IsStr(m) /\ Len(m) = MacLen /\ MacLen \in Nat \ {0}
  BY TagIs
<1> HIDE DEF n
<1>4. CatOf(s, c, m, n, MacLen)
  BY <1>2, <1>3, CatIs
<1> HIDE DEF s
<1>5. /\ IsStr(s) /\ Len(s) = n + MacLen
      /\ \A i \in 1..n : s[i] = c[i]
      /\ \A i \in 1..MacLen : s[n + i] = m[i]
  BY <1>4 DEF CatOf
<1>6. SubSeq(s, 1, n) = c
  <2> DEFINE p == SubSeq(s, 1, n)
  <2>1. n <= Len(s)
    BY <1>2, <1>3, <1>5
  <2>2. IsStr(p) /\ Len(p) = n /\ \A i \in 1..n : p[i] = s[i]
    BY <1>2, <1>5, <2>1, StrFirst
  <2> HIDE DEF p
  <2>3. p = c
    BY <1>2, <1>5, <2>2, StrEqual
  <2> QED
    BY <2>3 DEF p
<1>7. SubSeq(s, n + 1, Len(s)) = m
  <2> DEFINE p == SubSeq(s, n + 1, n + MacLen)
  <2>1. PartOf(p, s, n, MacLen)
    <3>1. n + MacLen <= Len(s) /\ MacLen \in Nat
      BY <1>2, <1>3, <1>5
    <3> QED
      BY <1>2, <1>5, <3>1, PartIs
  <2> HIDE DEF p
  <2>2. p = m
    BY <1>3, <1>5, <2>1, StrEqual DEF PartOf
  <2> QED
    BY <1>5, <2>2 DEF p
<1>8. SealedAs(s, c, m, n)
  BY <1>2, <1>3, <1>5, <1>6, <1>7 DEF SealedAs
<1> QED
  BY <1>1, <1>8 DEF n

LEMMA SealedOpens ==
    ASSUME NEW key, NEW nonce, NEW ad, IsStr(ad), NEW text, IsStr(text),
           NEW s, s = Sealed(key, nonce, ad, text)
    PROVE  /\ Opens(key, nonce, ad, s) /\ Len(s) - MacLen = Len(text)
           /\ CipherOf(key, nonce, SubSeq(s, 1, Len(text))) = text
<1> DEFINE c == CipherOf(key, nonce, text)
           m == MacOf(MacKey(key, nonce), Covered(ad, c))
           n == Len(text)
           d == CipherOf(key, nonce, c)
<1>1. SealedAs(s, c, m, n)
  BY SealedParts
<1>2. /\ DOMAIN text = 1..n /\ n \in Nat /\ IsStr(c) /\ Len(c) = n
      /\ \A k \in 1..n :
           c[k] = XorByte(text[k], {StreamByte(key, nonce, 1 + (k - 1) \div (2 * CipherKey),
                                               ((k - 1) % (2 * CipherKey)) + 1)})
  BY CipherStr
<1> HIDE DEF c, m
<1>3. /\ IsStr(d) /\ Len(d) = n
      /\ \A k \in 1..n :
           d[k] = XorByte(c[k], {StreamByte(key, nonce, 1 + (k - 1) \div (2 * CipherKey),
                                            ((k - 1) % (2 * CipherKey)) + 1)})
  <2>1. /\ IsStr(d) /\ Len(d) = Len(c)
        /\ \A k \in 1..Len(c) :
             d[k] = XorByte(c[k], {StreamByte(key, nonce, 1 + (k - 1) \div (2 * CipherKey),
                                              ((k - 1) % (2 * CipherKey)) + 1)})
    <3>1. IsStr(c)
      BY <1>2
    <3> QED
      BY ONLY <3>1, CipherStr DEF d
  <2>2. Len(c) = n
    BY <1>2
  <2> HIDE DEF d, n
  <2> QED
    BY ONLY <2>1, <2>2
<1> HIDE DEF d
<1>4. \A k \in 1..n : d[k] = text[k]
  <2> SUFFICES ASSUME NEW k \in 1..n PROVE d[k] = text[k]
    OBVIOUS
  <2> DEFINE y == {StreamByte(key, nonce, 1 + (k - 1) \div (2 * CipherKey),
                              ((k - 1) % (2 * CipherKey)) + 1)}
  <2>1. c[k] = XorByte(text[k], y) /\ d[k] = XorByte(c[k], y)
    BY <1>2, <1>3
  <2> HIDE DEF y
  <2> QED
    BY <2>1, XorIs
<1>5. d = text
  BY <1>2, <1>3, <1>4, StrEqual
<1>6. Len(s) - MacLen = n /\ n >= 0
  BY <1>1 DEF SealedAs
<1>7. SubSeq(s, 1, n) = c /\ SubSeq(s, n + 1, Len(s)) = m
  BY <1>1 DEF SealedAs
<1>8. Opens(key, nonce, ad, s)
  BY <1>6, <1>7 DEF Opens, m
<1> QED
  BY <1>5, <1>6, <1>7, <1>8 DEF d

\* What it takes to be opened: the tag that comes is the one that is wanted.
OpensAs(in, p, m, n) ==
    /\ n \in Nat /\ MacLen \in Nat \ {0} /\ IsStr(p) /\ Len(p) = n
    /\ \A i \in 1..n : p[i] = in[i]
    /\ \A i \in 1..MacLen : in[n + i] = m[i]

LEMMA OpensBy ==
    ASSUME NEW key, NEW nonce, NEW ad, IsStr(ad), NEW in, IsStr(in), Opens(key, nonce, ad, in),
           NEW n, n = Len(in) - MacLen, NEW p, p = SubSeq(in, 1, n),
           NEW m, m = MacOf(MacKey(key, nonce), Covered(ad, p))
    PROVE  OpensAs(in, p, m, n)
<1> DEFINE q == SubSeq(in, n + 1, n + MacLen)
<1>1. MacLen \in Nat \ {0} /\ Len(in) \in Nat
  BY AeadAssumption, StrIs
<1>2. n >= 0 /\ SubSeq(in, n + 1, Len(in)) = m
  BY DEF Opens
<1>3. n \in Nat /\ n <= Len(in) /\ n + MacLen = Len(in)
  BY <1>1, <1>2
<1>4. IsStr(p) /\ Len(p) = n /\ \A i \in 1..n : p[i] = in[i]
  BY <1>3, StrFirst
<1>5. PartOf(q, in, n, MacLen)
  <2>1. n + MacLen <= Len(in) /\ MacLen \in Nat
    BY <1>1, <1>3
  <2> QED
    BY <1>3, <2>1, PartIs
<1>6. q = m
  BY <1>2, <1>3
<1> HIDE DEF q
<1>7. \A i \in 1..MacLen : in[n + i] = m[i]
  BY <1>5, <1>6 DEF PartOf
<1> QED
  BY <1>1, <1>3, <1>4, <1>7 DEF OpensAs

\* Another key.
LEMMA KeyRefused ==
    ASSUME NEW key, NEW other, NEW nonce, NEW ad, IsStr(ad), NEW text, IsStr(text),
           NEW bound, IsStr(bound), MacKey(other, nonce) # MacKey(key, nonce),
           NEW s, s = Sealed(key, nonce, ad, text)
    PROVE  ~Opens(other, nonce, bound, s)
<1> DEFINE c == CipherOf(key, nonce, text)
           v == Covered(ad, c)
           m == MacOf(MacKey(key, nonce), v)
           n == Len(text)
           w == Covered(bound, c)
<1> SUFFICES ASSUME Opens(other, nonce, bound, s) PROVE FALSE
  OBVIOUS
<1>1. SealedAs(s, c, m, n)
  BY SealedParts
<1>2. IsStr(c)
  BY CipherStr
<1>3. CoveredOf(v, ad, c, UpTo(Len(ad)), UpTo(Len(c))) /\ CoveredOf(w, bound, c, UpTo(Len(bound)), UpTo(Len(c)))
  BY <1>2, CoveredIs
<1>4. SubSeq(s, n + 1, Len(s)) = MacOf(MacKey(other, nonce), w)
  <2>1. Len(s) - MacLen = n /\ SubSeq(s, 1, n) = c
    BY <1>1 DEF SealedAs
  <2> HIDE DEF n, c
  <2> QED
    BY <2>1 DEF Opens
<1>5. SubSeq(s, n + 1, Len(s)) = m
  BY <1>1 DEF SealedAs
<1> HIDE DEF c, v, w, n
<1>6. MacOf(MacKey(key, nonce), v)[1] = MacOf(MacKey(other, nonce), w)[1]
  BY <1>4, <1>5
<1>7. PICK k \in Nat, l \in Nat : Len(v) = k * MacLen /\ Len(w) = l * MacLen
  BY <1>3 DEF CoveredOf
<1>8. IsStr(v) /\ IsStr(w)
  BY <1>3 DEF CoveredOf
<1>9. MacKey(key, nonce) = MacKey(other, nonce)
  BY ONLY <1>6, <1>7, <1>8, TagTells
<1> QED
  BY <1>9

\* Other data: one more byte.
LEMMA DataRefused ==
    ASSUME NEW key, NEW nonce, NEW ad, IsStr(ad), NEW text, IsStr(text),
           NEW bound, IsStr(bound), Len(bound) = Len(ad) + 1,
           NEW s, s = Sealed(key, nonce, ad, text)
    PROVE  ~Opens(key, nonce, bound, s)
<1> DEFINE c == CipherOf(key, nonce, text)
           v == Covered(ad, c)
           m == MacOf(MacKey(key, nonce), v)
           n == Len(text)
           w == Covered(bound, c)
           a == UpTo(Len(ad))
           b == UpTo(Len(bound))
           t == UpTo(Len(c))
<1> SUFFICES ASSUME Opens(key, nonce, bound, s) PROVE FALSE
  OBVIOUS
<1>1. SealedAs(s, c, m, n)
  BY SealedParts
<1>2. IsStr(c) /\ Len(ad) \in Nat
  BY CipherStr, StrIs
<1>3. CoveredOf(v, ad, c, a, t) /\ CoveredOf(w, bound, c, b, t)
  BY <1>2, CoveredIs
<1>4. SubSeq(s, n + 1, Len(s)) = MacOf(MacKey(key, nonce), w)
  <2>1. Len(s) - MacLen = n /\ SubSeq(s, 1, n) = c
    BY <1>1 DEF SealedAs
  <2> HIDE DEF n, c
  <2> QED
    BY <2>1 DEF Opens
<1>5. SubSeq(s, n + 1, Len(s)) = m
  BY <1>1 DEF SealedAs
<1> HIDE DEF c, v, w, n, a, b, t
<1>6. MacOf(MacKey(key, nonce), v)[1] = MacOf(MacKey(key, nonce), w)[1]
  BY <1>4, <1>5
<1>7. PICK k \in Nat, l \in Nat : Len(v) = k * MacLen /\ Len(w) = l * MacLen
  BY <1>3 DEF CoveredOf
<1>8. IsStr(v) /\ IsStr(w)
  BY <1>3 DEF CoveredOf
<1>9. v = w
  BY ONLY <1>6, <1>7, <1>8, TagTells
<1>10. a = b
  <2>1. /\ Len(v) = a + t + MacLen /\ Len(w) = b + t + MacLen
        /\ a \in Nat /\ b \in Nat /\ t \in Nat /\ MacLen \in Nat
    BY <1>3, AeadAssumption DEF CoveredOf
  <2>2. a + t + MacLen = b + t + MacLen
    BY <1>9, <2>1
  <2> QED
    BY ONLY <2>1, <2>2
<1>11. Const(Len(ad) % 256) = Const((Len(ad) + 1) % 256)
  <2>1. v[a + t + 1] = Const(Len(ad) % 256) /\ w[b + t + 1] = Const(Len(bound) % 256)
    BY <1>3 DEF CoveredOf
  <2> QED
    BY <1>9, <1>10, <2>1
<1>12. \A x, y \in 0..255 : Const(x) = Const(y) => x = y
  <2> SUFFICES ASSUME NEW x \in 0..255, NEW y \in 0..255, Const(x) = Const(y) PROVE x = y
    OBVIOUS
  <2>1. /\ x = 0 => Const(x) = {}
        /\ x # 0 => Const(x) = {<<"const", x, 0>>}
        /\ y = 0 => Const(y) = {}
        /\ y # 0 => Const(y) = {<<"const", y, 0>>}
    BY DEF Const
  <2>2. CASE x = 0 \/ y = 0
    BY <2>1, <2>2
  <2>3. CASE x # 0 /\ y # 0
    <3>1. {<<"const", x, 0>>} = {<<"const", y, 0>>}
      BY <2>1, <2>3
    <3>2. <<"const", x, 0>> = <<"const", y, 0>>
      BY ONLY <3>1
    <3> QED
      BY ONLY <3>2
  <2> QED
    BY <2>2, <2>3
<1>13. ASSUME NEW z \in Nat PROVE z % 256 \in 0..255 /\ (z + 1) % 256 \in 0..255 /\ z % 256 # (z + 1) % 256
  OBVIOUS
<1> QED
  BY <1>2, <1>11, <1>12, <1>13

\* One byte that is another.
LEMMA ByteRefused ==
    ASSUME NEW key, NEW nonce, NEW ad, IsStr(ad), NEW text, IsStr(text),
           NEW s, s = Sealed(key, nonce, ad, text),
           NEW in, IsStr(in), Len(in) = Len(s), NEW at \in 1..Len(s), in[at] # s[at],
           \A i \in 1..Len(s) : i # at => in[i] = s[i]
    PROVE  ~Opens(key, nonce, ad, in)
<1> DEFINE c == CipherOf(key, nonce, text)
           v == Covered(ad, c)
           m == MacOf(MacKey(key, nonce), v)
           n == Len(text)
           p == SubSeq(in, 1, n)
           w == Covered(ad, p)
           z == MacOf(MacKey(key, nonce), w)
<1> SUFFICES ASSUME Opens(key, nonce, ad, in) PROVE FALSE
  OBVIOUS
<1>1. SealedAs(s, c, m, n)
  BY SealedParts
<1>2. n = Len(in) - MacLen
  BY <1>1 DEF SealedAs
<1> HIDE DEF c, n
<1>3. /\ n \in Nat /\ MacLen \in Nat \ {0} /\ IsStr(p) /\ Len(p) = n
      /\ \A i \in 1..n : p[i] = in[i]
      /\ \A i \in 1..MacLen : in[n + i] = z[i]
  <2>1. OpensAs(in, p, z, n)
    BY <1>2, OpensBy
  <2> HIDE DEF p, z
  <2> QED
    BY ONLY <2>1 DEF OpensAs
<1>4. /\ IsStr(c) /\ Len(c) = n /\ Len(s) = n + MacLen
      /\ \A i \in 1..n : s[i] = c[i]
      /\ \A i \in 1..MacLen : s[n + i] = m[i]
  BY <1>1 DEF SealedAs
<1> HIDE DEF p
<1>5. CASE at <= n
  <2> DEFINE a == UpTo(Len(ad))
             t == UpTo(n)
  <2>1. CoveredOf(v, ad, c, a, t) /\ CoveredOf(w, ad, p, a, t)
    BY <1>3, <1>4, CoveredIs
  <2> HIDE DEF v, w, a, t
  <2>2. n + 1 \in 1..Len(s) /\ n + 1 # at /\ 1 \in 1..MacLen
    BY <1>3, <1>4, <1>5
  <2>3. z[1] = m[1]
    BY <1>3, <1>4, <2>2
  <2>4. PICK k \in Nat, l \in Nat : Len(v) = k * MacLen /\ Len(w) = l * MacLen
    BY <2>1 DEF CoveredOf
  <2>5. IsStr(v) /\ IsStr(w)
    BY <2>1 DEF CoveredOf
  <2>6. MacOf(MacKey(key, nonce), w)[1] = MacOf(MacKey(key, nonce), v)[1]
    BY <2>3
  <2>7. v = w
    BY ONLY <2>4, <2>5, <2>6, TagTells
  <2>8. at \in 1..n
    BY <1>5
  <2>9. v[a + at] = c[at] /\ w[a + at] = p[at]
    BY <1>3, <1>4, <2>1, <2>8 DEF CoveredOf
  <2> QED
    BY <1>3, <1>4, <2>7, <2>8, <2>9
<1>6. CASE ~(at <= n)
  <2> DEFINE o == at - n
  <2>1. o \in 1..MacLen /\ n + o = at
    BY <1>3, <1>4, <1>6
  <2>2. \A i \in 1..n : p[i] = c[i]
    <3> SUFFICES ASSUME NEW i \in 1..n PROVE p[i] = c[i]
      OBVIOUS
    <3>1. i \in 1..Len(s) /\ i # at
      BY <1>3, <1>4, <1>6
    <3> QED
      BY <1>3, <1>4, <3>1
  <2>3. p = c
    BY <1>3, <1>4, <2>2, StrEqual
  <2>4. z = m
    BY <2>3
  <2> HIDE DEF z, m, o
  <2>5. in[n + o] = z[o] /\ s[n + o] = m[o]
    BY <1>3, <1>4, <2>1
  <2> QED
    BY <2>1, <2>4, <2>5
<1> QED
  BY <1>5, <1>6

\* The end cut off.
LEMMA EndRefused ==
    ASSUME NEW key, NEW nonce, NEW ad, IsStr(ad), NEW n \in Nat, NEW text, text = Named("text", n),
           NEW s, s = Sealed(key, nonce, ad, text), NEW e \in Nat, e < Len(s)
    PROVE  ~Opens(key, nonce, ad, SubSeq(s, 1, e))
<1> DEFINE c == CipherOf(key, nonce, text)
           m == MacOf(MacKey(key, nonce), Covered(ad, c))
           in == SubSeq(s, 1, e)
           k == e - MacLen
           p == SubSeq(in, 1, k)
           z == MacOf(MacKey(key, nonce), Covered(ad, p))
           j == k + 1
<1>1. IsStr(text) /\ Len(text) = n /\ \A i \in 1..n : text[i] = {<<"text", 0, i>>}
  BY NamedIs
<1>2. SealedAs(s, c, m, n)
  BY <1>1, SealedParts
<1>3. \A i \in 1..n :
        c[i] = XorByte(text[i], {StreamByte(key, nonce, 1 + (i - 1) \div (2 * CipherKey),
                                            ((i - 1) % (2 * CipherKey)) + 1)})
  BY <1>1, CipherStr
<1> HIDE DEF c, m
<1>4. /\ MacLen \in Nat \ {0} /\ Len(s) = n + MacLen /\ IsStr(s)
      /\ \A i \in 1..n : s[i] = c[i]
  BY <1>2 DEF SealedAs
<1>5. IsStr(in) /\ Len(in) = e /\ \A i \in 1..e : in[i] = s[i]
  BY <1>4, StrFirst
<1> SUFFICES ASSUME Opens(key, nonce, ad, in) PROVE FALSE
  OBVIOUS
<1> HIDE DEF in
<1>6. k = Len(in) - MacLen
  BY <1>5
<1>7. k \in Nat /\ \A i \in 1..MacLen : in[k + i] = z[i]
  <2>1. OpensAs(in, p, z, k)
    BY <1>5, <1>6, OpensBy
  <2> HIDE DEF p, z, k
  <2> QED
    BY ONLY <2>1 DEF OpensAs
<1>8. 1 \in 1..MacLen /\ j \in 1..n /\ j \in 1..e
  BY <1>4, <1>7
<1>9. z[1] = {<<"tag", <<MacKey(key, nonce), Pairs(AllBlocks(Covered(ad, p), MacLen))>>, 1>>}
  BY <1>8, TagIs
<1>10. in[j] = z[1]
  BY <1>7, <1>8
<1> HIDE DEF z, k, j
<1>11. c[j] = z[1]
  BY <1>4, <1>5, <1>8, <1>10
<1>12. PICK x : z[1] = {<<"tag", x, 1>>}
  BY <1>9
<1>13. PICK y, r : c[j] = XorByte({<<"text", 0, j>>}, {<<"stream", y, r>>})
  <2> DEFINE b == 1 + (j - 1) \div (2 * CipherKey)
             r == ((j - 1) % (2 * CipherKey)) + 1
  <2>1. c[j] = XorByte({<<"text", 0, j>>}, {StreamByte(key, nonce, b, r)})
    BY <1>1, <1>3, <1>8
  <2> HIDE DEF b, r
  <2> QED
    BY <2>1 DEF StreamByte
<1>14. "text" # "stream" /\ "text" # "tag"
  OBVIOUS
<1>15. <<"text", 0, j>> # <<"stream", y, r>> /\ <<"text", 0, j>> # <<"tag", x, 1>>
  BY <1>14
<1>16. <<"text", 0, j>> \in c[j]
  BY <1>13, <1>15 DEF XorByte
<1> QED
  BY <1>11, <1>12, <1>15, <1>16

-----------------------------------------------------------------------------
(* What becomes of the reader's answer.                                    *)

LEMMA KeysDiffer == ASSUME NEW nonce PROVE MacKey(OtherKey, nonce) # MacKey(SealKey, nonce)
<1> SUFFICES ASSUME MacKey(OtherKey, nonce) = MacKey(SealKey, nonce) PROVE FALSE
  OBVIOUS
<1>1. CipherKey \in Nat \ {0} /\ 1 \in 1..CipherKey
  BY AeadAssumption
<1>2. ASSUME NEW key PROVE MacKey(key, nonce)[1] = {StreamByte(key, nonce, 0, 1)}
  BY <1>1 DEF MacKey
<1>3. {StreamByte(OtherKey, nonce, 0, 1)} = {StreamByte(SealKey, nonce, 0, 1)}
  BY <1>2
<1>4. StreamByte(OtherKey, nonce, 0, 1) = StreamByte(SealKey, nonce, 0, 1)
  BY ONLY <1>3
<1>5. OtherKey = SealKey
  <2> DEFINE a == OtherKey
             b == SealKey
             c == <<0 % WordVals, nonce[1] + 0 \div WordVals>>
             d == <<nonce[2], nonce[3]>>
  <2>1. <<"stream", <<a, c, d>>, 1>> = <<"stream", <<b, c, d>>, 1>>
    BY <1>4 DEF StreamByte
  <2> HIDE DEF a, b, c, d
  <2>2. a = b
    BY ONLY <2>1
  <2> QED
    BY <2>2 DEF a, b
<1>6. OtherKey[1] = {<<"other", 0, 1>>} /\ SealKey[1] = {<<"key", 0, 1>>}
  BY <1>1, NamedIs DEF OtherKey, SealKey
<1>7. <<"other", 0, 1>> = <<"key", 0, 1>>
  BY <1>5, <1>6
<1> QED
  BY ONLY <1>7

LEMMA TamperedIs ==
    ASSUME NEW s, IsStr(s), job.tamper \in Tampers
    PROVE  /\ job.tamper.what \in {"nothing", "key", "data", "byte", "end"}
           /\ \/ Tampered(s) = s
              \/ /\ job.tamper.what = "byte" /\ job.tamper.at \in 1..Len(s)
                 /\ Tampered(s) = [s EXCEPT ![job.tamper.at] = XorByte(s[job.tamper.at], Const(1))]
              \/ /\ job.tamper.what = "end" /\ job.tamper.at \in 1..Len(s)
                 /\ Tampered(s) = SubSeq(s, 1, job.tamper.at - 1)
<1> DEFINE a == job.tamper.at
           w == job.tamper.what
<1>1. w \in {"nothing", "key", "data", "byte", "end"} /\ (w \in {"byte", "end"} => a \in Places)
  BY DEF Tampers
<1>2. Places \subseteq Nat \ {0} /\ Len(s) \in Nat
  BY PrimitivesAssumption, StrIs
<1>3. Tampered(s) = IF w = "byte" /\ a <= Len(s) THEN ReplaceAt(s, a, XorByte(s[a], Const(1)))
                    ELSE IF w = "end" /\ a <= Len(s) THEN SubSeq(s, 1, a - 1) ELSE s
  BY DEF Tampered
<1>4. ReplaceAt(s, a, XorByte(s[a], Const(1))) = [s EXCEPT ![a] = XorByte(s[a], Const(1))]
  BY DEF ReplaceAt
<1> HIDE DEF a, w
<1>5. w \in {"byte", "end"} /\ a <= Len(s) => a \in 1..Len(s)
  <2> SUFFICES ASSUME w \in {"byte", "end"}, a <= Len(s) PROVE a \in 1..Len(s)
    OBVIOUS
  <2>1. a \in Nat \ {0}
    BY <1>1, <1>2
  <2> QED
    BY <1>2, <2>1
<1>6. CASE w = "byte" /\ a <= Len(s)
  BY <1>1, <1>3, <1>4, <1>5, <1>6 DEF a, w
<1>7. CASE w = "end" /\ a <= Len(s)
  BY <1>1, <1>3, <1>5, <1>7 DEF a, w
<1>8. CASE ~(w = "byte" /\ a <= Len(s)) /\ ~(w = "end" /\ a <= Len(s))
  BY <1>1, <1>3, <1>8 DEF a, w
<1> QED
  BY <1>6, <1>7, <1>8

\* k opens t with bound just when t is s, and k and bound are the writer's.
OpensSame(k, nonce, ad, bound, s, t) ==
    /\ IsStr(s) /\ IsStr(bound) /\ IsStr(t)
    /\ Opens(k, nonce, bound, t) <=> t = s /\ job.tamper.what # "key" /\ bound = ad

LEMMA OpensIfSame ==
    ASSUME job.tamper \in Tampers, NEW nonce, NEW ad, IsStr(ad), NEW n \in Nat,
           NEW text, text = Named("text", n), NEW s, s = Sealed(SealKey, nonce, ad, text),
           NEW bound, bound = ad \/ (job.tamper.what = "data" /\ bound = Append(ad, {}))
    PROVE  OpensSame(Seen(SealKey), nonce, ad, bound, s, Tampered(s))
<1> SUFFICES /\ IsStr(s) /\ IsStr(bound) /\ IsStr(Tampered(s))
             /\ Opens(Seen(SealKey), nonce, bound, Tampered(s)) <=>
                  Tampered(s) = s /\ job.tamper.what # "key" /\ bound = ad
  BY DEF OpensSame
<1> DEFINE a == job.tamper.at
           w == job.tamper.what
           t == Tampered(s)
           k == Seen(SealKey)
<1>1. IsStr(text) /\ Len(text) = n
  BY NamedIs
<1>2. IsStr(s) /\ Len(s) \in Nat
  <2>1. \E c, m : SealedAs(s, c, m, Len(text))
    BY <1>1, SealedParts
  <2> QED
    BY <2>1, StrIs DEF SealedAs
<1>3. /\ w \in {"nothing", "key", "data", "byte", "end"}
      /\ \/ t = s
         \/ w = "byte" /\ a \in 1..Len(s) /\ t = [s EXCEPT ![a] = XorByte(s[a], Const(1))]
         \/ w = "end" /\ a \in 1..Len(s) /\ t = SubSeq(s, 1, a - 1)
  BY <1>2, TamperedIs
<1>4. IsStr(bound) /\ (bound # ad => Len(bound) = Len(ad) + 1)
  BY StrAppend DEF CatOf
<1>5. (w = "key" => k = OtherKey) /\ (w # "key" => k = SealKey)
  BY DEF Seen
<1> HIDE DEF a, w, t, k
<1>6. CASE t = s /\ w # "key" /\ bound = ad
  <2>1. Opens(SealKey, nonce, ad, s)
    BY <1>1, SealedOpens
  <2> QED
    BY <1>2, <1>4, <1>5, <1>6, <2>1 DEF t, w, k
<1>7. CASE t = s /\ w = "key"
  <2>1. ~Opens(OtherKey, nonce, bound, s)
    BY <1>1, <1>4, KeysDiffer, KeyRefused
  <2> QED
    BY <1>2, <1>4, <1>5, <1>7, <2>1 DEF t, w, k
<1>8. CASE t = s /\ w # "key" /\ bound # ad
  <2>1. ~Opens(SealKey, nonce, bound, s)
    BY <1>1, <1>4, <1>8, DataRefused
  <2> QED
    BY <1>2, <1>4, <1>5, <1>8, <2>1 DEF t, w, k
<1>9. CASE t # s /\ w = "byte" /\ a \in 1..Len(s) /\ t = [s EXCEPT ![a] = XorByte(s[a], Const(1))]
  <2>1. DOMAIN s = 1..Len(s) /\ s = [i \in 1..Len(s) |-> s[i]]
    BY <1>2, StrIs
  <2> DEFINE l == Len(s)
             x == XorByte(s[a], Const(1))
  <2>2. x # s[a]
    BY XorIs
  <2> HIDE DEF l, x
  <2>3. t = [i \in 1..l |-> IF i = a THEN x ELSE s[i]]
    BY <1>9, <2>1 DEF l, x
  <2>4. /\ t = [i \in 1..l |-> t[i]] /\ t[a] # s[a]
        /\ \A i \in 1..l : i # a => t[i] = s[i]
    BY <1>9, <2>2, <2>3 DEF l
  <2>5. IsStr(t) /\ Len(t) = l
    BY <1>2, <2>4, FunctionIsStr DEF l
  <2>6. ~Opens(SealKey, nonce, ad, t)
    BY <1>1, <1>9, <2>4, <2>5, ByteRefused DEF l
  <2>7. bound = ad
    BY <1>9 DEF w
  <2> QED
    BY <1>2, <1>4, <1>5, <1>9, <2>5, <2>6, <2>7 DEF t, w, k
<1>10. CASE t # s /\ w = "end" /\ a \in 1..Len(s) /\ t = SubSeq(s, 1, a - 1)
  <2> DEFINE e == a - 1
  <2>1. e \in Nat /\ e < Len(s) /\ e <= Len(s)
    BY <1>2, <1>10
  <2>2. t = SubSeq(s, 1, e)
    BY <1>10
  <2> HIDE DEF e
  <2>3. IsStr(t)
    BY <1>2, <2>1, <2>2, StrFirst
  <2>4. ~Opens(SealKey, nonce, ad, t)
    BY <2>1, <2>2, EndRefused
  <2>5. bound = ad
    BY <1>10 DEF w
  <2> QED
    BY <1>2, <1>4, <1>5, <1>10, <2>3, <2>4, <2>5 DEF t, w, k
<1> QED
  BY <1>3, <1>6, <1>7, <1>8, <1>9, <1>10

\* What is opened is the text, or nothing and the context as it was.
ReadRight(r, reader, next, text, s, t, ad, bound) ==
    LET same == t = s /\ job.tamper.what # "key" /\ bound = ad
    IN /\ ~same => r = [mismatch |-> TRUE, out |-> <<>>, ctx |-> reader]
       /\ same => r = [mismatch |-> FALSE, out |-> text, ctx |-> next]

LEMMA ReadTampered ==
    ASSUME job.tamper \in Tampers, NEW nonce, NEW ad, IsStr(ad), NEW n \in Nat, NoWrap(nonce[1], n),
           NEW text, text = Named("text", n), NEW s, s = Sealed(SealKey, nonce, ad, text),
           NEW bound, bound = ad \/ (job.tamper.what = "data" /\ bound = Append(ad, {})),
           NEW reader, reader = chacha20poly1305init(Seen(SealKey), nonce),
           NEW r, r = chacha20poly1305read(reader, bound, Tampered(s)),
           NEW next, next = chacha20poly1305init(NextKey(SealKey, nonce), nonce)
    PROVE  ReadRight(r, reader, next, text, s, Tampered(s), ad, bound)
<1> DEFINE t == Tampered(s)
           same == t = s /\ job.tamper.what # "key" /\ bound = ad
           k == Seen(SealKey)
<1>1. /\ IsStr(s) /\ IsStr(bound) /\ IsStr(t)
      /\ Opens(k, nonce, bound, t) <=> same
  <2>1. OpensSame(k, nonce, ad, bound, s, t)
    BY OpensIfSame
  <2> HIDE DEF k, t
  <2> QED
    BY ONLY <2>1 DEF OpensSame
<1>2. same => k = SealKey
  BY DEF Seen
<1>3. IsStr(text) /\ Len(text) = n
  BY NamedIs
<1>4. Len(s) - MacLen = n /\ CipherOf(SealKey, nonce, SubSeq(s, 1, n)) = text
  BY <1>3, SealedOpens
<1> HIDE DEF t, k
<1>5. ASSUME NEW m, m = Len(t) - MacLen
      PROVE  /\ ~Opens(k, nonce, bound, t) => r = Refused(reader)
             /\ Opens(k, nonce, bound, t) /\ NoWrap(nonce[1], m) =>
                  r = Opened(k, nonce, SubSeq(t, 1, m))
  <2>1. ReadTo(r, reader, k, nonce, bound, t, m)
    BY <1>1, <1>5, ReadIs DEF t, k
  <2> QED
    BY ONLY <2>1 DEF ReadTo
<1>6. ASSUME same PROVE r = [mismatch |-> FALSE, out |-> text, ctx |-> next]
  <2>1. t = s /\ k = SealKey
    BY <1>2, <1>6
  <2>2. Len(t) - MacLen = n
    BY <1>4, <2>1
  <2>3. r = Opened(k, nonce, SubSeq(t, 1, n))
    BY <1>1, <1>5, <1>6, <2>2
  <2>4. r = Opened(SealKey, nonce, SubSeq(s, 1, n))
    BY <2>1, <2>3
  <2> QED
    BY <1>4, <2>4 DEF Opened
<1>7. ASSUME ~same PROVE r = [mismatch |-> TRUE, out |-> <<>>, ctx |-> reader]
  <2>1. r = Refused(reader)
    BY <1>1, <1>5, <1>7
  <2> QED
    BY <2>1 DEF Refused
<1> QED
  BY <1>6, <1>7 DEF ReadRight, t

LEMMA SealJob ==
    ASSUME JobOK
    PROVE  /\ job.do = "seal" => /\ job.ad \in Nat /\ job.text \in Nat /\ NoWrap(job.top, job.text)
                                 /\ job.tamper \in Tampers
           /\ job.do = "keyenc" => /\ job.text \in Nat /\ NoWrap(0, job.text)
                                   /\ job.tamper \in Tampers
<1>1. TextSizes \subseteq Nat /\ AdSizes \subseteq Nat /\ NonceTops \subseteq Nat
  BY PrimitivesAssumption, AeadAssumption
<1>2. ASSUME NEW t \in TextSizes, NEW top \in NonceTops \cup {0} PROVE NoWrap(top, t)
  <2>1. top + (1 + t \div (2 * CipherKey)) \div WordVals < WordVals
    BY PrimitivesAssumption
  <2>2. top \in Nat /\ t \in Nat
    BY <1>1
  <2> QED
    BY <2>1, <2>2 DEF NoWrap
<1>3. job.do = "seal" \/ job.do = "keyenc" => job \in SealJobs
  BY DEF JobOK, BufferJobs, HashJobs, KdfJobs, RoundJobs, FieldJobs, CurveJobs
<1>4. ASSUME job.do = "seal"
      PROVE  job.ad \in AdSizes /\ job.text \in TextSizes /\ job.top \in NonceTops /\ job.tamper \in Tampers
  BY <1>3, <1>4 DEF SealJobs
<1>5. ASSUME job.do = "keyenc" PROVE job.text \in TextSizes /\ job.tamper \in Tampers
  BY <1>3, <1>5 DEF SealJobs
<1> QED
  BY <1>1, <1>2, <1>4, <1>5

LEMMA PolyJob ==
    ASSUME JobOK
    PROVE  /\ job.do = "block" => BlockIsExact(job.h, job.r, job.c, job.end)
           /\ job.do = "tag" => TagIsExact(job.h, job.pad)
<1> DEFINE L == 0 .. Limb - 1
<1>1. HLimbs \subseteq L /\ CLimbs \subseteq L
  BY PrimitivesAssumption
<1> HIDE DEF L
<1>2. job.do = "block" \/ job.do = "tag" => job \in FieldJobs
  BY DEF JobOK, BufferJobs, HashJobs, KdfJobs, SealJobs, RoundJobs, CurveJobs
<1>3. ASSUME job.do = "block" PROVE BlockIsExact(job.h, job.r, job.c, job.end)
  <2>1. /\ job.h \in HLimbs \X HLimbs \X (0..4) /\ job.r \in ClearedR
        /\ job.c \in CLimbs \X CLimbs /\ job.end \in {0, 1}
    BY <1>2, <1>3 DEF FieldJobs
  <2>2. job.h \in L \X L \X (0..4) /\ job.c \in L \X L
    BY <1>1, <2>1
  <2> QED
    BY <2>1, <2>2, BlocksAreExact DEF L
<1>4. ASSUME job.do = "tag" PROVE TagIsExact(job.h, job.pad)
  <2>1. job.h \in HLimbs \X HLimbs \X (0..4) /\ job.pad \in CLimbs \X CLimbs
    BY <1>2, <1>4 DEF FieldJobs
  <2>2. job.h \in L \X L \X (0..4) /\ job.pad \in L \X L
    BY <1>1, <2>1
  <2> QED
    BY <2>2, TagsAreExact DEF L
<1> QED
  BY <1>3, <1>4

\* The two jobs by what they answer, s the text sealed and s2 the next one.
SealRight(a, s, s2) ==
    LET read == a[2]
        same == Tampered(s) = s /\ job.tamper.what \notin {"key", "data"}
    IN /\ a[1] = s /\ a[4] = s2
       /\ read.mismatch <=> ~same
       /\ read.mismatch => read.out = <<>> /\ read.ctx = a[3]
       /\ ~read.mismatch => read.out = Clear /\ a[5] = a[4]
KeyEncRight(a, s) ==
    LET same == Tampered(s) = s /\ job.tamper.what # "key"
    IN a[1] = s /\ a[2] = [ok |-> same, out |-> IF same THEN Clear ELSE <<>>]

LEMMA SealAnswers ==
    ASSUME JobOK, job.do = "seal", NEW w, NEW reader, NEW r,
           w = chacha20poly1305write(chacha20poly1305init(SealKey, Nonce), Ad, Clear),
           reader = chacha20poly1305init(Seen(SealKey), Nonce),
           r = chacha20poly1305read(reader, Bound(Ad), Tampered(w.out)),
           NEW a, a = <<w.out, r, reader, chacha20poly1305write(w.ctx, Ad, Clear).out,
                        chacha20poly1305write(r.ctx, Ad, Clear).out>>
    PROVE  SealRight(a, Sealed(SealKey, Nonce, Ad, Clear),
                     Sealed(NextKey(SealKey, Nonce), Nonce, Ad, Clear))
<1> DEFINE s == Sealed(SealKey, Nonce, Ad, Clear)
           s2 == Sealed(NextKey(SealKey, Nonce), Nonce, Ad, Clear)
           next == chacha20poly1305init(NextKey(SealKey, Nonce), Nonce)
           v == chacha20poly1305write(next, Ad, Clear)
           b == Bound(Ad)
           t == Tampered(s)
           same == t = s /\ job.tamper.what # "key" /\ b = Ad
<1>1. /\ job.ad \in Nat /\ job.text \in Nat /\ NoWrap(job.top, job.text)
      /\ job.tamper \in Tampers
  BY SealJob
<1>2. IsStr(Ad) /\ IsStr(Clear) /\ Len(Clear) = job.text /\ Clear = Named("text", job.text)
  BY <1>1, NamedIs DEF Ad, Clear
<1>3. Nonce = <<job.top, 1, 2>> /\ NoWrap(Nonce[1], job.text)
  BY <1>1 DEF Nonce
<1>4. w = [out |-> s, ctx |-> next]
  BY <1>2, <1>3, WriteIs
<1>5. v.out = s2
  <2>1. v = [out |-> s2, ctx |-> chacha20poly1305init(NextKey(NextKey(SealKey, Nonce), Nonce), Nonce)]
    BY <1>2, <1>3, WriteIs
  <2> QED
    BY <2>1
<1>6. b = Ad \/ (job.tamper.what = "data" /\ b = Append(Ad, {}))
  BY DEF Bound
<1>7. b = Ad <=> job.tamper.what # "data"
  <2>1. IsStr(Append(Ad, {})) /\ Len(Append(Ad, {})) = Len(Ad) + 1 /\ Len(Ad) \in Nat
    BY <1>2, StrAppend, StrIs DEF CatOf
  <2>2. Append(Ad, {}) # Ad
    <3>1. Len(Ad) + 1 # Len(Ad)
      BY <2>1
    <3> QED
      BY <2>1, <3>1
  <2> QED
    BY <2>2 DEF Bound
<1> HIDE DEF s, s2, next, v, b
<1>8. w.out = s /\ w.ctx = next
  BY <1>4
<1>9. r = chacha20poly1305read(reader, b, t)
  BY <1>8 DEF b
<1>10. /\ ~same => r = [mismatch |-> TRUE, out |-> <<>>, ctx |-> reader]
       /\ same => r = [mismatch |-> FALSE, out |-> Clear, ctx |-> next]
  <2>1. ReadRight(r, reader, next, Clear, s, t, Ad, b)
    BY ONLY <1>1, <1>2, <1>3, <1>6, <1>9, reader = chacha20poly1305init(Seen(SealKey), Nonce),
            ReadTampered DEF s, next
  <2> HIDE DEF t
  <2> QED
    BY ONLY <2>1 DEF ReadRight
<1>11. a[1] = s /\ a[2] = r /\ a[3] = reader /\ a[4] = v.out
       /\ a[5] = chacha20poly1305write(r.ctx, Ad, Clear).out
  BY <1>8 DEF v
<1>12. same <=> t = s /\ job.tamper.what \notin {"key", "data"}
  BY <1>7
<1> HIDE DEF same, t
<1>13. ASSUME same PROVE SealRight(a, s, s2)
  <2>1. r.mismatch = FALSE /\ r.out = Clear /\ r.ctx = next
    BY <1>10, <1>13
  <2>2. a[5] = a[4]
    BY <1>11, <2>1 DEF v
  <2> QED
    BY <1>5, <1>11, <1>12, <1>13, <2>1, <2>2 DEF SealRight, t
<1>14. ASSUME ~same PROVE SealRight(a, s, s2)
  <2>1. r.mismatch = TRUE /\ r.out = <<>> /\ r.ctx = reader
    BY <1>10, <1>14
  <2> QED
    BY <1>5, <1>11, <1>12, <1>14, <2>1 DEF SealRight, t
<1> QED
  BY <1>13, <1>14 DEF s, s2

LEMMA KeyEncAnswers ==
    ASSUME JobOK, job.do = "keyenc", NEW e, e = keyenc(SealKey, Clear),
           NEW a, a = <<e, keydec(Seen(SealKey), Tampered(e))>>
    PROVE  KeyEncRight(a, Sealed(SealKey, Nonce, <<>>, Clear))
<1> DEFINE zero == <<0, 0, 0>>
           s == Sealed(SealKey, Nonce, <<>>, Clear)
           next == chacha20poly1305init(NextKey(SealKey, zero), zero)
           reader == chacha20poly1305init(Seen(SealKey), zero)
           t == Tampered(s)
           r == chacha20poly1305read(reader, <<>>, t)
           same == t = s /\ job.tamper.what # "key"
<1>1. /\ job.text \in Nat /\ NoWrap(0, job.text) /\ job.tamper \in Tampers
  BY SealJob
<1>2. IsStr(<<>>) /\ IsStr(Clear) /\ Len(Clear) = job.text /\ Clear = Named("text", job.text)
  BY <1>1, NamedIs, StrEmpty DEF Clear
<1>3. Nonce = zero /\ NoWrap(zero[1], job.text)
  BY <1>1 DEF Nonce
<1>4. e = s
  <2>1. chacha20poly1305write(chacha20poly1305init(SealKey, zero), <<>>, Clear) = [out |-> s, ctx |-> next]
    BY <1>2, <1>3, WriteIs
  <2>2. e = chacha20poly1305write(chacha20poly1305init(SealKey, zero), <<>>, Clear).out
    BY DEF keyenc
  <2> QED
    BY <2>1, <2>2
<1>5. keydec(Seen(SealKey), t) = [ok |-> ~r.mismatch, out |-> r.out]
  BY DEF keydec
<1>6. a[1] = s /\ a[2] = [ok |-> ~r.mismatch, out |-> r.out]
  BY <1>4, <1>5
<1>7. /\ ~same => r = [mismatch |-> TRUE, out |-> <<>>, ctx |-> reader]
      /\ same => r = [mismatch |-> FALSE, out |-> Clear, ctx |-> next]
  <2>1. s = Sealed(SealKey, zero, <<>>, Clear)
    BY <1>3
  <2>2. ReadRight(r, reader, next, Clear, s, t, <<>>, <<>>)
    BY ONLY <1>1, <1>2, <1>3, <2>1, ReadTampered
  <2> HIDE DEF r, reader, next, s, t
  <2> QED
    BY ONLY <2>2 DEF ReadRight
<1> HIDE DEF r, t, s, next, reader
<1>8. ASSUME same PROVE KeyEncRight(a, s)
  <2>1. r.mismatch = FALSE /\ r.out = Clear
    BY <1>7, <1>8
  <2>2. a[2] = [ok |-> TRUE, out |-> Clear]
    BY <1>6, <2>1
  <2>3. (Tampered(s) = s /\ job.tamper.what # "key") = TRUE
    BY <1>8 DEF t
  <2> QED
    BY <1>6, <2>2, <2>3 DEF KeyEncRight
<1>9. ASSUME ~same PROVE KeyEncRight(a, s)
  <2>1. r.mismatch = TRUE /\ r.out = <<>>
    BY <1>7, <1>9
  <2>2. a[2] = [ok |-> FALSE, out |-> <<>>]
    BY <1>6, <2>1
  <2>3. (Tampered(s) = s /\ job.tamper.what # "key") = FALSE
    BY <1>9 DEF t
  <2> QED
    BY <1>6, <2>2, <2>3 DEF KeyEncRight
<1> QED
  BY <1>8, <1>9 DEF s

(***************************************************************************)
(* chacha20poly1305.c, keyenc.c: for a key, a block and a word of any      *)
(* size, a text and data of any length, as long as the high word of the    *)
(* counter does not wrap, what is written is what RFC 8439 says, and the   *)
(* reader opens it to the text and to the writer's next key, or refuses it *)
(* with nothing written and its key as it was when a byte is changed, the  *)
(* end is cut, or the key or the data are others; and the sums and         *)
(* products of Poly1305 over limbs of any size are those of the field.     *)
(***************************************************************************)
THEOREM AeadIsExact == Spec => []AeadExact
<1>1. Init => AeadExact
  <2> SUFFICES ASSUME Init PROVE AeadExact
    OBVIOUS
  <2>1. result = <<>>
    BY DEF Init
  <2> QED
    BY <2>1 DEF AeadExact, Finished
<1>2. JobOK /\ AeadExact /\ [Next]_vars => AeadExact'
  <2> SUFFICES ASSUME JobOK, AeadExact, [Next]_vars PROVE AeadExact'
    OBVIOUS
  <2> DEFINE s == Sealed(SealKey, Nonce, Ad, Clear)
             s2 == Sealed(NextKey(SealKey, Nonce), Nonce, Ad, Clear)
             e == Sealed(SealKey, Nonce, <<>>, Clear)
             sealed == Finished("seal") => SealRight(result, s, s2)
             encrypted == Finished("keyenc") => KeyEncRight(result, e)
             block == Finished("block") => BlockIsExact(job.h, job.r, job.c, job.end)
             tag == Finished("tag") => TagIsExact(job.h, job.pad)
  <2>1. AeadExact <=> sealed /\ encrypted /\ block /\ tag
    BY DEF AeadExact, SealRight, KeyEncRight
  <2>2. AeadExact' <=> sealed' /\ encrypted' /\ block' /\ tag'
    BY DEF AeadExact, SealRight, KeyEncRight
  <2>3. job' = job
    BY DEF Next, Done, vars
  <2>4. s' = s /\ s2' = s2 /\ e' = e
    BY <2>3 DEF Nonce, Ad, Clear
  <2> HIDE DEF s, s2, e
  <2>5. /\ SealRight(result, s, s2)' <=> SealRight(result', s, s2)
        /\ KeyEncRight(result, e)' <=> KeyEncRight(result', e)
    BY <2>3, <2>4 DEF SealRight, KeyEncRight, Tampered, Clear
  <2>6. ASSUME Finished("seal")' PROVE SealRight(result', s, s2)
    <3>1. job.do = "seal" /\ result' # <<>>
      BY <2>3, <2>6 DEF Finished
    <3>2. CASE result' = result
      BY <2>1, <3>1, <3>2 DEF Finished
    <3>3. CASE Seal
      <4> DEFINE w == chacha20poly1305write(chacha20poly1305init(SealKey, Nonce), Ad, Clear)
                 reader == chacha20poly1305init(Seen(SealKey), Nonce)
                 r == chacha20poly1305read(reader, Bound(Ad), Tampered(w.out))
      <4>1. result' = <<w.out, r, reader, chacha20poly1305write(w.ctx, Ad, Clear).out,
                        chacha20poly1305write(r.ctx, Ad, Clear).out>>
        BY <3>3 DEF Seal
      <4> QED
        BY ONLY JobOK, <3>1, <4>1, SealAnswers DEF s, s2
    <3>4. result' = result \/ Seal
      BY <3>1 DEF Next, Work, Done, vars, Message, Sink, Sha, Mac, HkdfStep, Pbkdf2Step, ScryptStep,
                  KeyEnc, Round, Field, X25519, Agree
    <3> QED
      BY <3>2, <3>3, <3>4
  <2>7. ASSUME Finished("keyenc")' PROVE KeyEncRight(result', e)
    <3>1. job.do = "keyenc" /\ result' # <<>>
      BY <2>3, <2>7 DEF Finished
    <3>2. CASE result' = result
      BY <2>1, <3>1, <3>2 DEF Finished
    <3>3. CASE KeyEnc
      <4> DEFINE k == keyenc(SealKey, Clear)
      <4>1. result' = <<k, keydec(Seen(SealKey), Tampered(k))>>
        BY <3>3 DEF KeyEnc
      <4> QED
        BY ONLY JobOK, <3>1, <4>1, KeyEncAnswers DEF e
    <3>4. result' = result \/ KeyEnc
      BY <3>1 DEF Next, Work, Done, vars, Message, Sink, Sha, Mac, HkdfStep, Pbkdf2Step, ScryptStep,
                  Seal, Round, Field, X25519, Agree
    <3> QED
      BY <3>2, <3>3, <3>4
  <2>8. block' /\ tag'
    <3>1. /\ job.do = "block" => BlockIsExact(job.h, job.r, job.c, job.end)
          /\ job.do = "tag" => TagIsExact(job.h, job.pad)
      BY PolyJob
    <3> QED
      BY <2>3, <3>1 DEF Finished
  <2> QED
    BY <2>2, <2>5, <2>6, <2>7, <2>8
<1> QED
  BY <1>1, <1>2, JobKept, PTL DEF Spec

-----------------------------------------------------------------------------
(* PBKDF2: an HMAC that is copied before it is finished.                   *)

HmacStreams(ctx, pass, m) ==
    /\ ctx = [inner |-> ctx.inner, outer |-> ctx.outer] /\ IsStr(m)
    /\ Streams(ctx.inner, KeyPad(54, HmacKey(pass)) \o m)
    /\ Streams(ctx.outer, KeyPad(92, HmacKey(pass)))

LEMMA HmacInitStreams ==
    ASSUME NEW pass, IsStr(pass)
    PROVE  HmacStreams(hmacsha256init(pass), pass, <<>>)
<1> DEFINE k == HmacKey(pass)
           a == KeyPad(54, k)
           b == KeyPad(92, k)
           i == sha256update(sha256init, a)
           o == sha256update(sha256init, b)
           c == hmacsha256init(pass)
<1>1. IsStr(a) /\ IsStr(b)
  <2>1. IsStr(k) /\ Len(k) <= BlockLen
    BY HmacKeyIs
  <2> HIDE DEF k
  <2> QED
    BY <2>1, KeyPadIs
<1>2. c = [inner |-> i, outer |-> o]
  <2>1. k = IF Len(pass) > BlockLen THEN sha256(<<pass>>) ELSE pass
    BY HmacKeyIs
  <2> HIDE DEF k
  <2> QED
    BY <2>1 DEF hmacsha256init
<1> HIDE DEF a, b
<1>3. Streams(i, a) /\ Streams(o, b)
  BY <1>1, FirstStreams
<1>4. a \o <<>> = a /\ IsStr(<<>>)
  BY <1>1, StrNothing, StrEmpty
<1> HIDE DEF i, o, c
<1>5. c = [inner |-> c.inner, outer |-> c.outer] /\ c.inner = i /\ c.outer = o
  BY <1>2
<1>6. HmacStreams(c, pass, <<>>)
  BY <1>3, <1>4, <1>5 DEF HmacStreams, a, b, k
<1> QED
  BY <1>6 DEF c

LEMMA HmacUpdateStreams ==
    ASSUME NEW pass, IsStr(pass), NEW ctx, NEW m, HmacStreams(ctx, pass, m), NEW x, IsStr(x)
    PROVE  HmacStreams(hmacsha256update(ctx, x), pass, m \o x)
<1> DEFINE a == KeyPad(54, HmacKey(pass))
           b == KeyPad(92, HmacKey(pass))
           i == sha256update(ctx.inner, x)
           c == hmacsha256update(ctx, x)
<1>1. IsStr(a)
  BY HmacKeyIs, KeyPadIs
<1>2. c = [inner |-> i, outer |-> ctx.outer]
  BY DEF hmacsha256update, HmacStreams
<1> HIDE DEF a, b, c
<1>3. Streams(ctx.inner, a \o m) /\ Streams(ctx.outer, b) /\ IsStr(m)
  BY DEF HmacStreams, a, b
<1>4. Streams(i, (a \o m) \o x)
  BY <1>3, UpdateStreams
<1>5. (a \o m) \o x = a \o (m \o x) /\ IsStr(m \o x)
  BY <1>1, <1>3, StrAssoc, StrCat
<1> HIDE DEF i
<1>6. c = [inner |-> c.inner, outer |-> c.outer] /\ c.inner = i /\ c.outer = ctx.outer
  BY <1>2
<1>7. HmacStreams(c, pass, m \o x)
  BY <1>3, <1>4, <1>5, <1>6 DEF HmacStreams, a, b
<1> QED
  BY <1>7 DEF c

LEMMA HmacFinal ==
    ASSUME NEW pass, IsStr(pass), NEW ctx, NEW m, HmacStreams(ctx, pass, m)
    PROVE  hmacsha256final(ctx) = Hmac(pass, m)
<1> DEFINE a == KeyPad(54, HmacKey(pass))
           b == KeyPad(92, HmacKey(pass))
           d == Hash(a \o m)
<1>1. sha256final(ctx.inner) = d
  BY FinalHash DEF HmacStreams
<1>2. IsStr(d)
  BY DigestIs
<1>3. Hmac(pass, m) = Hash(b \o d)
  BY HmacOf
<1>4. Streams(ctx.outer, b)
  BY DEF HmacStreams
<1> HIDE DEF a, b, d
<1>5. Streams(sha256update(ctx.outer, d), b \o d)
  BY <1>2, <1>4, UpdateStreams
<1>6. sha256final(sha256update(ctx.outer, d)) = Hash(b \o d)
  BY <1>5, FinalHash
<1> QED
  BY <1>1, <1>3, <1>6 DEF hmacsha256final

\* What one HMAC is, begun with the key only or with the key and a first string.
LEMMA HmacAfter ==
    ASSUME NEW pass, IsStr(pass), NEW x, IsStr(x), NEW y, IsStr(y)
    PROVE  /\ hmacsha256final(hmacsha256update(hmacsha256init(pass), x)) = Hmac(pass, x)
           /\ hmacsha256final(hmacsha256update(hmacsha256update(hmacsha256init(pass), x), y))
                = Hmac(pass, x \o y)
<1> DEFINE c == hmacsha256init(pass)
           e == hmacsha256update(c, x)
<1>1. HmacStreams(c, pass, <<>>)
  BY HmacInitStreams
<1> HIDE DEF c
<1>2. HmacStreams(e, pass, <<>> \o x)
  BY <1>1, HmacUpdateStreams
<1>3. HmacStreams(e, pass, x)
  BY <1>2, StrNothing
<1> HIDE DEF e
<1>4. HmacStreams(hmacsha256update(e, y), pass, x \o y)
  BY <1>3, HmacUpdateStreams
<1> QED
  BY <1>3, <1>4, HmacFinal DEF c, e

LEMMA HmacIsStr ==
    ASSUME NEW pass, NEW m, IsStr(pass)
    PROVE  IsStr(Hmac(pass, m)) /\ Len(Hmac(pass, m)) = DigestLen
<1>1. \E x : Hmac(pass, m) = Hash(x)
  BY HmacOf
<1> QED
  BY <1>1, DigestIs

\* Two functions that go the same steps from the same start.
LEMMA SameRun ==
    ASSUME NEW n \in Nat, NEW f, NEW h, f[0] = h[0],
           \A i \in 1..n : f[i - 1] = h[i - 1] => f[i] = h[i]
    PROVE  \A i \in 0..n : f[i] = h[i]
<1> DEFINE P == {k \in Nat : k <= n => f[k] = h[k]}
<1>1. 0 \in P
  OBVIOUS
<1>2. ASSUME NEW k \in Nat, k \in P PROVE k + 1 \in P
  <2> DEFINE m == k + 1
  <2>1. m \in Nat /\ m - 1 = k
    OBVIOUS
  <2> HIDE DEF m
  <2>2. CASE m <= n
    <3>1. m \in 1..n /\ k <= n
      BY <2>1, <2>2
    <3>2. f[k] = h[k]
      BY <1>2, <3>1
    <3>3. f[m] = h[m]
      BY <2>1, <3>1, <3>2
    <3> QED
      BY <2>1, <3>3 DEF m
  <2>3. CASE ~(m <= n)
    BY <2>1, <2>3 DEF m
  <2> QED
    BY <2>2, <2>3
<1> HIDE DEF P
<1>3. Nat \subseteq P
  BY <1>1, <1>2, NatInduct
<1> QED
  BY <1>3 DEF P

LEMMA SameRunFrom1 ==
    ASSUME NEW n \in Nat, NEW f, NEW h, f[1] = h[1],
           \A i \in 2..n : f[i - 1] = h[i - 1] => f[i] = h[i]
    PROVE  \A i \in 1..n : f[i] = h[i]
<1> DEFINE P == {k \in Nat : k + 1 <= n => f[k + 1] = h[k + 1]}
<1>1. 0 \in P
  OBVIOUS
<1>2. ASSUME NEW k \in Nat, k \in P PROVE k + 1 \in P
  <2> DEFINE m == k + 1
             o == m + 1
  <2>1. m \in Nat /\ o - 1 = m /\ o \in Nat /\ m >= 1 /\ o >= 2 /\ m <= o
    OBVIOUS
  <2>2. CASE o <= n
    <3>1. o \in 2..n /\ m <= n
      BY <2>1, <2>2
    <3>2. f[m] = h[m]
      BY <1>2, <3>1
    <3> HIDE DEF o
    <3>3. f[o] = h[o]
      BY <2>1, <3>1, <3>2
    <3> QED
      BY <3>3 DEF o
  <2>3. CASE ~(o <= n)
    BY <2>3
  <2> QED
    BY <2>2, <2>3
<1> HIDE DEF P
<1>3. Nat \subseteq P
  BY <1>1, <1>2, NatInduct
<1>4. ASSUME NEW i \in 1..n PROVE f[i] = h[i]
  <2> DEFINE k == i - 1
  <2>1. k \in Nat /\ k + 1 = i /\ i <= n
    OBVIOUS
  <2> HIDE DEF k
  <2>2. k \in P
    BY <1>3, <2>1
  <2> QED
    BY <2>1, <2>2 DEF P
<1> QED
  BY <1>4

\* The chain of HMACs of one block of PBKDF2.
UIs(g, pass, x, n) ==
    g = [i \in 1..n |-> IF i = 1 THEN x ELSE Hmac(pass, g[i - 1])]
UOf(pass, x, n) == CHOOSE g : UIs(g, pass, x, n)

LEMMA UExists ==
    ASSUME NEW pass, NEW x, NEW n \in Nat
    PROVE  UIs(UOf(pass, x, n), pass, x, n)
<1> DEFINE P == {k \in Nat : \E g : UIs(g, pass, x, k)}
<1>1. 0 \in P
  <2> DEFINE g == [i \in 1..0 |-> x]
  <2>1. \A i \in 1..0 : i = 1
    OBVIOUS
  <2>2. UIs(g, pass, x, 0)
    BY <2>1 DEF UIs
  <2> QED
    BY <2>2
<1>2. ASSUME NEW k \in Nat, k \in P PROVE k + 1 \in P
  <2>1. PICK g : UIs(g, pass, x, k)
    BY <1>2
  <2> DEFINE m == k + 1
             last == IF m = 1 THEN x ELSE Hmac(pass, g[k])
             e == [i \in 1..m |-> IF i = m THEN last ELSE g[i]]
  <2>2. m \in Nat /\ m - 1 = k
    OBVIOUS
  <2>3. \A i \in 1..m : e[i] = IF i = m THEN last ELSE g[i]
    OBVIOUS
  <2>4. e = [i \in 1..m |-> e[i]]
    OBVIOUS
  <2> HIDE DEF e, last
  <2>5. ASSUME NEW i \in 1..m
        PROVE  e[i] = IF i = 1 THEN x ELSE Hmac(pass, e[i - 1])
    <3>1. CASE i = m
      <4>1. i # 1 => m # 1 /\ k \in 1..m /\ k # m
        BY <2>2, <3>1
      <4>2. i # 1 => e[k] = g[k]
        BY <2>3, <4>1
      <4>3. e[m] = last
        BY <2>3, <3>1
      <4> HIDE DEF m
      <4> QED
        BY <2>2, <3>1, <4>2, <4>3 DEF last
    <3>2. CASE i # m
      <4>1. i \in 1..k /\ (i # 1 => i - 1 \in 1..m /\ i - 1 # m)
        BY <2>2, <3>2
      <4>2. g[i] = IF i = 1 THEN x ELSE Hmac(pass, g[i - 1])
        BY <2>1, <4>1 DEF UIs
      <4>3. i # 1 => e[i - 1] = g[i - 1]
        BY <2>3, <4>1
      <4>4. e[i] = g[i]
        BY <2>3, <3>2
      <4> QED
        BY <4>2, <4>3, <4>4
    <3> QED
      BY <3>1, <3>2
  <2>6. UIs(e, pass, x, m)
    BY <2>4, <2>5 DEF UIs
  <2> QED
    BY <2>6
<1> HIDE DEF P
<1>3. Nat \subseteq P
  BY <1>1, <1>2, NatInduct
<1>4. \E g : UIs(g, pass, x, n)
  BY <1>3 DEF P
<1> QED
  BY <1>4 DEF UOf

\* Byte b of the sum of the elements of u.
SumIs(g, u, b, n) ==
    g = [i \in 0..n |-> IF i = 0 THEN {} ELSE XorByte(g[i - 1], u[i][b])]
SumOf(u, b, n) == CHOOSE g : SumIs(g, u, b, n)

LEMMA SumExists ==
    ASSUME NEW u, NEW b, NEW n \in Nat
    PROVE  SumIs(SumOf(u, b, n), u, b, n)
<1> DEFINE P == {k \in Nat : \E g : SumIs(g, u, b, k)}
<1>1. 0 \in P
  <2> DEFINE g == [i \in 0..0 |-> {}]
  <2>1. \A i \in 0..0 : i = 0
    OBVIOUS
  <2>2. SumIs(g, u, b, 0)
    BY <2>1 DEF SumIs
  <2> QED
    BY <2>2
<1>2. ASSUME NEW k \in Nat, k \in P PROVE k + 1 \in P
  <2>1. PICK g : SumIs(g, u, b, k)
    BY <1>2
  <2> DEFINE m == k + 1
             last == IF m = 0 THEN {} ELSE XorByte(g[k], u[m][b])
             e == [i \in 0..m |-> IF i = m THEN last ELSE g[i]]
  <2>2. m \in Nat /\ m - 1 = k
    OBVIOUS
  <2>3. \A i \in 0..m : e[i] = IF i = m THEN last ELSE g[i]
    OBVIOUS
  <2>4. e = [i \in 0..m |-> e[i]]
    OBVIOUS
  <2> HIDE DEF e, last
  <2>5. ASSUME NEW i \in 0..m
        PROVE  e[i] = IF i = 0 THEN {} ELSE XorByte(e[i - 1], u[i][b])
    <3>1. CASE i = m
      <4>1. i # 0 => m # 0 /\ k \in 0..m /\ k # m
        BY <2>2, <3>1
      <4>2. i # 0 => e[k] = g[k]
        BY <2>3, <4>1
      <4>3. e[m] = last
        BY <2>3, <3>1
      <4> HIDE DEF m
      <4> QED
        BY <2>2, <3>1, <4>2, <4>3 DEF last
    <3>2. CASE i # m
      <4>1. i \in 0..k /\ (i # 0 => i - 1 \in 0..m /\ i - 1 # m)
        BY <2>2, <3>2
      <4>2. g[i] = IF i = 0 THEN {} ELSE XorByte(g[i - 1], u[i][b])
        BY <2>1, <4>1 DEF SumIs
      <4>3. i # 0 => e[i - 1] = g[i - 1]
        BY <2>3, <4>1
      <4>4. e[i] = g[i]
        BY <2>3, <3>2
      <4> QED
        BY <4>2, <4>3, <4>4
    <3> QED
      BY <3>1, <3>2
  <2>6. SumIs(e, u, b, m)
    BY <2>4, <2>5 DEF SumIs
  <2> QED
    BY <2>6
<1> HIDE DEF P
<1>3. Nat \subseteq P
  BY <1>1, <1>2, NatInduct
<1>4. \E g : SumIs(g, u, b, n)
  BY <1>3 DEF P
<1> QED
  BY <1>4 DEF SumOf

\* One block of RFC 8018's PBKDF2, from the first HMAC.
TOf(pass, x, n) == [k \in 1..DigestLen |-> SumOf(UOf(pass, x, n), k, n)[n]]

LEMMA IteratedIs ==
    ASSUME NEW pass, IsStr(pass), NEW x, IsStr(x), Len(x) = DigestLen, NEW n \in Nat \ {0}
    PROVE  Iterated(hmacsha256init(pass), x, n).ti = TOf(pass, x, n)
<1> DEFINE L == DigestLen
           w == hmacsha256init(pass)
           U == UOf(pass, x, n)
           S(k) == SumOf(U, k, n)
           hti(c) == [k \in 1..L |-> S(k)[c]]
           Next1(t) == hmacsha256final(hmacsha256update(w, t.u))
           Step(t) == [ti |-> XorBytes(t.ti, Next1(t)), u |-> Next1(t)]
           It(f) == f = [c \in 1..n |-> IF c = 1 THEN [ti |-> x, u |-> x] ELSE Step(f[c - 1])]
           h == [c \in 1..n |-> [ti |-> hti(c), u |-> U[c]]]
           run == CHOOSE f : It(f)
<1>1. n \in Nat /\ L \in Nat /\ n >= 1
  BY HashAssumption
<1>2. \A c \in 1..n : U[c] = IF c = 1 THEN x ELSE Hmac(pass, U[c - 1])
  <2>1. UIs(U, pass, x, n)
    BY <1>1, UExists
  <2> HIDE DEF U
  <2> QED
    BY ONLY <2>1 DEF UIs
<1> HIDE DEF U
<1>3. ASSUME NEW k PROVE \A c \in 0..n : S(k)[c] = IF c = 0 THEN {} ELSE XorByte(S(k)[c - 1], U[c][k])
  <2> DEFINE s == S(k)
  <2>1. SumIs(s, U, k, n)
    BY <1>1, SumExists
  <2> HIDE DEF s
  <2>2. \A c \in 0..n : s[c] = IF c = 0 THEN {} ELSE XorByte(s[c - 1], U[c][k])
    BY ONLY <2>1 DEF SumIs
  <2> QED
    BY <2>2 DEF s
<1> HIDE DEF S
<1>4. ASSUME NEW c \in 1..n PROVE IsStr(U[c]) /\ Len(U[c]) = L
  <2>1. U[c] = x \/ \E m : U[c] = Hmac(pass, m)
    BY <1>2
  <2> QED
    BY <2>1, HmacIsStr
<1>5. hti(1) = x
  <2>1. x = [k \in 1..L |-> x[k]]
    BY StrIs
  <2>2. ASSUME NEW k \in 1..L PROVE S(k)[1] = x[k]
    <3>1. 1 \in 0..n /\ 0 \in 0..n /\ 1 \in 1..n /\ 1 - 1 = 0
      BY <1>1
    <3>2. S(k)[0] = {} /\ S(k)[1] = XorByte(S(k)[0], U[1][k]) /\ U[1] = x
      BY <1>2, <1>3, <3>1
    <3>3. XorByte({}, x[k]) = x[k]
      BY DEF XorByte
    <3> QED
      BY <3>2, <3>3
  <2>3. [k \in 1..L |-> S(k)[1]] = [k \in 1..L |-> x[k]]
    BY <2>2
  <2> QED
    BY <2>1, <2>3
<1>6. ASSUME NEW c \in 2..n PROVE Step([ti |-> hti(c - 1), u |-> U[c - 1]]) = [ti |-> hti(c), u |-> U[c]]
  <2> DEFINE t == [ti |-> hti(c - 1), u |-> U[c - 1]]
  <2>1. c \in 1..n /\ c - 1 \in 1..n /\ c \in 0..n /\ c # 0 /\ c # 1
    BY <1>1
  <2>2. U[c] = Hmac(pass, U[c - 1])
    BY <1>2, <2>1
  <2>3. Next1(t) = U[c]
    <3>1. IsStr(U[c - 1])
      BY <1>4, <2>1
    <3>2. IsStr(<<>>)
      BY StrEmpty
    <3>3. Hmac(pass, U[c - 1]) = hmacsha256final(hmacsha256update(w, U[c - 1]))
      BY <3>1, <3>2, HmacAfter
    <3> HIDE DEF w
    <3> QED
      BY <2>2, <3>3
  <2>4. XorBytes(hti(c - 1), U[c]) = hti(c)
    <3>1. XorBytes(hti(c - 1), U[c]) = [k \in 1..L |-> XorByte(S(k)[c - 1], U[c][k])]
      BY DEF XorBytes
    <3>2. \A k \in 1..L : XorByte(S(k)[c - 1], U[c][k]) = S(k)[c]
      BY <1>3, <2>1
    <3> QED
      BY <3>1, <3>2
  <2> HIDE DEF w
  <2> QED
    BY <2>3, <2>4
<1>7. It(h)
  <2>1. \A c \in 1..n : h[c] = [ti |-> hti(c), u |-> U[c]]
    OBVIOUS
  <2>2. h = [c \in 1..n |-> h[c]]
    OBVIOUS
  <2>3. U[1] = x
    BY <1>1, <1>2
  <2> HIDE DEF h, Step, hti
  <2>4. ASSUME NEW c \in 1..n
        PROVE  h[c] = IF c = 1 THEN [ti |-> x, u |-> x] ELSE Step(h[c - 1])
    <3>1. CASE c = 1
      BY <1>5, <2>1, <2>3, <3>1
    <3>2. CASE c # 1
      <4>1. c \in 2..n /\ c - 1 \in 1..n
        BY <1>1, <3>2
      <4> QED
        BY <1>6, <2>1, <3>2, <4>1
    <3> QED
      BY <3>1, <3>2
  <2> QED
    BY <2>2, <2>4
<1>8. It(run)
  <2> HIDE DEF It, h
  <2> QED
    BY <1>7
<1>9. Iterated(w, x, n) = run[n]
  <2> HIDE DEF w
  <2> QED
    BY DEF Iterated, run, It
<1> HIDE DEF Step, run, h, w
<1>10. \A i \in 1..n : run[i] = h[i]
  <2>1. run[1] = h[1]
    <3>1. 1 \in 1..n
      BY <1>1
    <3> QED
      BY <1>7, <1>8, <3>1
  <2>2. ASSUME NEW i \in 2..n, run[i - 1] = h[i - 1] PROVE run[i] = h[i]
    <3>1. i \in 1..n /\ i # 1
      BY <1>1
    <3> QED
      BY <1>7, <1>8, <2>2, <3>1
  <2> HIDE DEF It
  <2> QED
    BY <1>1, <2>1, <2>2, SameRunFrom1
<1>11. h[n].ti = hti(n)
  <2>1. n \in 1..n
    BY <1>1
  <2> QED
    BY <2>1 DEF h
<1>12. run[n] = h[n]
  BY <1>1, <1>10
<1>13. hti(n) = TOf(pass, x, n)
  BY DEF TOf, S, U
<1> HIDE DEF hti
<1> QED
  BY <1>9, <1>11, <1>12, <1>13 DEF w

\* p is the part of r between a and e.
PartUpTo(p, r, a, b, e) ==
    /\ IsStr(r) /\ a \in Nat /\ b \in Nat /\ e = a + b /\ e <= Len(r)
    /\ PartOf(p, r, a, b)

LEMMA PartJoin ==
    ASSUME NEW r, NEW p, NEW a, NEW b, NEW e, PartUpTo(p, r, a, b, e)
    PROVE  SubSeq(r, 1, a) \o p = SubSeq(r, 1, e)
<1> DEFINE x == SubSeq(r, 1, a)
           y == SubSeq(r, 1, e)
           z == x \o p
<1>0. IsStr(r) /\ a \in Nat /\ b \in Nat /\ e = a + b /\ e <= Len(r)
  BY DEF PartUpTo
<1>1. Len(r) \in Nat /\ a <= Len(r) /\ e \in Nat
  BY <1>0, StrIs
<1>2. IsStr(x) /\ Len(x) = a /\ \A i \in 1..a : x[i] = r[i]
  BY <1>0, <1>1, StrFirst
<1>3. IsStr(y) /\ Len(y) = e /\ \A i \in 1..e : y[i] = r[i]
  BY <1>0, <1>1, StrFirst
<1>4. IsStr(p) /\ Len(p) = b /\ \A i \in 1..b : p[i] = r[a + i]
  BY DEF PartOf, PartUpTo
<1> HIDE DEF x, y
<1>5. IsStr(z) /\ CatOf(z, x, p, a, b)
  <2>1. CatOf(z, x, p, Len(x), Len(p))
    BY <1>2, <1>4, CatIs
  <2> HIDE DEF z
  <2> QED
    BY <1>2, <1>4, <2>1 DEF CatOf
<1> HIDE DEF z
<1>6. Len(z) = e
  BY <1>0, <1>5 DEF CatOf
<1>7. ASSUME NEW i \in 1..e PROVE z[i] = y[i]
  <2>1. CASE i <= a
    <3>1. i \in 1..a
      BY <1>0, <2>1
    <3> QED
      BY <1>2, <1>3, <1>5, <3>1 DEF CatOf
  <2>2. CASE ~(i <= a)
    <3> DEFINE j == i - a
    <3>1. j \in 1..b /\ a + j = i
      BY <1>0, <2>2
    <3> HIDE DEF j
    <3>2. z[a + j] = p[j] /\ p[j] = r[a + j]
      BY <1>4, <1>5, <3>1 DEF CatOf
    <3> QED
      BY <1>3, <3>1, <3>2
  <2> QED
    BY <2>1, <2>2
<1>8. z = y
  BY <1>3, <1>5, <1>6, <1>7, StrEqual
<1> QED
  BY <1>8 DEF x, y, z

\* Where the i-th of the pieces of n bytes ends, pieces having S bytes.
EndOf(i, S, n) == IF i * S <= n THEN i * S ELSE n

\* Pieces of S bytes but for the last, put one after the other.
LEMMA PiecesFlatten ==
    ASSUME NEW S \in Nat \ {0}, NEW r, IsStr(r), NEW B \in Nat \ {0},
           (B - 1) * S < Len(r), Len(r) <= B * S, NEW p, IsStr(p), Len(p) = B,
           \A i \in 1..B : PartOf(p[i], r, (i - 1) * S, EndOf(i, S, Len(r)) - (i - 1) * S)
    PROVE  FlattenSeq(p) = r
<1> DEFINE n == Len(r)
           from(i) == (i - 1) * S
           to(i) == EndOf(i, S, n)
           It(f) == f = [i \in 1..Len(p) |-> IF i = 1 THEN p[i] ELSE f[i - 1] \o p[i]]
           h == [i \in 1..B |-> SubSeq(r, 1, to(i))]
           f == CHOOSE f : It(f)
<1>1. n \in Nat /\ B \in Nat /\ B >= 1
  BY StrIs
<1>2. ASSUME NEW i \in 1..B
      PROVE  /\ from(i) \in Nat /\ to(i) \in Nat /\ from(i) < to(i) /\ to(i) <= n
             /\ i # 1 => to(i - 1) = from(i)
  <2> DEFINE k == i - 1
             b == B - 1
             v == k * S
             w == i * S
  <2>1. k \in Nat /\ b \in Nat /\ k <= b /\ k + 1 = i /\ S \in Nat /\ S > 0
    BY <1>1
  <2>2. v \in Nat /\ w = v + S /\ v <= b * S
    BY ONLY <2>1, Multiples
  <2>3. b * S < n
    OBVIOUS
  <2>4. b * S \in Nat
    BY <2>1
  <2> HIDE DEF v, w, n
  <2>5. v < n
    BY <1>1, <2>2, <2>3, <2>4
  <2>6. to(i) = (IF w <= n THEN w ELSE n) /\ to(k) = (IF v <= n THEN v ELSE n) /\ from(i) = v
    BY DEF EndOf, w, v
  <2> HIDE DEF to, from
  <2> QED
    BY <1>1, <2>1, <2>2, <2>5, <2>6
<1>3. to(B) = n
  BY DEF EndOf
<1>4. from(1) = 0
  OBVIOUS
<1>5. ASSUME NEW i \in 1..B PROVE PartOf(p[i], r, from(i), to(i) - from(i))
  OBVIOUS
<1> HIDE DEF n, from, to
<1>6. It(h)
  <2>1. \A i \in 1..B : h[i] = SubSeq(r, 1, to(i))
    OBVIOUS
  <2>2. h = [i \in 1..B |-> h[i]]
    OBVIOUS
  <2> HIDE DEF h
  <2>3. ASSUME NEW i \in 1..B PROVE h[i] = IF i = 1 THEN p[i] ELSE h[i - 1] \o p[i]
    <3> DEFINE a == from(i)
               e == to(i)
               b == e - a
               x == p[i]
    <3>1. PartUpTo(x, r, a, b, e)
      BY <1>1, <1>2, <1>5 DEF n, PartUpTo
    <3> HIDE DEF a, e, b, x
    <3>2. SubSeq(r, 1, a) \o x = SubSeq(r, 1, e)
      BY ONLY <3>1, PartJoin
    <3>3. CASE i = 1
      <4>1. a = 0
        BY <1>4, <3>3 DEF a
      <4>2. SubSeq(r, 1, 0) = <<>>
        <5>1. IsStr(SubSeq(r, 1, 0)) /\ Len(SubSeq(r, 1, 0)) = 0
          BY <1>1, StrFirst DEF n
        <5> QED
          BY <5>1, StrNull
      <4>3. IsStr(x)
        BY <3>1 DEF PartOf, PartUpTo
      <4>4. <<>> \o x = x
        BY <4>3, StrNothing
      <4> QED
        BY <2>1, <3>2, <3>3, <4>1, <4>2, <4>4 DEF e, x
    <3>4. CASE i # 1
      <4>1. i - 1 \in 1..B
        BY <3>4, <1>1
      <4>2. to(i - 1) = a
        BY <1>2, <3>4 DEF a
      <4>3. h[i - 1] = SubSeq(r, 1, a)
        BY <2>1, <4>1, <4>2
      <4> QED
        BY <2>1, <3>2, <3>4, <4>3 DEF e, x
    <3> QED
      BY <3>3, <3>4
  <2> QED
    BY <2>2, <2>3
<1>7. It(f)
  <2> HIDE DEF It, h
  <2> QED
    BY <1>6
<1>8. FlattenSeq(p) = f[B]
  BY <1>1 DEF FlattenSeq
<1> HIDE DEF f
<1>9. \A i \in 1..B : f[i] = h[i]
  <2>1. ASSUME NEW g, It(g), NEW i \in 1..B PROVE g[i] = IF i = 1 THEN p[i] ELSE g[i - 1] \o p[i]
    BY <2>1
  <2>2. f[1] = h[1]
    <3>1. 1 \in 1..B
      BY <1>1
    <3> HIDE DEF It, h
    <3> QED
      BY <1>6, <1>7, <2>1, <3>1
  <2>3. ASSUME NEW i \in 2..B, f[i - 1] = h[i - 1] PROVE f[i] = h[i]
    <3>1. i \in 1..B /\ i # 1
      BY <1>1
    <3> HIDE DEF It, h
    <3>2. f[i] = f[i - 1] \o p[i] /\ h[i] = h[i - 1] \o p[i]
      BY <1>6, <1>7, <2>1, <3>1
    <3> QED
      BY <2>3, <3>2
  <2>4. \A i \in 2..B : f[i - 1] = h[i - 1] => f[i] = h[i]
    BY <2>3
  <2> HIDE DEF It, h
  <2> QED
    BY ONLY <1>1, <2>2, <2>4, SameRunFrom1
<1>10. h[B] = SubSeq(r, 1, n)
  BY <1>1, <1>3
<1>11. SubSeq(r, 1, n) = r
  BY StrAll DEF n
<1> HIDE DEF h
<1> QED
  BY <1>1, <1>8, <1>9, <1>10, <1>11

\* How many pieces there are.
LEMMA PieceCount ==
    ASSUME NEW S \in Nat \ {0}, NEW n \in Nat, NEW B, B = (n + S - 1) \div S
    PROVE  /\ n = 0 => B = 0
           /\ n # 0 => B \in Nat \ {0} /\ (B - 1) * S < n /\ n <= B * S
<1> DEFINE a == n + S - 1
           v == B * S
           w == (B - 1) * S
<1>1. a \in Nat
  OBVIOUS
<1>2. CASE n = 0
  <2>1. 0 \in Nat /\ S - 1 \in Nat /\ S - 1 < S /\ a = 0 * S + (S - 1)
    BY <1>2
  <2> HIDE DEF a
  <2>2. a \div S = 0
    BY <1>1, <2>1, QuotientIs
  <2> QED
    BY <1>2, <2>2 DEF a
<1>3. CASE n # 0
  <2>1. B \in Nat /\ v <= a /\ a < v + S
    BY <1>1, Quotient
  <2>2. v \in Nat
    BY <2>1
  <2>3. B # 0
    <3> SUFFICES ASSUME B = 0 PROVE FALSE
      OBVIOUS
    <3>1. v = 0
      OBVIOUS
    <3> HIDE DEF v
    <3> QED
      BY <1>3, <2>1, <3>1
  <2>4. v = w + S /\ w \in Nat
    <3> DEFINE k == B - 1
    <3>1. k \in Nat /\ k + 1 = B
      BY <2>1, <2>3
    <3> HIDE DEF k
    <3>2. k * S \in Nat /\ (k + 1) * S = k * S + S
      BY <3>1, Multiples
    <3> QED
      BY <3>1, <3>2 DEF k
  <2> HIDE DEF v, w
  <2>5. n <= v /\ w < n
    BY <2>1, <2>2, <2>4
  <2> QED
    BY <1>3, <2>1, <2>3, <2>5 DEF v, w
<1> QED
  BY <1>2, <1>3

\* The k-th byte of what is derived, T(i) being the i-th block.
ByteAt(k, S, i, j) ==
    S \in Nat \ {0} /\ i \in Nat \ {0} /\ j \in 1..S /\ k = (i - 1) * S + j
PieceOf(k, S) == (k - 1) \div S + 1
PlaceIn(k, S) == ((k - 1) % S) + 1

LEMMA ByteOfPiece ==
    ASSUME NEW k, NEW S, NEW i, NEW j, ByteAt(k, S, i, j)
    PROVE  PieceOf(k, S) = i /\ PlaceIn(k, S) = j
<1>0. S \in Nat \ {0} /\ i \in Nat \ {0} /\ j \in 1..S /\ k = (i - 1) * S + j
  BY DEF ByteAt
<1> DEFINE q == i - 1
           c == j - 1
           a == k - 1
           v == q * S
<1>1. q \in Nat /\ c \in Nat /\ c < S
  BY <1>0
<1>2. v \in Nat
  BY <1>0, <1>1
<1>3. k = v + j
  BY <1>0
<1> HIDE DEF v
<1>4. a \in Nat /\ a = v + c
  BY <1>0, <1>1, <1>2, <1>3
<1> HIDE DEF a, q, c
<1>5. a \div S = q /\ a % S = c
  BY <1>0, <1>1, <1>4, QuotientIs DEF v
<1> QED
  BY <1>0, <1>5 DEF a, q, c, PieceOf, PlaceIn

LEMMA PbkdfExact ==
    ASSUME NEW pass, IsStr(pass), NEW salt, IsStr(salt), NEW n \in Nat \ {0}, NEW bytes \in Nat
    PROVE  pbkdf2(pass, salt, n, bytes) = Pbkdf2(pass, salt, n, bytes)
<1> DEFINE L == DigestLen
           X(i) == Hmac(pass, salt \o BigEndian(i, 4))
           T(i) == TOf(pass, X(i), n)
           ref == [k \in 1..bytes |-> T((k - 1) \div L + 1)[((k - 1) % L) + 1]]
           w == hmacsha256init(pass)
           first(i) == hmacsha256final(hmacsha256update(hmacsha256update(w, salt), BigEndian(i, 4)))
           left(i) == bytes - (i - 1) * L
           size(i) == IF left(i) > L THEN L ELSE left(i)
           B == (bytes + L - 1) \div L
           p == [i \in 1..B |-> SubSeq(Iterated(w, first(i), n).ti, 1, size(i))]
<1>1. L \in Nat \ {0} /\ L \in Nat
  BY HashAssumption
<1>2. Pbkdf2(pass, salt, n, bytes) = ref
  BY DEF Pbkdf2, TOf, UOf, UIs, SumOf, SumIs
<1>3. pbkdf2(pass, salt, n, bytes) = FlattenSeq(p)
  BY DEF pbkdf2
<1>4. \A k \in 1..bytes : ref[k] = T((k - 1) \div L + 1)[((k - 1) % L) + 1]
  OBVIOUS
<1>5. ref = [k \in 1..bytes |-> ref[k]]
  OBVIOUS
<1>6. p = [i \in 1..B |-> p[i]] /\ \A i \in 1..B : p[i] = SubSeq(Iterated(w, first(i), n).ti, 1, size(i))
  OBVIOUS
<1>7. ASSUME NEW i \in Nat PROVE IsStr(X(i)) /\ Len(X(i)) = L /\ first(i) = X(i)
  <2>1. IsStr(BigEndian(i, 4))
    BY BigEndianIs
  <2>2. first(i) = X(i)
    BY <2>1, HmacAfter
  <2> HIDE DEF first
  <2> QED
    BY <2>2, HmacIsStr
<1> HIDE DEF w, first, X
<1>8. ASSUME NEW i \in Nat PROVE Iterated(w, first(i), n).ti = T(i)
  BY <1>7, IteratedIs DEF w
<1>9. ASSUME NEW i PROVE IsStr(T(i)) /\ Len(T(i)) = L
  <2>1. T(i) = [k \in 1..L |-> T(i)[k]]
    BY DEF TOf
  <2> HIDE DEF T
  <2> QED
    BY <1>1, <2>1, FunctionIsStr
<1> HIDE DEF ref, p, T
<1>10. IsStr(ref) /\ Len(ref) = bytes
  BY <1>5, FunctionIsStr
<1>11. /\ bytes = 0 => B = 0
       /\ bytes # 0 => B \in Nat \ {0} /\ (B - 1) * L < bytes /\ bytes <= B * L
  <2> HIDE DEF L
  <2> QED
    BY <1>1, PieceCount
<1>12. B \in Nat
  BY <1>1, <1>11
<1> HIDE DEF B
<1>13. IsStr(p) /\ Len(p) = B
  BY <1>6, <1>12, FunctionIsStr
<1>14. CASE bytes = 0
  <2>1. p = <<>> /\ ref = <<>>
    BY <1>10, <1>11, <1>13, <1>14, StrNull
  <2>2. FlattenSeq(<<>>) = <<>>
    BY DEF FlattenSeq
  <2> QED
    BY <1>2, <1>3, <2>1, <2>2
<1>15. CASE bytes # 0
  <2>1. ASSUME NEW i \in 1..B
        PROVE  PartOf(p[i], ref, (i - 1) * L, EndOf(i, L, bytes) - (i - 1) * L)
    <3> DEFINE k == i - 1
               v == k * L
               u == i * L
               s == size(i)
    <3>1. k \in Nat /\ k <= B - 1 /\ i = k + 1 /\ i \in Nat /\ B - 1 \in Nat /\ i \in Nat \ {0}
      BY <1>12
    <3>2. v \in Nat /\ u = v + L /\ v <= (B - 1) * L /\ (B - 1) * L \in Nat
      BY ONLY <1>1, <3>1, Multiples
    <3>3. v < bytes
      <4> DEFINE b == (B - 1) * L
      <4>1. b < bytes /\ v <= b /\ v \in Nat /\ b \in Nat
        BY <1>11, <1>15, <3>2
      <4> HIDE DEF v, b
      <4> QED
        BY <4>1
    <3>4. s = IF bytes - v > L THEN L ELSE bytes - v
      OBVIOUS
    <3>5. EndOf(i, L, bytes) = IF u <= bytes THEN u ELSE bytes
      BY DEF EndOf
    <3>6. p[i] = SubSeq(T(i), 1, s)
      BY <1>6, <1>8, <3>1
    <3>7. ASSUME NEW j \in 1..L, v + j \in 1..bytes PROVE ref[v + j] = T(i)[j]
      <4> DEFINE o == v + j
      <4>1. (o - 1) \div L + 1 = i /\ ((o - 1) % L) + 1 = j
        <5>1. ByteAt(o, L, i, j)
          BY <1>1, <3>1 DEF ByteAt
        <5>2. PieceOf(o, L) = i /\ PlaceIn(o, L) = j
          BY ONLY <5>1, ByteOfPiece
        <5> QED
          BY <5>2 DEF PieceOf, PlaceIn
      <4>2. o \in 1..bytes
        BY <3>7
      <4>3. ref[o] = T((o - 1) \div L + 1)[((o - 1) % L) + 1]
        BY <1>4, <4>2
      <4> QED
        BY <4>1, <4>3
    <3> HIDE DEF v, u, s, k
    <3>8. s \in Nat /\ s <= L /\ s = EndOf(i, L, bytes) - v /\ v + s <= bytes
      BY <1>1, <3>2, <3>3, <3>4, <3>5
    <3>9. IsStr(p[i]) /\ Len(p[i]) = s /\ \A j \in 1..s : p[i][j] = T(i)[j]
      BY <1>9, <3>6, <3>8, StrFirst
    <3>10. ASSUME NEW j \in 1..s PROVE p[i][j] = ref[v + j]
      <4>1. j \in 1..L /\ v + j \in 1..bytes
        BY <1>1, <3>2, <3>8
      <4> QED
        BY <3>7, <3>9, <4>1
    <3>11. PartOf(p[i], ref, v, s)
      BY <3>8, <3>9, <3>10 DEF PartOf
    <3> QED
      BY <3>8, <3>11 DEF v, k
  <2>2. B \in Nat \ {0} /\ (B - 1) * L < Len(ref) /\ Len(ref) <= B * L
    BY <1>10, <1>11, <1>15
  <2>3. \A i \in 1..B : PartOf(p[i], ref, (i - 1) * L, EndOf(i, L, Len(ref)) - (i - 1) * L)
    BY <1>10, <2>1
  <2> HIDE DEF L
  <2>4. FlattenSeq(p) = ref
    BY ONLY <1>1, <1>10, <1>13, <2>2, <2>3, PiecesFlatten
  <2> QED
    BY <1>2, <1>3, <2>4
<1> QED
  BY <1>14, <1>15

-----------------------------------------------------------------------------
(* scrypt: blocks of WordBits bits.                                        *)

BlockWords == 0 .. WordMod - 1

TwoPower(i) == 2^i

LEMMA Powers ==
    /\ TwoPower(0) = 1 /\ \A i \in 0..16 : TwoPower(i) \in Nat \ {0}
    /\ \A i \in 0..15 : TwoPower(i + 1) = 2 * TwoPower(i)
<1>1. /\ 2^0 = 1 /\ 2^1 = 2 /\ 2^2 = 4 /\ 2^3 = 8 /\ 2^4 = 16 /\ 2^5 = 32
      /\ 2^6 = 64 /\ 2^7 = 128 /\ 2^8 = 256 /\ 2^9 = 512 /\ 2^10 = 1024 /\ 2^11 = 2048
      /\ 2^12 = 4096 /\ 2^13 = 8192 /\ 2^14 = 16384 /\ 2^15 = 32768 /\ 2^16 = 65536
  OBVIOUS
<1>2. ASSUME NEW i \in 0..15 PROVE TwoPower(i) \in Nat \ {0} /\ TwoPower(i + 1) = 2 * TwoPower(i)
  <2>1. CASE i = 0
    <3>1. i + 1 = 1
      BY <2>1
    <3> QED
      BY ONLY <1>1, <2>1, <3>1 DEF TwoPower
  <2>2. CASE i = 1
    <3>1. i + 1 = 2
      BY <2>2
    <3> QED
      BY ONLY <1>1, <2>2, <3>1 DEF TwoPower
  <2>3. CASE i = 2
    <3>1. i + 1 = 3
      BY <2>3
    <3> QED
      BY ONLY <1>1, <2>3, <3>1 DEF TwoPower
  <2>4. CASE i = 3
    <3>1. i + 1 = 4
      BY <2>4
    <3> QED
      BY ONLY <1>1, <2>4, <3>1 DEF TwoPower
  <2>5. CASE i = 4
    <3>1. i + 1 = 5
      BY <2>5
    <3> QED
      BY ONLY <1>1, <2>5, <3>1 DEF TwoPower
  <2>6. CASE i = 5
    <3>1. i + 1 = 6
      BY <2>6
    <3> QED
      BY ONLY <1>1, <2>6, <3>1 DEF TwoPower
  <2>7. CASE i = 6
    <3>1. i + 1 = 7
      BY <2>7
    <3> QED
      BY ONLY <1>1, <2>7, <3>1 DEF TwoPower
  <2>8. CASE i = 7
    <3>1. i + 1 = 8
      BY <2>8
    <3> QED
      BY ONLY <1>1, <2>8, <3>1 DEF TwoPower
  <2>9. CASE i = 8
    <3>1. i + 1 = 9
      BY <2>9
    <3> QED
      BY ONLY <1>1, <2>9, <3>1 DEF TwoPower
  <2>10. CASE i = 9
    <3>1. i + 1 = 10
      BY <2>10
    <3> QED
      BY ONLY <1>1, <2>10, <3>1 DEF TwoPower
  <2>11. CASE i = 10
    <3>1. i + 1 = 11
      BY <2>11
    <3> QED
      BY ONLY <1>1, <2>11, <3>1 DEF TwoPower
  <2>12. CASE i = 11
    <3>1. i + 1 = 12
      BY <2>12
    <3> QED
      BY ONLY <1>1, <2>12, <3>1 DEF TwoPower
  <2>13. CASE i = 12
    <3>1. i + 1 = 13
      BY <2>13
    <3> QED
      BY ONLY <1>1, <2>13, <3>1 DEF TwoPower
  <2>14. CASE i = 13
    <3>1. i + 1 = 14
      BY <2>14
    <3> QED
      BY ONLY <1>1, <2>14, <3>1 DEF TwoPower
  <2>15. CASE i = 14
    <3>1. i + 1 = 15
      BY <2>15
    <3> QED
      BY ONLY <1>1, <2>15, <3>1 DEF TwoPower
  <2>16. CASE i = 15
    <3>1. i + 1 = 16
      BY <2>16
    <3> QED
      BY ONLY <1>1, <2>16, <3>1 DEF TwoPower
  <2> QED
    BY <2>1, <2>2, <2>3, <2>4, <2>5, <2>6, <2>7, <2>8, <2>9, <2>10, <2>11, <2>12, <2>13, <2>14, <2>15, <2>16
<1>3. ASSUME NEW i \in 0..16 PROVE TwoPower(i) \in Nat \ {0}
  <2>1. CASE i \in 0..15
    BY <1>2, <2>1
  <2>2. CASE i = 16
    BY ONLY <1>1, <2>2 DEF TwoPower
  <2>3. i \in 0..15 \/ i = 16
    OBVIOUS
  <2> QED
    BY <2>1, <2>2, <2>3
<1>4. TwoPower(0) = 1
  BY ONLY <1>1 DEF TwoPower
<1> QED
  BY <1>2, <1>3, <1>4

LEMMA WordModIs == WordMod \in Nat \ {0} /\ WordMod = TwoPower(WordBits)
<1>1. WordMod = TwoPower(WordBits)
  BY DEF WordMod, TwoPower
<1>2. WordBits \in 0..16
  BY KdfAssumption
<1>3. TwoPower(WordBits) \in Nat \ {0}
  BY <1>2, Powers
<1> QED
  BY <1>1, <1>3

\* The highest bits of x and y, one more at each step.
UptoIs(g, x, y, w, n) ==
    g = [i \in 0..n |-> IF i = 0 THEN 0 ELSE 2 * g[i - 1] + ((x \div TwoPower(w - i) + y \div TwoPower(w - i)) % 2)]
UptoOf(x, y, w, n) == CHOOSE g : UptoIs(g, x, y, w, n)

LEMMA UptoExists ==
    ASSUME NEW x, NEW y, NEW w, NEW n \in Nat
    PROVE  UptoIs(UptoOf(x, y, w, n), x, y, w, n)
<1> DEFINE P == {k \in Nat : \E g : UptoIs(g, x, y, w, k)}
<1>1. 0 \in P
  <2> DEFINE g == [i \in 0..0 |-> 0]
  <2>1. \A i \in 0..0 : i = 0
    OBVIOUS
  <2>2. UptoIs(g, x, y, w, 0)
    BY <2>1 DEF UptoIs
  <2> QED
    BY <2>2
<1>2. ASSUME NEW k \in Nat, k \in P PROVE k + 1 \in P
  <2>1. PICK g : UptoIs(g, x, y, w, k)
    BY <1>2
  <2> DEFINE m == k + 1
             last == IF m = 0 THEN 0 ELSE 2 * g[k] + ((x \div TwoPower(w - m) + y \div TwoPower(w - m)) % 2)
             e == [i \in 0..m |-> IF i = m THEN last ELSE g[i]]
  <2>2. m \in Nat /\ m - 1 = k
    OBVIOUS
  <2>3. \A i \in 0..m : e[i] = IF i = m THEN last ELSE g[i]
    OBVIOUS
  <2>4. e = [i \in 0..m |-> e[i]]
    OBVIOUS
  <2> HIDE DEF e, last
  <2>5. ASSUME NEW i \in 0..m
        PROVE  e[i] = IF i = 0 THEN 0 ELSE 2 * e[i - 1] + ((x \div TwoPower(w - i) + y \div TwoPower(w - i)) % 2)
    <3>1. CASE i = m
      <4>1. i # 0 => m # 0 /\ k \in 0..m /\ k # m
        BY <2>2, <3>1
      <4>2. i # 0 => e[k] = g[k]
        BY <2>3, <4>1
      <4>3. e[m] = last
        BY <2>3, <3>1
      <4> HIDE DEF m
      <4> QED
        BY <2>2, <3>1, <4>2, <4>3 DEF last
    <3>2. CASE i # m
      <4>1. i \in 0..k /\ (i # 0 => i - 1 \in 0..m /\ i - 1 # m)
        BY <2>2, <3>2
      <4>2. g[i] = IF i = 0 THEN 0 ELSE 2 * g[i - 1] + ((x \div TwoPower(w - i) + y \div TwoPower(w - i)) % 2)
        BY <2>1, <4>1 DEF UptoIs
      <4>3. i # 0 => e[i - 1] = g[i - 1]
        BY <2>3, <4>1
      <4>4. e[i] = g[i]
        BY <2>3, <3>2
      <4> QED
        BY <4>2, <4>3, <4>4
    <3> QED
      BY <3>1, <3>2
  <2>6. UptoIs(e, x, y, w, m)
    BY <2>4, <2>5 DEF UptoIs
  <2> QED
    BY <2>6
<1> HIDE DEF P
<1>3. Nat \subseteq P
  BY <1>1, <1>2, NatInduct
<1>4. \E g : UptoIs(g, x, y, w, n)
  BY <1>3 DEF P
<1> QED
  BY <1>4 DEF UptoOf

\* One more bit of a number.
LEMMA BitMore ==
    ASSUME NEW a \in Nat, NEW p \in Nat, a < p, NEW x \in Nat, NEW y \in Nat,
           NEW q \in Nat \ {0}, NEW c, c = 2 * a + ((x \div q + y \div q) % 2)
    PROVE  c \in Nat /\ c < 2 * p
<1> DEFINE s == x \div q + y \div q
           b == s % 2
<1>1. s \in Nat
  BY Quotient
<1> HIDE DEF s
<1>2. b \in 0..1
  BY <1>1
<1>3. c = 2 * a + b
  BY DEF s
<1> HIDE DEF b
<1> QED
  BY <1>2, <1>3

LEMMA XorInWords ==
    ASSUME NEW x \in BlockWords, NEW y \in BlockWords
    PROVE  Xor(x, y) \in BlockWords
<1> DEFINE w == WordBits
           g == UptoOf(x, y, w, w)
           P == {k \in Nat : k <= w => g[k] \in Nat /\ g[k] < TwoPower(k)}
<1>1. w \in 1..16 /\ w \in Nat
  BY KdfAssumption
<1>2. Xor(x, y) = g[w]
  BY DEF Xor, XorTable, BlockWords, UptoOf, UptoIs, TwoPower
<1>3. \A i \in 0..w : g[i] = IF i = 0 THEN 0
                             ELSE 2 * g[i - 1] + ((x \div TwoPower(w - i) + y \div TwoPower(w - i)) % 2)
  <2>1. UptoIs(g, x, y, w, w)
    BY <1>1, UptoExists
  <2> HIDE DEF g
  <2> QED
    BY ONLY <2>1 DEF UptoIs
<1> HIDE DEF g
<1>4. x \in Nat /\ y \in Nat
  <2>1. WordMod \in Nat
    BY WordModIs
  <2> QED
    BY <2>1 DEF BlockWords
<1>5. 0 \in P
  BY <1>1, <1>3, Powers
<1>6. ASSUME NEW k \in Nat, k \in P PROVE k + 1 \in P
  <2> DEFINE m == k + 1
  <2>1. CASE m <= w
    <3> DEFINE q == TwoPower(w - m)
               p == TwoPower(k)
    <3>1. m \in 0..w /\ m # 0 /\ m - 1 = k /\ k \in 0..15 /\ k \in 0..16 /\ w - m \in 0..16
      BY <1>1, <2>1
    <3>2. g[k] \in Nat /\ g[k] < p
      BY <1>6, <2>1, <1>1
    <3>3. q \in Nat \ {0} /\ p \in Nat /\ TwoPower(m) = 2 * p
      BY <3>1, Powers
    <3>4. g[m] = 2 * g[k] + ((x \div q + y \div q) % 2)
      BY <1>3, <3>1
    <3> HIDE DEF q, p
    <3>5. g[m] \in Nat /\ g[m] < 2 * p
      BY ONLY <1>4, <3>2, <3>3, <3>4, BitMore
    <3> QED
      BY <3>3, <3>5
  <2>2. CASE ~(m <= w)
    BY <2>2
  <2> QED
    BY <2>1, <2>2
<1> HIDE DEF P
<1>7. Nat \subseteq P
  BY <1>5, <1>6, NatInduct
<1>8. g[w] \in Nat /\ g[w] < TwoPower(w)
  BY <1>1, <1>7 DEF P
<1>9. TwoPower(w) \in Nat
  BY <1>1, Powers
<1>10. WordMod = TwoPower(w)
  BY DEF WordMod, TwoPower
<1> HIDE DEF w
<1> QED
  BY <1>2, <1>8, <1>9, <1>10 DEF BlockWords

LEMMA SalsaInWords ==
    ASSUME NEW x \in BlockWords
    PROVE  Salsa(x) \in BlockWords
<1>1. WordMod \in Nat \ {0}
  BY WordModIs
<1>2. x \in Nat
  BY <1>1 DEF BlockWords
<1> DEFINE a == x * (2 * x + 1) + 7
<1>3. a \in Nat
  BY <1>2
<1>4. Salsa(x) = a % WordMod
  BY DEF Salsa
<1> HIDE DEF a
<1> QED
  BY <1>1, <1>3, <1>4 DEF BlockWords

-----------------------------------------------------------------------------
(* scrypt: one chunk mixed.                                                *)

Chunk(b, r) ==
    IsStr(b) /\ Len(b) = 2 * r /\ r \in Nat \ {0} /\ \A i \in 1..(2 * r) : b[i] \in BlockWords
\* A buffer a chunk fits in.
Shaped(b, r) == IsStr(b) /\ Len(b) = 2 * r /\ r \in Nat \ {0}

\* The blocks of a chunk, mixed one after the other.
SaltedIs(g, b, l, n) ==
    g = [i \in 0..n |-> IF i = 0 THEN b[l] ELSE Salsa(Xor(g[i - 1], b[i]))]
SaltedOf(b, l, n) == CHOOSE g : SaltedIs(g, b, l, n)

LEMMA SaltedExists ==
    ASSUME NEW b, NEW l, NEW n \in Nat
    PROVE  SaltedIs(SaltedOf(b, l, n), b, l, n)
<1> DEFINE P == {k \in Nat : \E g : SaltedIs(g, b, l, k)}
<1>1. 0 \in P
  <2> DEFINE g == [i \in 0..0 |-> b[l]]
  <2>1. \A i \in 0..0 : i = 0
    OBVIOUS
  <2>2. SaltedIs(g, b, l, 0)
    BY <2>1 DEF SaltedIs
  <2> QED
    BY <2>2
<1>2. ASSUME NEW k \in Nat, k \in P PROVE k + 1 \in P
  <2>1. PICK g : SaltedIs(g, b, l, k)
    BY <1>2
  <2> DEFINE m == k + 1
             last == IF m = 0 THEN b[l] ELSE Salsa(Xor(g[k], b[m]))
             e == [i \in 0..m |-> IF i = m THEN last ELSE g[i]]
  <2>2. m \in Nat /\ m - 1 = k
    OBVIOUS
  <2>3. \A i \in 0..m : e[i] = IF i = m THEN last ELSE g[i]
    OBVIOUS
  <2>4. e = [i \in 0..m |-> e[i]]
    OBVIOUS
  <2> HIDE DEF e, last
  <2>5. ASSUME NEW i \in 0..m
        PROVE  e[i] = IF i = 0 THEN b[l] ELSE Salsa(Xor(e[i - 1], b[i]))
    <3>1. CASE i = m
      <4>1. i # 0 => m # 0 /\ k \in 0..m /\ k # m
        BY <2>2, <3>1
      <4>2. i # 0 => e[k] = g[k]
        BY <2>3, <4>1
      <4>3. e[m] = last
        BY <2>3, <3>1
      <4> HIDE DEF m
      <4> QED
        BY <2>2, <3>1, <4>2, <4>3 DEF last
    <3>2. CASE i # m
      <4>1. i \in 0..k /\ (i # 0 => i - 1 \in 0..m /\ i - 1 # m)
        BY <2>2, <3>2
      <4>2. g[i] = IF i = 0 THEN b[l] ELSE Salsa(Xor(g[i - 1], b[i]))
        BY <2>1, <4>1 DEF SaltedIs
      <4>3. i # 0 => e[i - 1] = g[i - 1]
        BY <2>3, <4>1
      <4>4. e[i] = g[i]
        BY <2>3, <3>2
      <4> QED
        BY <4>2, <4>3, <4>4
    <3> QED
      BY <3>1, <3>2
  <2>6. SaltedIs(e, b, l, m)
    BY <2>4, <2>5 DEF SaltedIs
  <2> QED
    BY <2>6
<1> HIDE DEF P
<1>3. Nat \subseteq P
  BY <1>1, <1>2, NatInduct
<1>4. \E g : SaltedIs(g, b, l, n)
  BY <1>3 DEF P
<1> QED
  BY <1>4 DEF SaltedOf

\* Which of the mixed blocks comes to place o of 2r.
BlockFor(o, r) == IF o <= r THEN 2 * o - 1 ELSE 2 * (o - r)

HalfBefore(half, i, r) ==
    r \in Nat \ {0} /\ i \in 1..(2 * r) /\ half = IF (i - 1) % 2 = 1 THEN r ELSE 0
PlacedAt(half, i, r) ==
    /\ ((i - 1) \div 2) + half + 1 \in 1..(2 * r)
    /\ \A o \in 1..(2 * r) : BlockFor(o, r) = i <=> o = ((i - 1) \div 2) + half + 1
    /\ HalfAfter(half, r) = IF i % 2 = 1 THEN r ELSE 0

LEMMA BlockForIs ==
    ASSUME NEW r, NEW i, NEW half, HalfBefore(half, i, r)
    PROVE  PlacedAt(half, i, r)
<1>0. r \in Nat \ {0} /\ i \in 1..(2 * r) /\ half = IF (i - 1) % 2 = 1 THEN r ELSE 0
  BY DEF HalfBefore
<1> DEFINE q == (i - 1) \div 2
           at == q + half + 1
<1>1. q \in Nat /\ (i - 1 = 2 * q \/ i - 1 = 2 * q + 1)
  BY <1>0
<1>2. /\ i - 1 = 2 * q => (i - 1) % 2 = 0 /\ i % 2 = 1
      /\ i - 1 = 2 * q + 1 => (i - 1) % 2 = 1 /\ i % 2 = 0
  BY <1>0
<1> HIDE DEF q
<1>3. CASE i - 1 = 2 * q
  BY <1>0, <1>1, <1>2, <1>3 DEF BlockFor, HalfAfter, q, PlacedAt
<1>4. CASE i - 1 = 2 * q + 1
  BY <1>0, <1>1, <1>2, <1>4 DEF BlockFor, HalfAfter, q, PlacedAt
<1> QED
  BY <1>1, <1>3, <1>4

LEMMA BlockMixIs ==
    ASSUME NEW b, NEW r, Shaped(b, r), NEW m, m = 2 * r
    PROVE  BlockMix(b) = [o \in 1..m |-> SaltedOf(b, m, m)[BlockFor(o, r)]]
<1> DEFINE Y == SaltedOf(b, m, m)
           s == [k \in 1..m |-> IF 2 * k <= m THEN Y[2 * k - 1] ELSE Y[2 * (k - (m \div 2))]]
           t == [o \in 1..m |-> Y[BlockFor(o, r)]]
<1>1. Len(b) = m /\ m \in Nat /\ r \in Nat /\ m \div 2 = r
  BY DEF Shaped
<1>2. BlockMix(b) = <<>> \o s
  BY <1>1 DEF BlockMix, SaltedOf, SaltedIs
<1>3. s = [k \in 1..m |-> s[k]]
  OBVIOUS
<1> HIDE DEF Y
<1>4. s = t
  <2>1. ASSUME NEW k \in 1..m
        PROVE  (IF 2 * k <= m THEN Y[2 * k - 1] ELSE Y[2 * (k - (m \div 2))]) = Y[BlockFor(k, r)]
    <3>1. CASE k <= r
      <4>1. 2 * k <= m
        BY <1>1, <3>1
      <4> QED
        BY <3>1, <4>1 DEF BlockFor
    <3>2. CASE ~(k <= r)
      <4>1. ~(2 * k <= m)
        BY <1>1, <3>2
      <4> QED
        BY <1>1, <3>2, <4>1 DEF BlockFor
    <3> QED
      BY <3>1, <3>2
  <2> QED
    BY <2>1
<1> HIDE DEF s
<1>5. <<>> \o s = s
  <2>1. IsStr(s)
    BY <1>1, <1>3, FunctionIsStr
  <2> QED
    BY <2>1, StrNothing
<1> QED
  BY <1>2, <1>4, <1>5 DEF t, Y

LEMMA BlockForIn ==
    ASSUME NEW r \in Nat \ {0}, NEW o \in 1..(2 * r)
    PROVE  BlockFor(o, r) \in 1..(2 * r)
  BY DEF BlockFor

LEMMA BlockMixChunk ==
    ASSUME NEW b, NEW r, Chunk(b, r)
    PROVE  Chunk(BlockMix(b), r)
<1> DEFINE m == 2 * r
           Y == SaltedOf(b, m, m)
           x == BlockMix(b)
           P == {k \in Nat : k <= m => Y[k] \in BlockWords}
<1>1. m \in Nat /\ m >= 1 /\ r \in Nat \ {0} /\ \A i \in 1..m : b[i] \in BlockWords
  BY DEF Chunk
<1>2. Shaped(b, r)
  BY DEF Shaped, Chunk
<1>3. x = [o \in 1..m |-> Y[BlockFor(o, r)]]
  BY <1>2, BlockMixIs
<1>4. \A i \in 0..m : Y[i] = IF i = 0 THEN b[m] ELSE Salsa(Xor(Y[i - 1], b[i]))
  <2>1. SaltedIs(Y, b, m, m)
    BY <1>1, SaltedExists
  <2> HIDE DEF Y
  <2> QED
    BY ONLY <2>1 DEF SaltedIs
<1> HIDE DEF Y, x, m
<1>5. 0 \in P
  BY <1>1, <1>4
<1>6. ASSUME NEW k \in Nat, k \in P PROVE k + 1 \in P
  <2> DEFINE l == k + 1
  <2>1. CASE l <= m
    <3>1. l \in 1..m /\ l \in 0..m /\ l # 0 /\ l - 1 = k /\ k <= m
      BY <1>1, <2>1
    <3>2. Y[k] \in BlockWords /\ b[l] \in BlockWords
      BY <1>1, <1>6, <3>1
    <3>3. Salsa(Xor(Y[k], b[l])) \in BlockWords
      BY <3>2, XorInWords, SalsaInWords
    <3>4. Y[l] = Salsa(Xor(Y[k], b[l]))
      BY <1>4, <3>1
    <3> QED
      BY <3>3, <3>4
  <2>2. CASE ~(l <= m)
    BY <2>2
  <2> QED
    BY <2>1, <2>2
<1> HIDE DEF P
<1>7. Nat \subseteq P
  BY <1>5, <1>6, NatInduct
<1>8. ASSUME NEW o \in 1..m PROVE x[o] \in BlockWords
  <2>1. BlockFor(o, r) \in 1..m
    BY <1>1, BlockForIn DEF m
  <2>2. Y[BlockFor(o, r)] \in BlockWords
    BY <1>1, <1>7, <2>1 DEF P
  <2> QED
    BY <1>3, <2>2
<1>9. IsStr(x) /\ Len(x) = m
  <2>1. x = [o \in 1..m |-> x[o]]
    BY <1>3
  <2> QED
    BY <1>1, <2>1, FunctionIsStr
<1> QED
  BY <1>1, <1>8, <1>9 DEF Chunk, x, m

\* What a chunk is xored with before it is mixed: nothing, or another.
XoredAs(b, bin, bxor, r) ==
    /\ Shaped(b, r)
    /\ \A i \in 1..(2 * r) : b[i] = IF bxor = <<>> THEN bin[i] ELSE Xor(bin[i], bxor[i])

LEMMA ChunkMixIs ==
    ASSUME NEW b, NEW bin, NEW bxor, NEW r, XoredAs(b, bin, bxor, r), NEW bout, Shaped(bout, r)
    PROVE  chunkmix(bout, bin, bxor, r) = BlockMix(b)
<1> DEFINE m == 2 * r
           Y == SaltedOf(b, m, m)
           half(i) == IF i % 2 = 1 THEN r ELSE 0
           out(i) == [o \in 1..m |-> IF BlockFor(o, r) <= i THEN Y[BlockFor(o, r)] ELSE bout[o]]
           h == [i \in 0..m |-> [x |-> Y[i], half |-> half(i), out |-> out(i)]]
           xored(i) == IF bxor = <<>> THEN bin[i] ELSE Xor(bin[i], bxor[i])
           Mix(t, i) == LET x == Salsa(Xor(t.x, xored(i)))
                        IN [x |-> x, half |-> HalfAfter(t.half, r),
                            out |-> ReplaceAt(t.out, ((i - 1) \div 2) + t.half + 1, x)]
           It(f) == f = [i \in 0..m |-> IF i = 0 THEN [x |-> xored(m), half |-> 0, out |-> bout]
                                        ELSE Mix(f[i - 1], i)]
           mixed == CHOOSE f : It(f)
<1>1. m \in Nat /\ m >= 1 /\ r \in Nat \ {0} /\ Shaped(b, r)
  BY DEF Shaped, XoredAs
<1>2. \A i \in 1..m : b[i] = xored(i)
  BY DEF XoredAs
<1>3. \A i \in 0..m : Y[i] = IF i = 0 THEN b[m] ELSE Salsa(Xor(Y[i - 1], b[i]))
  <2>1. SaltedIs(Y, b, m, m)
    BY <1>1, SaltedExists
  <2> HIDE DEF Y
  <2> QED
    BY ONLY <2>1 DEF SaltedIs
<1>4. BlockMix(b) = [o \in 1..m |-> Y[BlockFor(o, r)]]
  BY <1>1, BlockMixIs
<1>5. bout = [o \in 1..m |-> bout[o]]
  BY StrIs DEF Shaped
<1> HIDE DEF Y, xored, m
<1>6. out(0) = bout
  <2>1. ASSUME NEW o \in 1..m PROVE ~(BlockFor(o, r) <= 0)
    BY <1>1, BlockForIn DEF m
  <2>2. out(0) = [o \in 1..m |-> bout[o]]
    BY <2>1
  <2> QED
    BY <1>5, <2>2
<1>7. out(m) = BlockMix(b)
  <2>1. ASSUME NEW o \in 1..m PROVE BlockFor(o, r) <= m
    BY <1>1, BlockForIn DEF m
  <2>2. out(m) = [o \in 1..m |-> Y[BlockFor(o, r)]]
    BY <2>1
  <2> QED
    BY <1>4, <2>2
<1>8. ASSUME NEW i \in 1..m
      PROVE  Mix([x |-> Y[i - 1], half |-> half(i - 1), out |-> out(i - 1)], i)
               = [x |-> Y[i], half |-> half(i), out |-> out(i)]
  <2> DEFINE at == ((i - 1) \div 2) + half(i - 1) + 1
             t == [x |-> Y[i - 1], half |-> half(i - 1), out |-> out(i - 1)]
  <2>1. i \in 0..m /\ i # 0 /\ i - 1 \in 0..m
    BY <1>1
  <2>2. Salsa(Xor(Y[i - 1], xored(i))) = Y[i]
    BY <1>2, <1>3, <2>1
  <2>3. /\ at \in 1..m /\ \A o \in 1..m : BlockFor(o, r) = i <=> o = at
        /\ HalfAfter(half(i - 1), r) = half(i)
    <3> DEFINE v == half(i - 1)
    <3>1. HalfBefore(v, i, r)
      BY <1>1 DEF m, HalfBefore
    <3> HIDE DEF v
    <3>2. PlacedAt(v, i, r)
      BY ONLY <3>1, BlockForIs
    <3> QED
      BY <3>2 DEF v, m, PlacedAt
  <2>4. [out(i - 1) EXCEPT ![at] = Y[i]] = out(i)
    <3>1. ASSUME NEW o \in 1..m
          PROVE  /\ BlockFor(o, r) \in 1..m
                 /\ o # at => (BlockFor(o, r) <= i <=> BlockFor(o, r) <= i - 1)
                 /\ o = at => BlockFor(o, r) = i /\ BlockFor(o, r) <= i
      <4>1. BlockFor(o, r) \in 1..m
        BY <1>1, BlockForIn DEF m
      <4>2. BlockFor(o, r) = i <=> o = at
        BY <2>3
      <4> HIDE DEF at
      <4> QED
        BY <1>1, <4>1, <4>2
    <3> DEFINE p == out(i - 1)
               q == [p EXCEPT ![at] = Y[i]]
    <3>2. q = [o \in 1..m |-> IF o = at THEN Y[i] ELSE p[o]]
      BY <2>3
    <3>3. ASSUME NEW o \in 1..m
          PROVE  (IF o = at THEN Y[i] ELSE p[o])
                   = IF BlockFor(o, r) <= i THEN Y[BlockFor(o, r)] ELSE bout[o]
      <4>1. p[o] = IF BlockFor(o, r) <= i - 1 THEN Y[BlockFor(o, r)] ELSE bout[o]
        OBVIOUS
      <4> HIDE DEF p, at
      <4> QED
        BY <3>1, <4>1
    <3> HIDE DEF at
    <3>4. [o \in 1..m |-> IF o = at THEN Y[i] ELSE p[o]] = out(i)
      BY <3>3
    <3> QED
      BY <3>2, <3>4
  <2>5. Mix(t, i) = [x |-> Salsa(Xor(Y[i - 1], xored(i))), half |-> HalfAfter(half(i - 1), r),
                     out |-> [out(i - 1) EXCEPT ![at] = Salsa(Xor(Y[i - 1], xored(i)))]]
    BY DEF ReplaceAt
  <2> HIDE DEF Mix, out, half, at
  <2> QED
    BY <2>2, <2>3, <2>4, <2>5
<1>9. xored(m) = Y[0]
  <2>1. m \in 1..m /\ 0 \in 0..m
    BY <1>1
  <2> QED
    BY <1>2, <1>3, <2>1
<1>10. half(0) = 0
  OBVIOUS
<1>11. It(h)
  <2>1. \A i \in 0..m : h[i] = [x |-> Y[i], half |-> half(i), out |-> out(i)]
    OBVIOUS
  <2>2. h = [i \in 0..m |-> h[i]]
    OBVIOUS
  <2> HIDE DEF h, Mix, out, half
  <2>3. ASSUME NEW i \in 0..m
        PROVE  h[i] = IF i = 0 THEN [x |-> xored(m), half |-> 0, out |-> bout] ELSE Mix(h[i - 1], i)
    <3>1. CASE i = 0
      BY <1>6, <1>9, <1>10, <2>1, <3>1
    <3>2. CASE i # 0
      <4>1. i \in 1..m /\ i - 1 \in 0..m
        BY <1>1, <3>2
      <4> QED
        BY <1>8, <2>1, <3>2, <4>1
    <3> QED
      BY <3>1, <3>2
  <2> QED
    BY <2>2, <2>3
<1>12. It(mixed)
  <2> HIDE DEF It, h
  <2> QED
    BY <1>11
<1>13. chunkmix(bout, bin, bxor, r) = mixed[m].out
  BY DEF chunkmix, m, xored
<1> HIDE DEF mixed, h, Mix
<1>14. mixed[0] = h[0]
  <2>1. 0 \in 0..m
    BY <1>1
  <2> QED
    BY <1>11, <1>12, <2>1
<1>15. \A i \in 1..m : mixed[i - 1] = h[i - 1] => mixed[i] = h[i]
  <2> SUFFICES ASSUME NEW i \in 1..m, mixed[i - 1] = h[i - 1] PROVE mixed[i] = h[i]
    OBVIOUS
  <2>1. i \in 0..m /\ i # 0
    BY <1>1
  <2>2. mixed[i] = Mix(mixed[i - 1], i) /\ h[i] = Mix(h[i - 1], i)
    BY <1>11, <1>12, <2>1
  <2> QED
    BY <2>2
<1> HIDE DEF It
<1>16. \A i \in 0..m : mixed[i] = h[i]
  BY ONLY <1>1, <1>14, <1>15, SameRun
<1>17. m \in 0..m
  BY <1>1
<1>18. h[m].out = out(m)
  BY <1>17 DEF h
<1> HIDE DEF out
<1> QED
  BY <1>7, <1>13, <1>16, <1>17, <1>18

XorChunk(x, y, l) == <<>> \o [o \in 1..l |-> Xor(x[o], y[o])]

Mixes(bout, x, y, r, l) ==
    /\ chunkmix(bout, x, <<>>, r) = BlockMix(x)
    /\ chunkmix(bout, x, y, r) = BlockMix(XorChunk(x, y, l))
    /\ Chunk(BlockMix(XorChunk(x, y, l)), r)

LEMMA ChunkMixes ==
    ASSUME NEW r, NEW bout, Shaped(bout, r), NEW x, Chunk(x, r), NEW y, Chunk(y, r), NEW l, l = 2 * r
    PROVE  Mixes(bout, x, y, r, l)
<1> DEFINE s == [o \in 1..l |-> Xor(x[o], y[o])]
           b == XorChunk(x, y, l)
<1>1. l \in Nat /\ l >= 1 /\ r \in Nat \ {0}
  BY DEF Chunk
<1>2. IsStr(s) /\ Len(s) = l /\ \A o \in 1..l : s[o] = Xor(x[o], y[o])
  <2>1. s = [o \in 1..l |-> s[o]] /\ \A o \in 1..l : s[o] = Xor(x[o], y[o])
    OBVIOUS
  <2> HIDE DEF s
  <2> QED
    BY <1>1, <2>1, FunctionIsStr
<1>3. b = s
  <2>1. b = <<>> \o s
    BY DEF XorChunk
  <2> HIDE DEF s, b
  <2> QED
    BY <1>2, <2>1, StrNothing
<1> HIDE DEF s, b
<1>4. y # <<>>
  BY <1>1, StrEmpty DEF Chunk
<1>5. XoredAs(x, x, <<>>, r) /\ XoredAs(b, x, y, r)
  BY <1>1, <1>2, <1>3, <1>4 DEF XoredAs, Shaped, Chunk
<1>6. Chunk(b, r)
  <2>1. ASSUME NEW o \in 1..l PROVE b[o] \in BlockWords
    BY <1>2, <1>3, XorInWords DEF Chunk
  <2> QED
    BY <1>1, <1>2, <1>3, <2>1 DEF Chunk
<1> QED
  BY <1>5, <1>6, ChunkMixIs, BlockMixChunk DEF b, Mixes

-----------------------------------------------------------------------------
(* scrypt: one lane mixed.                                                 *)

\* The chunks v is filled with.
StoredIs(g, b, n) ==
    g = [i \in 0..n |-> IF i = 0 THEN b ELSE BlockMix(g[i - 1])]
StoredOf(b, n) == CHOOSE g : StoredIs(g, b, n)

LEMMA StoredExists ==
    ASSUME NEW b, NEW n \in Nat
    PROVE  StoredIs(StoredOf(b, n), b, n)
<1> DEFINE P == {k \in Nat : \E g : StoredIs(g, b, k)}
<1>1. 0 \in P
  <2> DEFINE g == [i \in 0..0 |-> b]
  <2>1. \A i \in 0..0 : i = 0
    OBVIOUS
  <2>2. StoredIs(g, b, 0)
    BY <2>1 DEF StoredIs
  <2> QED
    BY <2>2
<1>2. ASSUME NEW k \in Nat, k \in P PROVE k + 1 \in P
  <2>1. PICK g : StoredIs(g, b, k)
    BY <1>2
  <2> DEFINE m == k + 1
             last == IF m = 0 THEN b ELSE BlockMix(g[k])
             e == [i \in 0..m |-> IF i = m THEN last ELSE g[i]]
  <2>2. m \in Nat /\ m - 1 = k
    OBVIOUS
  <2>3. \A i \in 0..m : e[i] = IF i = m THEN last ELSE g[i]
    OBVIOUS
  <2>4. e = [i \in 0..m |-> e[i]]
    OBVIOUS
  <2> HIDE DEF e, last
  <2>5. ASSUME NEW i \in 0..m
        PROVE  e[i] = IF i = 0 THEN b ELSE BlockMix(e[i - 1])
    <3>1. CASE i = m
      <4>1. i # 0 => m # 0 /\ k \in 0..m /\ k # m
        BY <2>2, <3>1
      <4>2. i # 0 => e[k] = g[k]
        BY <2>3, <4>1
      <4>3. e[m] = last
        BY <2>3, <3>1
      <4> HIDE DEF m
      <4> QED
        BY <2>2, <3>1, <4>2, <4>3 DEF last
    <3>2. CASE i # m
      <4>1. i \in 0..k /\ (i # 0 => i - 1 \in 0..m /\ i - 1 # m)
        BY <2>2, <3>2
      <4>2. g[i] = IF i = 0 THEN b ELSE BlockMix(g[i - 1])
        BY <2>1, <4>1 DEF StoredIs
      <4>3. i # 0 => e[i - 1] = g[i - 1]
        BY <2>3, <4>1
      <4>4. e[i] = g[i]
        BY <2>3, <3>2
      <4> QED
        BY <4>2, <4>3, <4>4
    <3> QED
      BY <3>1, <3>2
  <2>6. StoredIs(e, b, m)
    BY <2>4, <2>5 DEF StoredIs
  <2> QED
    BY <2>6
<1> HIDE DEF P
<1>3. Nat \subseteq P
  BY <1>1, <1>2, NatInduct
<1>4. \E g : StoredIs(g, b, n)
  BY <1>3 DEF P
<1> QED
  BY <1>4 DEF StoredOf

\* The chunk that is worked on, c being the cost.
WorkedIs(g, v, l, c, n) ==
    g = [i \in 0..n |-> IF i = 0 THEN v[c] ELSE BlockMix(XorChunk(g[i - 1], v[g[i - 1][l] % c], l))]
WorkedOf(v, l, c, n) == CHOOSE g : WorkedIs(g, v, l, c, n)

LEMMA WorkedExists ==
    ASSUME NEW v, NEW l, NEW c, NEW n \in Nat
    PROVE  WorkedIs(WorkedOf(v, l, c, n), v, l, c, n)
<1> DEFINE P == {k \in Nat : \E g : WorkedIs(g, v, l, c, k)}
<1>1. 0 \in P
  <2> DEFINE g == [i \in 0..0 |-> v[c]]
  <2>1. \A i \in 0..0 : i = 0
    OBVIOUS
  <2>2. WorkedIs(g, v, l, c, 0)
    BY <2>1 DEF WorkedIs
  <2> QED
    BY <2>2
<1>2. ASSUME NEW k \in Nat, k \in P PROVE k + 1 \in P
  <2>1. PICK g : WorkedIs(g, v, l, c, k)
    BY <1>2
  <2> DEFINE m == k + 1
             last == IF m = 0 THEN v[c] ELSE BlockMix(XorChunk(g[k], v[g[k][l] % c], l))
             e == [i \in 0..m |-> IF i = m THEN last ELSE g[i]]
  <2>2. m \in Nat /\ m - 1 = k
    OBVIOUS
  <2>3. \A i \in 0..m : e[i] = IF i = m THEN last ELSE g[i]
    OBVIOUS
  <2>4. e = [i \in 0..m |-> e[i]]
    OBVIOUS
  <2> HIDE DEF e, last
  <2>5. ASSUME NEW i \in 0..m
        PROVE  e[i] = IF i = 0 THEN v[c] ELSE BlockMix(XorChunk(e[i - 1], v[e[i - 1][l] % c], l))
    <3>1. CASE i = m
      <4>1. i # 0 => m # 0 /\ k \in 0..m /\ k # m
        BY <2>2, <3>1
      <4>2. i # 0 => e[k] = g[k]
        BY <2>3, <4>1
      <4>3. e[m] = last
        BY <2>3, <3>1
      <4> HIDE DEF m
      <4> QED
        BY <2>2, <3>1, <4>2, <4>3 DEF last
    <3>2. CASE i # m
      <4>1. i \in 0..k /\ (i # 0 => i - 1 \in 0..m /\ i - 1 # m)
        BY <2>2, <3>2
      <4>2. g[i] = IF i = 0 THEN v[c] ELSE BlockMix(XorChunk(g[i - 1], v[g[i - 1][l] % c], l))
        BY <2>1, <4>1 DEF WorkedIs
      <4>3. i # 0 => e[i - 1] = g[i - 1]
        BY <2>3, <4>1
      <4>4. e[i] = g[i]
        BY <2>3, <3>2
      <4> QED
        BY <4>2, <4>3, <4>4
    <3> QED
      BY <3>1, <3>2
  <2>6. WorkedIs(e, v, l, c, m)
    BY <2>4, <2>5 DEF WorkedIs
  <2> QED
    BY <2>6
<1> HIDE DEF P
<1>3. Nat \subseteq P
  BY <1>1, <1>2, NatInduct
<1>4. \E g : WorkedIs(g, v, l, c, n)
  BY <1>3 DEF P
<1> QED
  BY <1>4 DEF WorkedOf

Stores(V, b, n, r) ==
    /\ \A i \in 0..n : Chunk(V[i], r)
    /\ V[0] = b /\ \A i \in 1..n : V[i] = BlockMix(V[i - 1])

LEMMA StoredChunks ==
    ASSUME NEW b, NEW r, Chunk(b, r), NEW n \in Nat, NEW V, V = StoredOf(b, n)
    PROVE  Stores(V, b, n, r)
<1> DEFINE P == {k \in Nat : k <= n => Chunk(V[k], r)}
<1>1. \A i \in 0..n : V[i] = IF i = 0 THEN b ELSE BlockMix(V[i - 1])
  <2>1. StoredIs(V, b, n)
    BY StoredExists
  <2> QED
    BY ONLY <2>1 DEF StoredIs
<1>2. V[0] = b /\ \A i \in 1..n : V[i] = BlockMix(V[i - 1])
  <2>1. 0 \in 0..n /\ \A i \in 1..n : i \in 0..n /\ i # 0
    OBVIOUS
  <2> QED
    BY <1>1, <2>1
<1>3. 0 \in P
  BY <1>2
<1>4. ASSUME NEW k \in Nat, k \in P PROVE k + 1 \in P
  <2> DEFINE m == k + 1
  <2>1. CASE m <= n
    <3>1. m \in 1..n /\ m - 1 = k /\ k <= n
      BY <2>1
    <3>2. Chunk(V[k], r)
      BY <1>4, <3>1
    <3>3. V[m] = BlockMix(V[k])
      BY <1>2, <3>1
    <3>4. Chunk(V[m], r)
      BY <3>2, <3>3, BlockMixChunk
    <3> QED
      BY <3>4
  <2>2. CASE ~(m <= n)
    BY <2>2
  <2> QED
    BY <2>1, <2>2
<1> HIDE DEF P
<1>5. Nat \subseteq P
  BY <1>3, <1>4, NatInduct
<1>6. ASSUME NEW i \in 0..n PROVE Chunk(V[i], r)
  BY <1>5 DEF P
<1> QED
  BY <1>2, <1>6 DEF Stores

LEMMA PickIn ==
    ASSUME NEW x, NEW r, Chunk(x, r), NEW c \in Nat \ {0}
    PROVE  x[2 * r] % c \in 0..(c - 1) /\ x[2 * r] \in Nat
<1> DEFINE a == x[2 * r]
<1>1. a \in Nat
  <2>1. a \in BlockWords
    BY DEF Chunk
  <2> HIDE DEF a
  <2> QED
    BY <2>1, WordModIs DEF BlockWords
<1> HIDE DEF a
<1>2. a % c \in 0..(c - 1)
  BY <1>1
<1> QED
  BY <1>1, <1>2 DEF a

Works(X, v, l, c, r) ==
    /\ \A i \in 0..c : Chunk(X[i], r)
    /\ X[0] = v[c]
    /\ \A i \in 1..c : X[i] = BlockMix(XorChunk(X[i - 1], v[X[i - 1][l] % c], l))

LEMMA WorkedChunks ==
    ASSUME NEW v, NEW b, NEW r, NEW c \in Nat \ {0}, Stores(v, b, c, r),
           NEW l, l = 2 * r, NEW X, X = WorkedOf(v, l, c, c)
    PROVE  Works(X, v, l, c, r)
<1>0. \A i \in 0..c : Chunk(v[i], r)
  BY DEF Stores
<1> DEFINE P == {k \in Nat : k <= c => Chunk(X[k], r)}
<1>1. \A i \in 0..c : X[i] = IF i = 0 THEN v[c]
                             ELSE BlockMix(XorChunk(X[i - 1], v[X[i - 1][l] % c], l))
  <2>1. WorkedIs(X, v, l, c, c)
    BY WorkedExists
  <2> QED
    BY ONLY <2>1 DEF WorkedIs
<1>2. X[0] = v[c] /\ \A i \in 1..c : X[i] = BlockMix(XorChunk(X[i - 1], v[X[i - 1][l] % c], l))
  <2>1. 0 \in 0..c /\ \A i \in 1..c : i \in 0..c /\ i # 0
    OBVIOUS
  <2> QED
    BY <1>1, <2>1
<1>3. 0 \in P
  BY <1>0, <1>2
<1>4. ASSUME NEW k \in Nat, k \in P PROVE k + 1 \in P
  <2> DEFINE m == k + 1
             x == X[k]
             y == v[x[l] % c]
  <2>1. CASE m <= c
    <3>1. m \in 1..c /\ m - 1 = k /\ k <= c
      BY <2>1
    <3>2. Chunk(x, r)
      BY <1>4, <3>1
    <3>3. X[m] = BlockMix(XorChunk(x, y, l))
      BY <1>2, <3>1
    <3>4. Chunk(y, r)
      <4> HIDE DEF x
      <4>1. x[l] % c \in 0..c
        BY <3>2, PickIn
      <4> QED
        BY <1>0, <4>1
    <3>5. Shaped(x, r)
      BY <3>2 DEF Chunk, Shaped
    <3> HIDE DEF x, y
    <3>6. Chunk(BlockMix(XorChunk(x, y, l)), r)
      BY <3>2, <3>4, <3>5, ChunkMixes DEF Mixes
    <3> QED
      BY <3>3, <3>6
  <2>2. CASE ~(m <= c)
    BY <2>2
  <2> QED
    BY <2>1, <2>2
<1> HIDE DEF P
<1>5. Nat \subseteq P
  BY <1>3, <1>4, NatInduct
<1>6. ASSUME NEW i \in 0..c PROVE Chunk(X[i], r)
  BY <1>5 DEF P
<1> QED
  BY <1>2, <1>6 DEF Works

LEMMA FillingIs ==
    ASSUME NEW x, NEW r, Chunk(x, r), NEW n \in Nat \ {0}, NEW V, V = StoredOf(x, n),
           NEW v, IsStr(v), Len(v) = n, \A k \in 1..n : Shaped(v[k], r)
    PROVE  Filling(x, v, n, r) = [k \in 1..n |-> V[k - 1]]
<1> DEFINE at(i) == [k \in 1..n |-> IF k <= i THEN V[k - 1] ELSE v[k]]
           h == [i \in 1..n |-> at(i)]
           Fill(w, i) == ReplaceAt(w, i, chunkmix(w[i], w[i - 1], <<>>, r))
           It(f) == f = [i \in 1..n |-> IF i = 1 THEN ReplaceAt(v, 1, x) ELSE Fill(f[i - 1], i)]
           fill == CHOOSE f : It(f)
<1>1. n \in Nat /\ n >= 1 /\ 1 \in 1..n /\ n \in 1..n
  OBVIOUS
<1>2. /\ \A i \in 0..n : Chunk(V[i], r)
      /\ V[0] = x /\ \A i \in 1..n : V[i] = BlockMix(V[i - 1])
  <2>1. Stores(V, x, n, r)
    BY ONLY <1>1, Chunk(x, r), V = StoredOf(x, n), StoredChunks
  <2> QED
    BY <2>1 DEF Stores
<1>3. v = [k \in 1..n |-> v[k]]
  BY StrIs
<1>4. ReplaceAt(v, 1, x) = at(1)
  <2>1. [v EXCEPT ![1] = x] = [k \in 1..n |-> IF k = 1 THEN x ELSE v[k]]
    BY <1>1, <1>3
  <2>2. ASSUME NEW k \in 1..n
        PROVE  (IF k = 1 THEN x ELSE v[k]) = IF k <= 1 THEN V[k - 1] ELSE v[k]
    <3>1. k = 1 <=> k <= 1
      OBVIOUS
    <3> QED
      BY <1>2, <3>1
  <2>3. [k \in 1..n |-> IF k = 1 THEN x ELSE v[k]] = at(1)
    BY <2>2
  <2> QED
    BY <2>1, <2>3 DEF ReplaceAt
<1>5. ASSUME NEW i \in 2..n PROVE Fill(at(i - 1), i) = at(i)
  <2> DEFINE w == at(i - 1)
             q == V[i - 2]
             z == V[i - 1]
  <2>1. /\ i \in 1..n /\ i - 1 \in 1..n /\ i - 1 \in 0..n /\ i - 2 \in 0..n /\ ~(i <= i - 1)
        /\ (i - 1) - 1 = i - 2
    OBVIOUS
  <2>2. w[i] = v[i] /\ w[i - 1] = q
    BY <2>1
  <2>3. z = BlockMix(q)
    BY <1>2, <2>1
  <2>4. Chunk(q, r) /\ Shaped(v[i], r)
    BY <1>2, <2>1
  <2>5. chunkmix(w[i], w[i - 1], <<>>, r) = z
    <3> HIDE DEF w, q, z
    <3> QED
      BY <2>2, <2>3, <2>4, ChunkMixes DEF Mixes
  <2>6. [w EXCEPT ![i] = z] = [k \in 1..n |-> IF k = i THEN z ELSE w[k]]
    BY <2>1
  <2>7. ASSUME NEW k \in 1..n
        PROVE  (IF k = i THEN z ELSE w[k]) = IF k <= i THEN V[k - 1] ELSE v[k]
    <3>1. w[k] = IF k <= i - 1 THEN V[k - 1] ELSE v[k]
      OBVIOUS
    <3>2. (k <= i <=> k <= i - 1 \/ k = i) /\ ~(i <= i - 1)
      OBVIOUS
    <3> HIDE DEF w
    <3> QED
      BY <3>1, <3>2
  <2>8. [k \in 1..n |-> IF k = i THEN z ELSE w[k]] = at(i)
    BY <2>7
  <2> HIDE DEF at, w
  <2>9. Fill(w, i) = at(i)
    BY <2>5, <2>6, <2>8 DEF ReplaceAt
  <2> QED
    BY <2>9 DEF w
<1>6. It(h)
  <2>1. \A i \in 1..n : h[i] = at(i)
    OBVIOUS
  <2>2. h = [i \in 1..n |-> h[i]]
    OBVIOUS
  <2> HIDE DEF h, Fill, at
  <2>3. ASSUME NEW i \in 1..n
        PROVE  h[i] = IF i = 1 THEN ReplaceAt(v, 1, x) ELSE Fill(h[i - 1], i)
    <3>1. CASE i = 1
      BY <1>4, <2>1, <3>1
    <3>2. CASE i # 1
      <4>1. i \in 2..n /\ i - 1 \in 1..n
        BY <3>2
      <4> QED
        BY <1>5, <2>1, <3>2, <4>1
    <3> QED
      BY <3>1, <3>2
  <2> QED
    BY <2>2, <2>3
<1>7. It(fill)
  <2> HIDE DEF It, h
  <2> QED
    BY <1>6
<1>8. Filling(x, v, n, r) = fill[n]
  BY DEF Filling
<1> HIDE DEF fill, h, Fill
<1>9. fill[1] = h[1]
  BY <1>1, <1>6, <1>7
<1>10. \A i \in 2..n : fill[i - 1] = h[i - 1] => fill[i] = h[i]
  <2> SUFFICES ASSUME NEW i \in 2..n, fill[i - 1] = h[i - 1] PROVE fill[i] = h[i]
    OBVIOUS
  <2>1. i \in 1..n /\ i # 1
    OBVIOUS
  <2>2. fill[i] = Fill(fill[i - 1], i) /\ h[i] = Fill(h[i - 1], i)
    BY <1>6, <1>7, <2>1
  <2> QED
    BY <2>2
<1> HIDE DEF It
<1>11. \A i \in 1..n : fill[i] = h[i]
  BY ONLY <1>1, <1>9, <1>10, SameRunFrom1
<1>12. h[n] = at(n)
  BY <1>1 DEF h
<1>13. at(n) = [k \in 1..n |-> V[k - 1]]
  <2>1. \A k \in 1..n : k <= n
    OBVIOUS
  <2> QED
    BY <2>1
<1> HIDE DEF at
<1> QED
  BY <1>1, <1>8, <1>11, <1>12, <1>13

LEMMA ROMixOf ==
    ASSUME NEW x, NEW r, Chunk(x, r), NEW n
    PROVE  ROMix(x, n) = WorkedOf(StoredOf(x, n), 2 * r, n, n)[n]
<1>1. Len(x) = 2 * r
  BY DEF Chunk
<1>2. ROMix(x, n) = WorkedOf(StoredOf(x, n), Len(x), n, n)[n]
  BY DEF ROMix, WorkedOf, WorkedIs, StoredOf, StoredIs, XorChunk
<1> QED
  BY <1>1, <1>2

RomixOf(x, n, r) ==
    LET V == StoredOf(x, n)
        X == WorkedOf(V, 2 * r, n, n)
    IN [x |-> X[n], y |-> X[n - 1], v |-> [k \in 1..n |-> V[k - 1]]]

LEMMA RomixIs ==
    ASSUME NEW x, NEW r, Chunk(x, r), NEW q \in Nat \ {0}, NEW n, n = 2 * q, NEW y, Shaped(y, r),
           NEW v, IsStr(v), Len(v) = n, \A k \in 1..n : Shaped(v[k], r)
    PROVE  romix(x, y, v, n, r) = RomixOf(x, n, r)
<1> DEFINE V == StoredOf(x, n)
           l == 2 * r
           X == WorkedOf(V, l, n, n)
           F == Filling(x, v, n, r)
           j(c) == (c[l] % n) + 1
           hy(i) == IF i = 0 THEN y ELSE X[2 * i - 1]
           h == [i \in 0..q |-> [y |-> hy(i), x |-> X[2 * i]]]
           Step(m) == LET newy == chunkmix(m.y, m.x, F[j(m.x)], r)
                      IN [y |-> newy, x |-> chunkmix(m.x, newy, F[j(newy)], r)]
           It(f) == f = [i \in 0..q |-> IF i = 0 THEN [y |-> y, x |-> chunkmix(x, F[n], <<>>, r)]
                                        ELSE Step(f[i - 1])]
           mixed == CHOOSE f : It(f)
<1>1. n \in Nat \ {0} /\ n \in Nat /\ q >= 1 /\ (n + 1) \div 2 = q /\ r \in Nat \ {0}
  BY DEF Chunk
<1>2. /\ \A i \in 0..n : Chunk(V[i], r)
      /\ V[0] = x /\ \A i \in 1..n : V[i] = BlockMix(V[i - 1])
  <2>1. Stores(V, x, n, r)
    BY <1>1, StoredChunks
  <2> HIDE DEF V
  <2> QED
    BY <2>1 DEF Stores
<1>3. F = [k \in 1..n |-> V[k - 1]]
  BY <1>1, FillingIs
<1> HIDE DEF V, F
<1>4. /\ \A i \in 0..n : Chunk(X[i], r)
      /\ X[0] = V[n]
      /\ \A i \in 1..n : X[i] = BlockMix(XorChunk(X[i - 1], V[X[i - 1][l] % n], l))
  <2>1. Stores(V, x, n, r)
    BY <1>2 DEF Stores
  <2>2. l = 2 * r
    OBVIOUS
  <2> HIDE DEF l
  <2>3. Works(X, V, l, n, r)
    BY ONLY <1>1, <2>1, <2>2, WorkedChunks
  <2> HIDE DEF X
  <2> QED
    BY <2>3 DEF Works
<1>5. romix(x, y, v, n, r) = [x |-> mixed[q].x, y |-> mixed[q].y, v |-> F]
  BY <1>1 DEF romix, F
<1>6. RomixOf(x, n, r) = [x |-> X[n], y |-> X[n - 1], v |-> [k \in 1..n |-> V[k - 1]]]
  BY DEF RomixOf, V
<1> HIDE DEF X
<1>7. \A b : Chunk(b, r) => Shaped(b, r)
  BY DEF Chunk, Shaped
\* One mixing with the stored chunk that is picked.
<1>8. ASSUME NEW i \in 1..n, NEW b, Shaped(b, r)
      PROVE  chunkmix(b, X[i - 1], F[j(X[i - 1])], r) = X[i]
  <2> DEFINE c == X[i - 1]
             o == c[l] % n
  <2>1. i - 1 \in 0..n
    BY <1>1
  <2>2. Chunk(c, r)
    BY <1>4, <2>1
  <2>3. X[i] = BlockMix(XorChunk(c, V[o], l))
    BY <1>4
  <2> HIDE DEF c
  <2>4. o \in 0..(n - 1)
    BY <1>1, <2>2, PickIn
  <2> HIDE DEF o
  <2>5. o + 1 \in 1..n /\ (o + 1) - 1 = o /\ o \in 0..n
    BY <1>1, <2>4
  <2>6. F[o + 1] = V[o] /\ Chunk(V[o], r)
    BY <1>2, <1>3, <2>5
  <2> DEFINE z == V[o]
  <2>7. Chunk(z, r)
    BY <2>6
  <2> HIDE DEF z
  <2>8. chunkmix(b, c, z, r) = BlockMix(XorChunk(c, z, l))
    <3>1. l = 2 * r
      OBVIOUS
    <3> HIDE DEF l
    <3>2. Mixes(b, c, z, r, l)
      BY ONLY Shaped(b, r), <2>2, <2>7, <3>1, ChunkMixes
    <3> QED
      BY <3>2 DEF Mixes
  <2> QED
    BY <2>3, <2>6, <2>8 DEF c, o, z
<1>9. chunkmix(x, F[n], <<>>, r) = X[0]
  <2>1. n \in 1..n /\ n - 1 \in 0..n
    BY <1>1
  <2>2. F[n] = V[n - 1] /\ V[n] = BlockMix(V[n - 1]) /\ Chunk(V[n - 1], r)
    BY <1>2, <1>3, <2>1
  <2>3. Shaped(x, r)
    BY <1>7
  <2>4. chunkmix(x, V[n - 1], <<>>, r) = BlockMix(V[n - 1])
    BY <2>2, <2>3, ChunkMixes DEF Mixes
  <2> QED
    BY <1>4, <2>2, <2>4
<1> HIDE DEF j, F, l
<1>10. ASSUME NEW i \in 1..q
       PROVE  Step([y |-> hy(i - 1), x |-> X[2 * (i - 1)]]) = [y |-> hy(i), x |-> X[2 * i]]
  <2> DEFINE a == 2 * (i - 1)
             b == 2 * i - 1
             d == 2 * i
             m == [y |-> hy(i - 1), x |-> X[a]]
             ny == chunkmix(m.y, m.x, F[j(m.x)], r)
  <2>1. /\ a \in 0..n /\ b \in 1..n /\ d \in 1..n /\ b - 1 = a /\ d - 1 = b /\ b \in 0..n
        /\ i # 0 /\ i - 1 \in 0..q
    BY <1>1
  <2>2. Shaped(hy(i - 1), r) /\ Shaped(X[a], r)
    <3>1. i - 1 # 0 => 2 * (i - 1) - 1 \in 0..n
      BY <1>1
    <3> QED
      BY <1>4, <1>7, <2>1, <3>1
  <2>3. hy(i) = X[b]
    BY <2>1
  <2> HIDE DEF hy, a, b, d
  <2>4. m.y = hy(i - 1) /\ m.x = X[a]
    OBVIOUS
  <2> HIDE DEF m
  <2>5. ny = X[b]
    BY <1>8, <2>1, <2>2, <2>4
  <2>6. chunkmix(X[a], X[b], F[j(X[b])], r) = X[d]
    BY <1>8, <2>1, <2>2
  <2>7. Step(m) = [y |-> ny, x |-> chunkmix(m.x, ny, F[j(ny)], r)]
    OBVIOUS
  <2> HIDE DEF Step, ny
  <2>8. Step(m) = [y |-> hy(i), x |-> X[d]]
    BY <2>3, <2>4, <2>5, <2>6, <2>7
  <2> QED
    BY <2>8 DEF m, a, d
<1>11. hy(0) = y /\ 2 * 0 = 0
  OBVIOUS
<1>12. It(h)
  <2>1. \A i \in 0..q : h[i] = [y |-> hy(i), x |-> X[2 * i]]
    OBVIOUS
  <2>2. h = [i \in 0..q |-> h[i]]
    OBVIOUS
  <2> HIDE DEF h, Step, hy
  <2>3. ASSUME NEW i \in 0..q
        PROVE  h[i] = IF i = 0 THEN [y |-> y, x |-> chunkmix(x, F[n], <<>>, r)] ELSE Step(h[i - 1])
    <3>1. CASE i = 0
      <4>1. 0 \in 0..q
        BY <1>1
      <4> QED
        BY <1>9, <1>11, <2>1, <3>1, <4>1
    <3>2. CASE i # 0
      <4>1. i \in 1..q /\ i - 1 \in 0..q
        BY <1>1, <3>2
      <4> QED
        BY <1>10, <2>1, <3>2, <4>1
    <3> QED
      BY <3>1, <3>2
  <2> QED
    BY <2>2, <2>3
<1>13. It(mixed)
  <2> HIDE DEF It, h
  <2> QED
    BY <1>12
<1> HIDE DEF mixed, h, Step
<1>14. mixed[0] = h[0]
  <2>1. 0 \in 0..q
    BY <1>1
  <2> QED
    BY <1>12, <1>13, <2>1
<1>15. \A i \in 1..q : mixed[i - 1] = h[i - 1] => mixed[i] = h[i]
  <2> SUFFICES ASSUME NEW i \in 1..q, mixed[i - 1] = h[i - 1] PROVE mixed[i] = h[i]
    OBVIOUS
  <2>1. i \in 0..q /\ i # 0
    BY <1>1
  <2>2. mixed[i] = Step(mixed[i - 1]) /\ h[i] = Step(h[i - 1])
    BY <1>12, <1>13, <2>1
  <2> QED
    BY <2>2
<1> HIDE DEF It
<1>16. q \in Nat /\ q \in 0..q /\ q # 0
  OBVIOUS
<1>17. \A i \in 0..q : mixed[i] = h[i]
  BY ONLY <1>14, <1>15, <1>16, SameRun
<1>18. h[q] = [y |-> X[n - 1], x |-> X[n]]
  BY <1>16 DEF h, hy
<1>19. mixed[q] = h[q]
  BY <1>16, <1>17
<1> QED
  BY <1>3, <1>5, <1>6, <1>18, <1>19

ShapedAll(v, n, r) == IsStr(v) /\ Len(v) = n /\ \A k \in 1..n : Shaped(v[k], r)

LEMMA RomixShaped ==
    ASSUME NEW x, NEW r, Chunk(x, r), NEW n \in Nat \ {0}, NEW m, m = RomixOf(x, n, r)
    PROVE  m.x = ROMix(x, n) /\ Shaped(m.y, r) /\ ShapedAll(m.v, n, r)
<1> DEFINE V == StoredOf(x, n)
           l == 2 * r
           X == WorkedOf(V, l, n, n)
           F == [k \in 1..n |-> V[k - 1]]
<1>1. n \in Nat /\ n - 1 \in 0..n /\ n \in 0..n
  OBVIOUS
<1>2. Stores(V, x, n, r)
  BY <1>1, StoredChunks
<1>3. m.x = X[n] /\ m.y = X[n - 1] /\ m.v = F
  BY DEF RomixOf
<1>4. ROMix(x, n) = X[n]
  BY ROMixOf
<1>5. l = 2 * r
  OBVIOUS
<1> HIDE DEF V, l
<1>6. Works(X, V, l, n, r)
  BY ONLY <1>1, <1>2, <1>5, n \in Nat \ {0}, WorkedChunks
<1> HIDE DEF X
<1>7. \A b : Chunk(b, r) => Shaped(b, r)
  BY DEF Chunk, Shaped
<1>8. Shaped(X[n - 1], r)
  BY <1>1, <1>6, <1>7 DEF Works
<1>9. ShapedAll(F, n, r)
  <2>1. F = [k \in 1..n |-> F[k]] /\ \A k \in 1..n : F[k] = V[k - 1]
    OBVIOUS
  <2> HIDE DEF F
  <2>2. IsStr(F) /\ Len(F) = n
    BY <1>1, <2>1, FunctionIsStr
  <2>3. ASSUME NEW k \in 1..n PROVE Shaped(F[k], r)
    <3>1. k - 1 \in 0..n
      OBVIOUS
    <3> QED
      BY <1>2, <1>7, <2>1, <3>1 DEF Stores
  <2> QED
    BY <2>2, <2>3 DEF ShapedAll
<1> HIDE DEF F
<1> QED
  BY <1>3, <1>4, <1>8, <1>9

LEMMA ScryptExact ==
    ASSUME NEW r \in Nat \ {0}, NEW n, NEW q \in Nat \ {0}, n = 2 * q,
           NEW lanes, IsStr(lanes), \A i \in 1..Len(lanes) : Chunk(lanes[i], r)
    PROVE  scrypt(lanes, n, r) = [i \in 1..Len(lanes) |-> ROMix(lanes[i], n)]
<1> DEFINE p == Len(lanes)
           unset == [i \in 1..(2 * r) |-> 0]
           empty == [k \in 1..n |-> unset]
           R(i) == RomixOf(lanes[i], n, r)
           hy(i) == IF i = 0 THEN unset ELSE R(i).y
           hv(i) == IF i = 0 THEN empty ELSE R(i).v
           outs(i) == [k \in 1..i |-> ROMix(lanes[k], n)]
           h == [i \in 0..p |-> [y |-> hy(i), v |-> hv(i), out |-> outs(i)]]
           Step(m, i) == LET new == romix(lanes[i], m.y, m.v, n, r)
                         IN [y |-> new.y, v |-> new.v, out |-> Append(m.out, new.x)]
           It(f) == f = [i \in 0..p |-> IF i = 0 THEN [y |-> unset, v |-> empty, out |-> <<>>]
                                        ELSE Step(f[i - 1], i)]
           done == CHOOSE f : It(f)
<1>1. n \in Nat \ {0} /\ n \in Nat /\ p \in Nat
  BY StrIs
<1>2. Shaped(unset, r)
  <2>1. unset = [i \in 1..(2 * r) |-> unset[i]] /\ 2 * r \in Nat
    OBVIOUS
  <2> HIDE DEF unset
  <2> QED
    BY <2>1, FunctionIsStr DEF Shaped
<1>3. ShapedAll(empty, n, r)
  <2> HIDE DEF unset
  <2>1. empty = [k \in 1..n |-> empty[k]] /\ \A k \in 1..n : empty[k] = unset
    OBVIOUS
  <2> HIDE DEF empty
  <2> QED
    BY <1>1, <1>2, <2>1, FunctionIsStr DEF ShapedAll
<1> HIDE DEF unset, empty
<1>4. ASSUME NEW i \in 1..p
      PROVE  R(i).x = ROMix(lanes[i], n) /\ Shaped(R(i).y, r) /\ ShapedAll(R(i).v, n, r)
  BY <1>1, RomixShaped
<1>5. ASSUME NEW i \in 1..p, NEW y, NEW v, Shaped(y, r), ShapedAll(v, n, r)
      PROVE  romix(lanes[i], y, v, n, r) = R(i)
  <2> DEFINE x == lanes[i]
  <2>1. Chunk(x, r) /\ IsStr(v) /\ Len(v) = n /\ \A k \in 1..n : Shaped(v[k], r)
    BY <1>5 DEF ShapedAll
  <2> HIDE DEF x
  <2>2. romix(x, y, v, n, r) = RomixOf(x, n, r)
    BY <1>5, <2>1, RomixIs
  <2> QED
    BY <2>2 DEF x
<1> HIDE DEF R
<1>6. ASSUME NEW i \in Nat PROVE IsStr(outs(i)) /\ Len(outs(i)) = i
  <2>1. outs(i) = [k \in 1..i |-> outs(i)[k]]
    OBVIOUS
  <2> HIDE DEF outs
  <2> QED
    BY <2>1, FunctionIsStr
<1>7. outs(0) = <<>>
  <2> HIDE DEF outs
  <2> QED
    BY <1>6, StrNull
<1>8. ASSUME NEW i \in 1..p PROVE Append(outs(i - 1), ROMix(lanes[i], n)) = outs(i)
  <2> DEFINE s == outs(i - 1)
             z == ROMix(lanes[i], n)
             t == outs(i)
             u == Append(s, z)
  <2>0. i - 1 \in Nat /\ i \in Nat
    OBVIOUS
  <2>1. IsStr(s) /\ Len(s) = i - 1 /\ IsStr(t) /\ Len(t) = i
    <3> HIDE DEF outs
    <3> QED
      BY <1>6, <2>0
  <2>2. (\A k \in 1..(i - 1) : s[k] = t[k]) /\ t[i] = z
    OBVIOUS
  <2> HIDE DEF s, t, z
  <2>3. CatOf(u, s, <<z>>, Len(s), 1)
    BY <2>1, StrAppend
  <2> HIDE DEF u
  <2>4. IsStr(u) /\ Len(u) = i /\ (\A k \in 1..(i - 1) : u[k] = s[k]) /\ u[(i - 1) + 1] = <<z>>[1]
    <3>1. 1 \in 1..1
      OBVIOUS
    <3> QED
      BY <2>0, <2>1, <2>3, <3>1 DEF CatOf
  <2>5. ASSUME NEW k \in 1..i PROVE u[k] = t[k]
    <3>1. CASE k = i
      BY <2>0, <2>2, <2>4, <3>1
    <3>2. CASE k # i
      <4>1. k \in 1..(i - 1)
        BY <3>2
      <4> QED
        BY <2>2, <2>4, <4>1
    <3> QED
      BY <3>1, <3>2
  <2>6. u = t
    BY <2>1, <2>4, <2>5, StrEqual
  <2> QED
    BY <2>6 DEF u, t, s, z
<1> HIDE DEF outs
<1>9. ASSUME NEW i \in 1..p
      PROVE  Step([y |-> hy(i - 1), v |-> hv(i - 1), out |-> outs(i - 1)], i)
               = [y |-> hy(i), v |-> hv(i), out |-> outs(i)]
  <2>1. Shaped(hy(i - 1), r) /\ ShapedAll(hv(i - 1), n, r)
    <3>1. i - 1 = 0 \/ i - 1 \in 1..p
      OBVIOUS
    <3> QED
      BY <1>2, <1>3, <1>4, <3>1
  <2>2. hy(i) = R(i).y /\ hv(i) = R(i).v
    OBVIOUS
  <2> HIDE DEF hy, hv
  <2>3. romix(lanes[i], hy(i - 1), hv(i - 1), n, r) = R(i)
    BY <1>5, <2>1
  <2>4. Append(outs(i - 1), R(i).x) = outs(i)
    BY <1>4, <1>8
  <2> QED
    BY <2>2, <2>3, <2>4
<1>10. hy(0) = unset /\ hv(0) = empty
  OBVIOUS
<1>11. It(h)
  <2>1. \A i \in 0..p : h[i] = [y |-> hy(i), v |-> hv(i), out |-> outs(i)]
    OBVIOUS
  <2>2. h = [i \in 0..p |-> h[i]]
    OBVIOUS
  <2> HIDE DEF h, Step, hy, hv
  <2>3. ASSUME NEW i \in 0..p
        PROVE  h[i] = IF i = 0 THEN [y |-> unset, v |-> empty, out |-> <<>>] ELSE Step(h[i - 1], i)
    <3>1. CASE i = 0
      BY <1>7, <1>10, <2>1, <3>1
    <3>2. CASE i # 0
      <4>1. i \in 1..p /\ i - 1 \in 0..p
        BY <1>1, <3>2
      <4> QED
        BY <1>9, <2>1, <3>2, <4>1
    <3> QED
      BY <3>1, <3>2
  <2> QED
    BY <2>2, <2>3
<1>12. It(done)
  <2> HIDE DEF It, h
  <2> QED
    BY <1>11
<1>13. scrypt(lanes, n, r) = done[p].out
  BY DEF scrypt, empty, unset
<1> HIDE DEF done, h, Step, p
<1>14. done[0] = h[0]
  <2>1. 0 \in 0..p
    BY <1>1
  <2> QED
    BY <1>11, <1>12, <2>1
<1>15. \A i \in 1..p : done[i - 1] = h[i - 1] => done[i] = h[i]
  <2> SUFFICES ASSUME NEW i \in 1..p, done[i - 1] = h[i - 1] PROVE done[i] = h[i]
    OBVIOUS
  <2>1. i \in 0..p /\ i # 0
    BY <1>1
  <2>2. done[i] = Step(done[i - 1], i) /\ h[i] = Step(h[i - 1], i)
    BY <1>11, <1>12, <2>1
  <2> QED
    BY <2>2
<1> HIDE DEF It
<1>16. \A i \in 0..p : done[i] = h[i]
  BY ONLY <1>1, <1>14, <1>15, SameRun
<1>17. p \in 0..p
  BY <1>1
<1>18. h[p].out = outs(p)
  BY <1>17 DEF h
<1>19. outs(p) = [i \in 1..Len(lanes) |-> ROMix(lanes[i], n)]
  BY DEF outs, p
<1> QED
  BY <1>13, <1>16, <1>17, <1>18, <1>19

LEMMA KdfJob ==
    ASSUME JobOK
    PROVE  /\ job.do = "pbkdf2" => /\ job.pass \in Nat /\ job.salt \in Nat /\ job.n \in Nat \ {0}
                                   /\ job.bytes \in Nat
           /\ job.do = "scrypt" => /\ job.r \in Nat \ {0} /\ \E q \in Nat \ {0} : job.n = 2 * q
                                   /\ \E p \in Nat : job.seeds \in [1..p -> Nat]
<1>1. /\ KeySizes \subseteq Nat /\ KeyBytes \subseteq Nat /\ Lanes \subseteq Nat
      /\ LaneSeeds \subseteq Nat /\ Rounds \subseteq Nat \ {0} /\ ChunkRs \subseteq Nat \ {0}
      /\ \A n \in Costs : n \in Nat \ {0} /\ n % 2 = 0
  BY PrimitivesAssumption
<1>2. ASSUME job.do = "pbkdf2"
      PROVE  job.pass \in Nat /\ job.salt \in Nat /\ job.n \in Nat \ {0} /\ job.bytes \in Nat
  <2>1. job \in KdfJobs
    BY <1>2 DEF JobOK, BufferJobs, HashJobs, SealJobs, RoundJobs, FieldJobs, CurveJobs
  <2>2. job.pass \in KeySizes /\ job.salt \in KeySizes /\ job.n \in Rounds /\ job.bytes \in KeyBytes
    BY <1>2, <2>1 DEF KdfJobs
  <2> QED
    BY <1>1, <2>2
<1>3. ASSUME job.do = "scrypt"
      PROVE  /\ job.r \in Nat \ {0} /\ \E q \in Nat \ {0} : job.n = 2 * q
             /\ \E p \in Nat : job.seeds \in [1..p -> Nat]
  <2>1. job \in KdfJobs
    BY <1>3 DEF JobOK, BufferJobs, HashJobs, SealJobs, RoundJobs, FieldJobs, CurveJobs
  <2>2. /\ job.r \in ChunkRs /\ job.n \in Costs
        /\ job.seeds \in UNION {[1..p -> LaneSeeds] : p \in Lanes}
    BY <1>3, <2>1 DEF KdfJobs
  <2>3. \E q \in Nat \ {0} : job.n = 2 * q
    <3>1. PICK n \in Nat \ {0} : n = job.n /\ n % 2 = 0
      BY <1>1, <2>2
    <3>2. n = 2 * (n \div 2) /\ n \div 2 \in Nat \ {0}
      BY <3>1
    <3> QED
      BY <3>1, <3>2
  <2>4. PICK p \in Lanes : job.seeds \in [1..p -> LaneSeeds]
    BY <2>2
  <2>5. [1..p -> LaneSeeds] \subseteq [1..p -> Nat]
    BY <1>1
  <2> QED
    BY <1>1, <2>2, <2>3, <2>4, <2>5
<1> QED
  BY <1>2, <1>3

LEMMA LaneIs ==
    ASSUME job.r \in Nat \ {0}, NEW seed \in Nat
    PROVE  Chunk(Lane(seed), job.r)
<1> DEFINE m == 2 * job.r
           s == [i \in 1..m |-> (seed * (2 * i + 3) + i * i) % WordMod]
<1>1. s = [i \in 1..m |-> s[i]] /\ m \in Nat
  OBVIOUS
<1>2. ASSUME NEW i \in 1..m PROVE s[i] \in BlockWords
  <2> DEFINE a == seed * (2 * i + 3) + i * i
  <2>1. a \in Nat
    OBVIOUS
  <2>2. s[i] = a % WordMod
    OBVIOUS
  <2> HIDE DEF a, s
  <2>3. a % WordMod \in BlockWords
    BY <2>1, WordModIs DEF BlockWords
  <2> QED
    BY <2>2, <2>3
<1>3. Lane(seed) = <<>> \o s
  BY DEF Lane
<1> HIDE DEF s
<1>4. IsStr(s) /\ Len(s) = m
  BY <1>1, FunctionIsStr
<1>5. Lane(seed) = s
  BY <1>3, <1>4, StrNothing
<1> QED
  BY <1>2, <1>4, <1>5 DEF Chunk

(***************************************************************************)
(* scrypt.c: for a block and a digest of any size, any number of           *)
(* iterations and of derived bytes, what is derived is RFC 8018's PBKDF2;  *)
(* for blocks of up to 16 bits, any even cost, any r and any number of     *)
(* lanes of any contents, each lane is mixed as RFC 7914 says, though the  *)
(* lanes share v and y.                                                    *)
(***************************************************************************)
THEOREM KdfIsExact == Spec => []KdfExact
<1>1. Init => KdfExact
  BY DEF Init, KdfExact, Finished
<1>2. JobOK /\ KdfExact /\ [Next]_vars => KdfExact'
  <2> SUFFICES ASSUME JobOK, KdfExact, [Next]_vars PROVE KdfExact'
    OBVIOUS
  <2>1. CASE Pbkdf2Step /\ UNCHANGED job
    <3> DEFINE x == pbkdf2(Named("pass", job.pass), Named("salt", job.salt), job.n, job.bytes)
               want == Pbkdf2(Named("pass", job.pass), Named("salt", job.salt), job.n, job.bytes)
    <3>1. job.do = "pbkdf2" /\ job' = job /\ result' = <<x>>
      BY <2>1 DEF Pbkdf2Step
    <3>2. x = want
      <4>1. /\ job.pass \in Nat /\ job.salt \in Nat /\ job.n \in Nat \ {0}
            /\ job.bytes \in Nat
        BY <3>1, KdfJob
      <4>2. IsStr(Named("pass", job.pass)) /\ IsStr(Named("salt", job.salt))
        BY <4>1, NamedIs
      <4> QED
        BY <4>1, <4>2, PbkdfExact
    <3>3. want' = want
      BY <3>1
    <3> HIDE DEF x, want
    <3>4. (result[1] = want)'
      BY <3>1, <3>2, <3>3
    <3> QED
      BY <3>1, <3>4 DEF KdfExact, Finished, want
  <2>2. CASE ScryptStep /\ UNCHANGED job
    <3> DEFINE x == scrypt(LanesOf, job.n, job.r)
               want == [i \in DOMAIN job.seeds |-> ROMix(Lane(job.seeds[i]), job.n)]
    <3>1. job.do = "scrypt" /\ job' = job /\ result' = <<x>>
      BY <2>2 DEF ScryptStep
    <3>2. x = want
      <4> DEFINE lanes == LanesOf
      <4>1. job.r \in Nat \ {0}
        BY <3>1, KdfJob
      <4>2. PICK q \in Nat \ {0} : job.n = 2 * q
        BY <3>1, KdfJob
      <4>3. PICK p \in Nat : job.seeds \in [1..p -> Nat]
        BY <3>1, KdfJob
      <4>4. lanes = [i \in 1..p |-> Lane(job.seeds[i])]
        BY <4>3 DEF LanesOf
      <4>5. /\ lanes = [i \in 1..p |-> lanes[i]]
            /\ \A i \in 1..p : lanes[i] = Lane(job.seeds[i]) /\ job.seeds[i] \in Nat
        BY <4>3, <4>4
      <4> HIDE DEF lanes
      <4>6. IsStr(lanes) /\ Len(lanes) = p
        BY <4>5, FunctionIsStr
      <4>7. \A i \in 1..p : Chunk(lanes[i], job.r)
        BY <4>1, <4>5, LaneIs
      <4>8. scrypt(lanes, job.n, job.r) = [i \in 1..Len(lanes) |-> ROMix(lanes[i], job.n)]
        BY <4>1, <4>2, <4>6, <4>7, ScryptExact
      <4>9. [i \in 1..p |-> ROMix(lanes[i], job.n)] = [i \in 1..p |-> ROMix(Lane(job.seeds[i]), job.n)]
        BY <4>5
      <4>10. DOMAIN job.seeds = 1..p
        BY <4>3
      <4> QED
        BY <4>6, <4>8, <4>9, <4>10 DEF lanes
    <3>3. want' = want
      BY <3>1 DEF Lane
    <3> HIDE DEF x, want
    <3>4. (result[1] = want)'
      BY <3>1, <3>2, <3>3
    <3> QED
      BY <3>1, <3>4 DEF KdfExact, Finished, want
  <2>3. CASE UNCHANGED vars
    BY <2>3 DEF KdfExact, Finished, vars, Lane
  <2>4. CASE /\ ~(Pbkdf2Step /\ UNCHANGED job) /\ ~(ScryptStep /\ UNCHANGED job)
             /\ ~UNCHANGED vars
    <3>1. job' = job /\ job.do \notin {"pbkdf2", "scrypt"}
      BY <2>4 DEF Next, Work, Done, Message, Sink, Sha, Mac, HkdfStep, Seal, KeyEnc,
                  Round, Field, X25519, Agree
    <3> QED
      BY <3>1 DEF KdfExact, Finished
  <2> QED
    BY <2>1, <2>2, <2>3, <2>4
<1> QED
  BY <1>1, <1>2, JobKept, PTL DEF Spec
==============================================================================
