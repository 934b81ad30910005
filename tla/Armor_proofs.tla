----------------------------- MODULE Armor_proofs -----------------------------
(***************************************************************************)
(* TLAPS proofs about Armor, for every buffer size, line length, sizes of  *)
(* the pieces and count of the short reads and writes.  First the output   *)
(* buffer: the text of ArmorText (which bytes it holds, where they are,    *)
(* and that the text of two pieces is that of the whole when they meet at  *)
(* the end of a line) and the inductive invariant of the buffer's steps;   *)
(* then what the reader is given of it.                                    *)
(***************************************************************************)
EXTENDS Armor, NatFacts, SequenceTheorems, TLAPS

Char == {"newline", "byte", "begin", "end"} \X Nat
\* Bytes a + 1 to hi.
Run(a, hi) == [x \in 1..(hi - a) |-> <<"byte", a + x>>]
W == LineLen + 1

LEMMA Lengths ==
    /\ LineLen \in Nat \ {0} /\ W \in Nat \ {0} /\ W = LineLen + 1
    /\ ProbeLen \in Nat \ {0} /\ EndLen \in Nat \ {0} /\ BufSize \in Nat \ {0}
    /\ BlockLines \in Nat \ {0} /\ ABufLines \in Nat \ {0}
    /\ ProbeLen < BufSize /\ EndLen <= LineLen
  BY LayoutAssumption DEF W

LEMMA RunIs ==
    ASSUME NEW a \in Nat, NEW hi \in Nat, a <= hi
    PROVE  /\ Run(a, hi) \in Seq(Char) /\ Len(Run(a, hi)) = hi - a
           /\ \A x \in 1..(hi - a) : Run(a, hi)[x] = <<"byte", a + x>>
<1>1. hi - a \in Nat /\ \A x \in 1..(hi - a) : <<"byte", a + x>> \in Char
  BY DEF Char
<1> QED
  BY <1>1 DEF Run

LEMMA BytesAreRun == ASSUME NEW m \in Nat PROVE Bytes(m) = Run(0, m)
<1>1. \A x \in 1..m : 0 + x = x
  OBVIOUS
<1>2. m - 0 = m
  OBVIOUS
<1> QED
  BY <1>1, <1>2 DEF Bytes, Run

LEMMA BytesIs ==
    ASSUME NEW m \in Nat
    PROVE  Bytes(m) \in Seq(Char) /\ Len(Bytes(m)) = m /\ \A x \in 1..m : Bytes(m)[x] = <<"byte", x>>
<1>1. \A x \in 1..m : <<"byte", x>> \in Char
  BY DEF Char
<1> QED
  BY <1>1 DEF Bytes

LEMMA RunAppend ==
    ASSUME NEW a \in Nat, NEW c \in Nat, a <= c
    PROVE  Append(Run(a, c), <<"byte", c + 1>>) = Run(a, c + 1)
<1> DEFINE e == c + 1
           s == Run(a, c)
           t == Run(a, e)
           l == <<"byte", e>>
           z == Append(s, l)
<1>1. e \in Nat /\ a <= e /\ e - a = (c - a) + 1 /\ c - a \in Nat
  OBVIOUS
<1>2. s \in Seq(Char) /\ Len(s) = c - a /\ \A x \in 1..(c - a) : s[x] = <<"byte", a + x>>
  BY RunIs
<1> HIDE DEF e, s
<1>3. t \in Seq(Char) /\ Len(t) = e - a /\ \A x \in 1..(e - a) : t[x] = <<"byte", a + x>>
  BY <1>1, RunIs
<1>4. l \in Char
  BY <1>1 DEF Char
<1> HIDE DEF l, t
<1>5. /\ z \in Seq(Char) /\ Len(z) = Len(s) + 1
      /\ \A x \in 1..Len(s) : z[x] = s[x]
      /\ z[Len(s) + 1] = l
  BY <1>2, <1>4, AppendProperties
<1> HIDE DEF z
<1>6. ASSUME NEW x \in 1..(e - a) PROVE z[x] = t[x]
  <2>1. CASE x <= c - a
    <3>1. x \in 1..(c - a)
      BY <1>1, <2>1
    <3> QED
      BY <1>2, <1>3, <1>5, <3>1
  <2>2. CASE x = c - a + 1
    <3>1. z[x] = l /\ a + x = e
      BY <1>1, <1>2, <1>5, <2>2 DEF e
    <3> QED
      BY <1>3, <3>1 DEF l
  <2> QED
    BY <1>1, <2>1, <2>2
<1>7. Len(z) = Len(t)
  BY <1>1, <1>2, <1>3, <1>5
<1>8. z = t
  BY <1>3, <1>5, <1>6, <1>7, SeqEqual
<1> QED
  BY <1>8 DEF z, s, t, l, e

-----------------------------------------------------------------------------
(* The bytes in a text. *)

Filtered(f, s, k) ==
    IF k = 0 THEN <<>>
    ELSE IF s[k][1] = "byte" THEN Append(f[k - 1], s[k]) ELSE f[k - 1]

LEMMA FilterExists ==
    ASSUME NEW s, NEW m \in Nat
    PROVE  \E f : f = [k \in 0..m |-> Filtered(f, s, k)]
<1> DEFINE P == {z \in Nat : \E f : f = [k \in 0..z |-> Filtered(f, s, k)]}
<1>1. 0 \in P
  <2> DEFINE g == [k \in 0..0 |-> <<>>]
  <2>1. g = [k \in 0..0 |-> Filtered(g, s, k)]
    BY DEF Filtered
  <2> QED
    BY <2>1
<1>2. ASSUME NEW z \in Nat, z \in P PROVE z + 1 \in P
  <2>1. PICK f : f = [k \in 0..z |-> Filtered(f, s, k)]
    BY <1>2
  <2> DEFINE g == [k \in 0..(z + 1) |-> IF k <= z THEN f[k] ELSE Filtered(f, s, k)]
  <2>2. ASSUME NEW k \in 0..(z + 1) PROVE g[k] = Filtered(g, s, k)
    <3>1. CASE k = 0
      <4>1. g[k] = f[k] /\ f[k] = Filtered(f, s, k)
        BY <1>2, <2>1, <3>1
      <4> QED
        BY <3>1, <4>1 DEF Filtered
    <3>2. CASE k # 0
      <4>1. k - 1 \in 0..(z + 1) /\ k - 1 <= z /\ g[k - 1] = f[k - 1]
        BY <1>2, <3>2
      <4>2. g[k] = Filtered(f, s, k)
        BY <1>2, <2>1, <3>2
      <4> HIDE DEF g
      <4> QED
        BY <3>2, <4>1, <4>2 DEF Filtered
    <3> QED
      BY <3>1, <3>2
  <2>3. g = [k \in 0..(z + 1) |-> Filtered(g, s, k)]
    BY <2>2
  <2>4. \E h : h = [k \in 0..(z + 1) |-> Filtered(h, s, k)]
    <3> HIDE DEF g
    <3> QED
      BY <2>3
  <2> QED
    BY <1>2, <2>4
<1> HIDE DEF P
<1>3. m \in P
  BY <1>1, <1>2, NatInduct
<1> QED
  BY <1>3 DEF P

LEMMA OnlyBytesIs ==
    ASSUME NEW s, Len(s) \in Nat
    PROVE  \E f : /\ f = [k \in 0..Len(s) |-> Filtered(f, s, k)]
                  /\ OnlyBytes(s) = f[Len(s)]
<1> DEFINE f == CHOOSE f : f = [k \in 0..Len(s) |-> Filtered(f, s, k)]
<1>1. f = [k \in 0..Len(s) |-> Filtered(f, s, k)]
  BY FilterExists
<1>2. OnlyBytes(s) = f[Len(s)]
  BY DEF OnlyBytes, Filtered
<1> QED
  BY <1>1, <1>2

\* If B counts the bytes of s as they appear and each carries its number, the
\* bytes in s are a run.
LEMMA Counted ==
    ASSUME NEW S, NEW s \in Seq(S), NEW B, \A k \in 0..Len(s) : B[k] \in Nat,
           \A k \in 1..Len(s) :
              \/ B[k] = B[k - 1] + 1 /\ s[k] = <<"byte", B[k]>>
              \/ B[k] = B[k - 1] /\ s[k][1] # "byte"
    PROVE  B[0] <= B[Len(s)] /\ OnlyBytes(s) = Run(B[0], B[Len(s)])
<1>1. Len(s) \in Nat
  BY LenProperties
<1>2. PICK f : f = [k \in 0..Len(s) |-> Filtered(f, s, k)] /\ OnlyBytes(s) = f[Len(s)]
  BY <1>1, OnlyBytesIs
<1> DEFINE P == {z \in Nat : z <= Len(s) => B[0] <= B[z] /\ f[z] = Run(B[0], B[z])}
<1>3. 0 \in P
  <2>1. f[0] = <<>>
    BY <1>1, <1>2 DEF Filtered
  <2>2. Run(B[0], B[0]) = <<>>
    <3>1. B[0] \in Nat
      BY <1>1
    <3>2. B[0] - B[0] = 0
      BY <3>1
    <3> QED
      BY <3>2 DEF Run
  <2>3. B[0] <= B[0]
    BY <1>1
  <2> QED
    BY <2>1, <2>2, <2>3
<1>4. ASSUME NEW z \in Nat, z \in P PROVE z + 1 \in P
  <2> SUFFICES ASSUME z + 1 <= Len(s) PROVE B[0] <= B[z + 1] /\ f[z + 1] = Run(B[0], B[z + 1])
    OBVIOUS
  <2> DEFINE a == B[0]
             c == B[z]
             e == B[z + 1]
  <2>1. a \in Nat /\ c \in Nat /\ e \in Nat /\ a <= c /\ f[z] = Run(a, c)
    BY <1>1, <1>4
  <2>2. z + 1 \in 1..Len(s) /\ z + 1 \in 0..Len(s) /\ (z + 1) - 1 = z
    BY <1>1
  <2>3. f[z + 1] = IF s[z + 1][1] = "byte" THEN Append(f[z], s[z + 1]) ELSE f[z]
    <3>1. f[z + 1] = Filtered(f, s, z + 1)
      BY <1>2, <2>2
    <3> QED
      BY <2>2, <3>1 DEF Filtered
  <2>4. \/ e = c + 1 /\ s[z + 1] = <<"byte", e>>
        \/ e = c /\ s[z + 1][1] # "byte"
    BY <2>2
  <2> HIDE DEF a, c, e
  <2>5. CASE e = c + 1 /\ s[z + 1] = <<"byte", e>>
    <3>1. f[z + 1] = Append(Run(a, c), <<"byte", e>>)
      BY <2>1, <2>3, <2>5
    <3>2. Append(Run(a, c), <<"byte", e>>) = Run(a, e)
      BY <2>1, <2>5, RunAppend
    <3> QED
      BY <2>1, <2>5, <3>1, <3>2 DEF a, e
  <2>6. CASE e = c /\ s[z + 1][1] # "byte"
    BY <2>1, <2>3, <2>6 DEF a, e
  <2> QED
    BY <2>4, <2>5, <2>6
<1> HIDE DEF P
<1>5. Len(s) \in P
  BY <1>1, <1>3, <1>4, NatInduct
<1> QED
  BY <1>1, <1>2, <1>5 DEF P
-----------------------------------------------------------------------------
(* The layout of a text: rows of LineLen characters and a newline. *)

IsNL(j, k) == j % W = 0 \/ j = TextLen(k)
\* Which of the encoded characters is in place j.
Place(j) == j - ((j - 1) \div W)

LEMMA Divide ==
    ASSUME NEW S \in Nat \ {0}, NEW a \in Nat
    PROVE  \E q, c \in Nat : c < S /\ a = q * S + c
<1> DEFINE q == a \div S
           p == q * S
<1>1. q \in Nat /\ p <= a /\ a < p + S
  BY Quotient
<1>2. p \in Nat
  BY <1>1, Multiples
<1>3. \E c \in Nat : c < S /\ a = p + c
  <2> HIDE DEF p
  <2>1. a - p \in Nat /\ a - p < S /\ a = p + (a - p)
    BY <1>1, <1>2
  <2> QED
    BY <2>1
<1> QED
  BY <1>1, <1>3

LEMMA Row ==
    ASSUME NEW q \in Nat, NEW c \in 1..W, NEW j, j = q * W + c
    PROVE  /\ j \in Nat \ {0} /\ (j - 1) \div W = q
           /\ (j % W = 0) <=> (c = W)
           /\ Place(j) = q * LineLen + c
<1> DEFINE p == q * W
           l == q * LineLen
<1>1. LineLen \in Nat \ {0} /\ W \in Nat \ {0} /\ W = LineLen + 1
  BY Lengths
<1>2. p \in Nat /\ l \in Nat /\ p = l + q
  BY <1>1, Multiples
<1>3. j = p + c /\ j \in Nat \ {0} /\ j - 1 \in Nat /\ j - 1 = p + (c - 1) /\ c - 1 \in Nat /\ c - 1 < W
  <2> HIDE DEF p
  <2> QED
    BY <1>1, <1>2 DEF p
<1>4. (j - 1) \div W = q
  BY <1>1, <1>3, QuotientIs
<1>5. CASE c = W
  <2>1. j = (q + 1) * W + 0 /\ q + 1 \in Nat /\ 0 < W
    BY <1>1, <1>5
  <2>2. j % W = 0
    BY <1>1, <1>3, <2>1, QuotientIs
  <2>3. Place(j) = l + c
    <3>1. Place(j) = j - q
      BY <1>4 DEF Place
    <3> HIDE DEF p, l
    <3> QED
      BY <1>1, <1>2, <1>3, <3>1
  <2> QED
    BY <1>3, <1>4, <1>5, <2>2, <2>3
<1>6. CASE c # W
  <2>1. c \in Nat /\ c < W /\ c # 0
    BY <1>1, <1>6
  <2>2. j % W = c
    BY <1>1, <1>3, <2>1, QuotientIs
  <2>3. Place(j) = l + c
    <3>1. Place(j) = j - q
      BY <1>4 DEF Place
    <3> HIDE DEF p, l
    <3> QED
      BY <1>1, <1>2, <1>3, <3>1
  <2> QED
    BY <1>3, <1>4, <1>6, <2>1, <2>2, <2>3
<1> QED
  BY <1>5, <1>6

LEMMA RowOf ==
    ASSUME NEW j \in Nat \ {0}
    PROVE  \E q \in Nat, c \in 1..W : j = q * W + c
<1>1. W \in Nat \ {0} /\ j - 1 \in Nat
  BY Lengths
<1>2. PICK q, d \in Nat : d < W /\ j - 1 = q * W + d
  BY <1>1, Divide
<1> DEFINE p == q * W
<1>3. p \in Nat /\ j - 1 = p + d
  BY <1>1, <1>2, Multiples
<1>4. d + 1 \in 1..W /\ j = p + (d + 1)
  <2> HIDE DEF p
  <2> QED
    BY <1>1, <1>2, <1>3
<1> QED
  BY <1>4

\* A text of q full lines and r more characters.
LEMMA TextLenIs ==
    ASSUME NEW q \in Nat, NEW r \in Nat, r < LineLen, NEW k, k = q * LineLen + r
    PROVE  /\ k \in Nat /\ TextLen(k) \in Nat
           /\ r = 0 => TextLen(k) = q * W
           /\ r # 0 => TextLen(k) = q * W + (r + 1)
<1> DEFINE p == q * W
           l == q * LineLen
           z == k + LineLen - 1
<1>1. LineLen \in Nat \ {0} /\ W \in Nat \ {0} /\ W = LineLen + 1
  BY Lengths
<1>2. p \in Nat /\ l \in Nat /\ p = l + q
  BY <1>1, Multiples
<1>3. k = l + r /\ k \in Nat /\ z \in Nat /\ z = l + (r + LineLen - 1)
  <2>1. k = l + r
    OBVIOUS
  <2> HIDE DEF l
  <2> QED
    BY <1>1, <1>2, <2>1
<1>4. TextLen(k) = k + (z \div LineLen)
  BY DEF TextLen
<1>5. CASE r = 0
  <2>1. LineLen - 1 \in Nat /\ LineLen - 1 < LineLen /\ z = q * LineLen + (LineLen - 1)
    <3>1. z = l + (LineLen - 1)
      <4> HIDE DEF l, z
      <4> QED
        BY <1>1, <1>2, <1>3, <1>5
    <3> QED
      BY <1>1, <3>1
  <2>2. z \div LineLen = q
    BY <1>1, <1>3, <2>1, QuotientIs
  <2>3. TextLen(k) = p
    <3> HIDE DEF p, l, z
    <3> QED
      BY <1>2, <1>3, <1>4, <1>5, <2>2
  <2> QED
    BY <1>2, <1>3, <1>5, <2>3
<1>6. CASE r # 0
  <2> DEFINE e == q + 1
             m == e * LineLen
  <2>1. e \in Nat /\ m \in Nat /\ m = l + LineLen
    BY <1>1, Multiples
  <2>2. r - 1 \in Nat /\ r - 1 < LineLen /\ z = m + (r - 1)
    <3> HIDE DEF l, z, m
    <3> QED
      BY <1>1, <1>2, <1>3, <1>6, <2>1
  <2>3. z \div LineLen = e
    <3> HIDE DEF z, e
    <3> QED
      BY <1>1, <1>3, <2>1, <2>2, QuotientIs DEF m
  <2>4. TextLen(k) = p + (r + 1)
    <3> HIDE DEF p, l, z, m
    <3> QED
      BY <1>2, <1>3, <1>4, <1>6, <2>3 DEF e
  <2> QED
    BY <1>2, <1>3, <1>6, <2>4
<1> QED
  BY <1>5, <1>6
\* A place that is not a newline holds one of the encoded characters.
LEMMA PlaceInside ==
    ASSUME NEW k \in Nat, NEW j \in 1..TextLen(k), ~IsNL(j, k)
    PROVE  Place(j) \in 1..k
<1>1. LineLen \in Nat \ {0} /\ W \in Nat \ {0} /\ W = LineLen + 1
  BY Lengths
<1>2. PICK q, r \in Nat : r < LineLen /\ k = q * LineLen + r
  BY <1>1, Divide
<1>3. TextLen(k) \in Nat /\ (r = 0 => TextLen(k) = q * W) /\ (r # 0 => TextLen(k) = q * W + (r + 1))
  BY <1>2, TextLenIs
<1>4. j \in Nat \ {0} /\ j <= TextLen(k) /\ j # TextLen(k) /\ j % W # 0
  BY <1>3 DEF IsNL
<1>5. PICK a \in Nat, c \in 1..W : j = a * W + c
  BY <1>4, RowOf
<1>6. ((j % W = 0) <=> (c = W)) /\ Place(j) = a * LineLen + c
  BY <1>5, Row
<1> DEFINE p == q * W
           l == q * LineLen
           x == a * W
           y == a * LineLen
<1>7. /\ p \in Nat /\ l \in Nat /\ x \in Nat /\ y \in Nat /\ p = l + q /\ x = y + a
      /\ a < q => x + W <= p /\ y + LineLen <= l
      /\ q < a => p + W <= x
  BY <1>1, Multiples
<1>8. /\ j = x + c /\ Place(j) = y + c /\ k = l + r
      /\ (r = 0 => TextLen(k) = p) /\ (r # 0 => TextLen(k) = p + (r + 1))
  BY <1>2, <1>3, <1>5, <1>6
<1>9. c \in 1..LineLen
  BY <1>1, <1>4, <1>6
<1>10. a = q => x = p /\ y = l
  OBVIOUS
<1> HIDE DEF p, l, x, y
<1>11. CASE a < q
  BY <1>1, <1>2, <1>7, <1>8, <1>9, <1>11
<1>12. CASE a = q
  BY <1>1, <1>2, <1>3, <1>4, <1>7, <1>8, <1>9, <1>10, <1>12
<1>13. CASE q < a
  BY <1>1, <1>2, <1>3, <1>4, <1>7, <1>8, <1>9, <1>13
<1> QED
  BY <1>11, <1>12, <1>13

\* The encoding of a sequence of characters.
LEMMA EncodeIs ==
    ASSUME NEW s \in Seq(Char)
    PROVE  /\ Encode(s) \in Seq(Char) /\ Len(Encode(s)) = TextLen(Len(s)) /\ TextLen(Len(s)) \in Nat
           /\ \A j \in 1..TextLen(Len(s)) :
                 /\ IsNL(j, Len(s)) => Encode(s)[j] = NL
                 /\ ~IsNL(j, Len(s)) => Encode(s)[j] = s[Place(j)] /\ Place(j) \in 1..Len(s)
<1> DEFINE k == Len(s)
           T == TextLen(k)
           e(j) == IF j % (LineLen + 1) = 0 \/ j = T THEN NL ELSE s[j - (j - 1) \div (LineLen + 1)]
<1>1. k \in Nat
  BY LenProperties
<1>2. T \in Nat
  <2>1. LineLen \in Nat \ {0}
    BY Lengths
  <2>2. PICK q, r \in Nat : r < LineLen /\ k = q * LineLen + r
    BY <1>1, <2>1, Divide
  <2> QED
    BY <2>2, TextLenIs
<1>3. ASSUME NEW j \in 1..T
      PROVE  /\ e(j) \in Char
             /\ IsNL(j, k) => e(j) = NL
             /\ ~IsNL(j, k) => e(j) = s[Place(j)] /\ Place(j) \in 1..k
  <2>1. CASE IsNL(j, k)
    <3>1. e(j) = NL
      BY <2>1 DEF IsNL, W
    <3> HIDE DEF e
    <3>2. NL \in Char
      BY DEF NL, Char
    <3> QED
      BY <2>1, <3>1, <3>2
  <2>2. CASE ~IsNL(j, k)
    <3>1. e(j) = s[Place(j)]
      BY <2>2 DEF IsNL, W, Place
    <3>2. Place(j) \in 1..k
      BY <1>1, <2>2, PlaceInside
    <3>3. s[Place(j)] \in Char
      BY <3>2, ElementOfSeq
    <3> HIDE DEF e
    <3> QED
      BY <2>2, <3>1, <3>2, <3>3
  <2> QED
    BY <2>1, <2>2
<1>4. Encode(s) = [j \in 1..T |-> e(j)]
  BY DEF Encode
<1> HIDE DEF T, e
<1>5. Encode(s) \in Seq(Char) /\ Len(Encode(s)) = T
  BY <1>2, <1>3, <1>4
<1>6. \A j \in 1..T : Encode(s)[j] = e(j)
  BY <1>4
<1> QED
  BY <1>2, <1>3, <1>5, <1>6 DEF T
\* After q full lines the layout is that of a text of its own.
LEMMA Shift ==
    ASSUME NEW q \in Nat, NEW l \in Nat
    PROVE  /\ q * LineLen \in Nat /\ q * W \in Nat /\ TextLen(l) \in Nat
           /\ TextLen(q * LineLen) = q * W
           /\ TextLen(q * LineLen + l) = q * W + TextLen(l)
           /\ \A i \in Nat \ {0} :
                 /\ (((q * W + i) % W = 0) <=> (i % W = 0))
                 /\ Place(q * W + i) = q * LineLen + Place(i)
<1>1. LineLen \in Nat \ {0} /\ W \in Nat \ {0} /\ W = LineLen + 1
  BY Lengths
<1> DEFINE p == q * W
           y == q * LineLen
           k == y + l
<1>2. p \in Nat /\ y \in Nat /\ p = y + q
  BY <1>1, Multiples
<1>3. TextLen(y) = p
  <2>1. y = q * LineLen + 0 /\ 0 < LineLen
    BY <1>1
  <2> HIDE DEF y
  <2> QED
    BY <2>1, TextLenIs
<1>4. TextLen(l) \in Nat /\ TextLen(k) = p + TextLen(l)
  <2>1. PICK a, r \in Nat : r < LineLen /\ l = a * LineLen + r
    BY <1>1, Divide
  <2> DEFINE z == q + a
             pa == a * W
             ya == a * LineLen
             pz == z * W
             yz == z * LineLen
  <2>2. z \in Nat /\ pa \in Nat /\ ya \in Nat /\ pz = p + pa /\ yz = y + ya
    BY <1>1, Multiples
  <2>3. k = yz + r
    <3>1. l = ya + r
      BY <2>1
    <3> HIDE DEF yz, ya, y
    <3> QED
      BY <1>2, <2>1, <2>2, <3>1
  <2>4. TextLen(l) \in Nat /\ (r = 0 => TextLen(l) = pa) /\ (r # 0 => TextLen(l) = pa + (r + 1))
    BY <2>1, TextLenIs
  <2>5. (r = 0 => TextLen(k) = pz) /\ (r # 0 => TextLen(k) = pz + (r + 1))
    <3> HIDE DEF z, k
    <3> QED
      BY <2>1, <2>2, <2>3, TextLenIs
  <2> HIDE DEF k, p, pa, pz
  <2> QED
    BY <1>2, <2>1, <2>2, <2>4, <2>5
<1>5. ASSUME NEW i \in Nat \ {0}
      PROVE  (((p + i) % W = 0) <=> (i % W = 0)) /\ Place(p + i) = y + Place(i)
  <2>1. PICK a \in Nat, c \in 1..W : i = a * W + c
    BY RowOf
  <2> DEFINE z == q + a
             j == p + i
             pa == a * W
             ya == a * LineLen
             pz == z * W
             yz == z * LineLen
  <2>2. z \in Nat /\ pa \in Nat /\ ya \in Nat /\ pz = p + pa /\ yz = y + ya
    BY <1>1, Multiples
  <2>3. j = pz + c
    <3>1. i = pa + c
      BY <2>1
    <3> HIDE DEF pa, pz, p
    <3> QED
      BY <1>1, <1>2, <2>2, <3>1
  <2>4. (i % W = 0 <=> c = W) /\ Place(i) = ya + c
    BY <2>1, Row
  <2>5. (j % W = 0 <=> c = W) /\ Place(j) = yz + c
    <3> HIDE DEF z, j
    <3> QED
      BY <2>2, <2>3, Row
  <2>6. Place(j) = y + Place(i)
    <3> HIDE DEF yz, ya, y
    <3> QED
      BY <1>1, <1>2, <2>2, <2>4, <2>5
  <2> QED
    BY <2>4, <2>5, <2>6
<1> QED
  BY <1>2, <1>3, <1>4, <1>5

LEMMA Glue ==
    ASSUME NEW s \in Seq(Char), NEW t \in Seq(Char), NEW m, NEW n, Len(s) = m, Len(t) = n
    PROVE  /\ m \in Nat /\ n \in Nat
           /\ s \o t \in Seq(Char) /\ Len(s \o t) = m + n
           /\ \A i \in 1..(m + n) : (s \o t)[i] = IF i <= m THEN s[i] ELSE t[i - m]
  BY ConcatProperties, LenProperties

\* Two pieces that meet at the end of a line.
LEMMA EncodeConcat ==
    ASSUME NEW q \in Nat, NEW s \in Seq(Char), NEW t \in Seq(Char), Len(s) = q * LineLen
    PROVE  Encode(s) \o Encode(t) = Encode(s \o t)
<1> DEFINE l == Len(t)
           y == q * LineLen
           p == q * W
           u == s \o t
           k == y + l
           T == TextLen(l)
           a == Encode(s)
           hi == Encode(t)
           d == Encode(u)
           z == a \o hi
<1>1. l \in Nat /\ LineLen \in Nat \ {0} /\ W \in Nat \ {0}
  BY Lengths, LenProperties
<1>2. /\ u \in Seq(Char) /\ Len(u) = k
      /\ \A i \in 1..k : u[i] = IF i <= y THEN s[i] ELSE t[i - y]
  <2> HIDE DEF y, l
  <2> QED
    BY Glue DEF y, l
<1>3. /\ y \in Nat /\ p \in Nat /\ T \in Nat /\ TextLen(y) = p /\ TextLen(k) = p + T
      /\ \A i \in Nat \ {0} : (((p + i) % W = 0) <=> (i % W = 0)) /\ Place(p + i) = y + Place(i)
  BY <1>1, Shift
<1>4. p % W = 0
  <2>1. p = q * W + 0 /\ 0 < W /\ 0 \in Nat /\ p \in Nat
    BY <1>1, <1>3
  <2> HIDE DEF p
  <2> QED
    BY <1>1, <2>1, QuotientIs
<1>5. /\ a \in Seq(Char) /\ Len(a) = p
      /\ \A j \in 1..p : /\ IsNL(j, y) => a[j] = NL
                         /\ ~IsNL(j, y) => a[j] = s[Place(j)] /\ Place(j) \in 1..y
  BY <1>3, EncodeIs
<1>6. /\ hi \in Seq(Char) /\ Len(hi) = T
      /\ \A j \in 1..T : /\ IsNL(j, l) => hi[j] = NL
                         /\ ~IsNL(j, l) => hi[j] = t[Place(j)] /\ Place(j) \in 1..l
  BY EncodeIs
<1> HIDE DEF u
<1>7. /\ d \in Seq(Char) /\ Len(d) = TextLen(k)
      /\ \A j \in 1..TextLen(k) : /\ IsNL(j, k) => d[j] = NL
                                  /\ ~IsNL(j, k) => d[j] = u[Place(j)] /\ Place(j) \in 1..k
  BY <1>2, EncodeIs
<1> HIDE DEF a, hi, d
<1>8. /\ z \in Seq(Char) /\ Len(z) = p + T
      /\ \A j \in 1..(p + T) : z[j] = IF j <= p THEN a[j] ELSE hi[j - p]
  <2> HIDE DEF p, T
  <2> QED
    BY <1>5, <1>6, Glue
<1> HIDE DEF l, y, p, k, T, z
<1>9. ASSUME NEW j \in 1..(p + T), j <= p PROVE z[j] = d[j]
  <2>1. j \in 1..p /\ z[j] = a[j] /\ j \in 1..TextLen(k)
    <3>1. z[j] = a[j]
      BY ONLY <1>8, <1>9, j \in 1..(p + T)
    <3>2. j \in 1..p /\ j \in 1..(p + T)
      BY ONLY <1>3, <1>9, j \in 1..(p + T)
    <3> QED
      BY <1>3, <3>1, <3>2
  <2>2. IsNL(j, y) <=> j % W = 0
    BY <1>3, <1>4 DEF IsNL
  <2>3. IsNL(j, k) <=> j % W = 0
    <3>1. j = TextLen(k) => j = p
      BY <1>3, <1>9
    <3> QED
      BY <1>4, <3>1 DEF IsNL
  <2>4. CASE j % W = 0
    BY <1>5, <1>7, <2>1, <2>2, <2>3, <2>4
  <2>5. CASE j % W # 0
    <3>1. a[j] = s[Place(j)] /\ Place(j) \in 1..y
      BY <1>5, <2>1, <2>2, <2>5
    <3>2. d[j] = u[Place(j)]
      BY <1>7, <2>1, <2>3, <2>5
    <3>3. Place(j) \in 1..k /\ Place(j) <= y
      BY <1>1, <1>3, <3>1 DEF k, l
    <3>4. u[Place(j)] = s[Place(j)]
      BY <1>2, <3>3
    <3> QED
      BY <2>1, <3>1, <3>2, <3>4
  <2> QED
    BY <2>4, <2>5
<1>10. ASSUME NEW j \in 1..(p + T), ~(j <= p) PROVE z[j] = d[j]
  <2> DEFINE i == j - p
  <2>1. i \in 1..T /\ i \in Nat \ {0} /\ j = p + i /\ z[j] = hi[i] /\ j \in 1..TextLen(k)
    BY <1>3, <1>8, <1>10, SMTT(30)
  <2>2. (j % W = 0 <=> i % W = 0) /\ Place(j) = y + Place(i)
    <3> HIDE DEF i
    <3> QED
      BY <1>3, <2>1
  <2>3. j = TextLen(k) <=> i = T
    BY <1>3
  <2> HIDE DEF i
  <2>4. IsNL(j, k) <=> IsNL(i, l)
    BY <2>2, <2>3 DEF IsNL, T
  <2>5. CASE IsNL(i, l)
    BY <1>6, <1>7, <2>1, <2>4, <2>5
  <2>6. CASE ~IsNL(i, l)
    <3>1. hi[i] = t[Place(i)] /\ Place(i) \in 1..l
      BY <1>6, <2>1, <2>6
    <3>2. d[j] = u[Place(j)]
      BY <1>7, <2>1, <2>4, <2>6
    <3>3. Place(j) \in 1..k /\ ~(Place(j) <= y) /\ Place(j) - y = Place(i)
      <4> DEFINE x == Place(i)
      <4>1. l \in Nat
        BY <1>1 DEF l
      <4>2. x \in 1..l /\ Place(j) = y + x
        BY <2>2, <3>1
      <4>3. y \in Nat
        BY <1>3
      <4> HIDE DEF x
      <4>4. y + x \in 1..(y + l) /\ ~(y + x <= y) /\ (y + x) - y = x
        BY <4>1, <4>2, <4>3
      <4>5. k = y + l
        BY DEF k
      <4> QED
        BY <4>2, <4>4, <4>5 DEF x
    <3>4. u[Place(j)] = t[Place(i)]
      BY <1>2, <3>3
    <3> QED
      BY <2>1, <3>1, <3>2, <3>4
  <2> QED
    BY <2>5, <2>6
<1>11. z = d
  <2>1. \A j \in 1..Len(z) : z[j] = d[j]
    BY <1>8, <1>9, <1>10
  <2>2. Len(z) = Len(d)
    BY <1>3, <1>7, <1>8
  <2> QED
    BY <1>7, <1>8, <2>1, <2>2, SeqEqual
<1> QED
  BY <1>11 DEF z, a, hi, d, u
-----------------------------------------------------------------------------
(* The bytes in an encoding are the bytes encoded. *)

\* How many characters are among the first j places of full lines, and among the
\* first j places of a text of m.
Upto(j) == j - (j \div W)
Cnt(j, m) == Least(Upto(j), m)

LEMMA UptoIs ==
    ASSUME NEW a \in Nat, NEW c \in Nat, c < W, NEW j, j = a * W + c
    PROVE  j \in Nat /\ a * LineLen \in Nat /\ Upto(j) = a * LineLen + c
<1> DEFINE x == a * W
           y == a * LineLen
<1>1. W \in Nat \ {0} /\ W = LineLen + 1 /\ LineLen \in Nat
  BY Lengths
<1>2. x \in Nat /\ y \in Nat /\ x = y + a
  BY <1>1, Multiples
<1>3. j = x + c /\ j \in Nat
  BY <1>2
<1>4. j \div W = a
  BY <1>1, <1>3, QuotientIs
<1>5. Upto(j) = j - a
  BY <1>4 DEF Upto
<1>6. Upto(j) = y + c
  <2> HIDE DEF x, y
  <2> QED
    BY <1>2, <1>3, <1>5
<1> QED
  BY <1>2, <1>3, <1>6

LEMMA CntAtEnd ==
    ASSUME NEW m \in Nat
    PROVE  TextLen(m) \in Nat /\ Cnt(0, m) = 0 /\ Cnt(TextLen(m), m) = m
<1>1. LineLen \in Nat \ {0} /\ W \in Nat \ {0} /\ W = LineLen + 1
  BY Lengths
<1>2. PICK q, r \in Nat : r < LineLen /\ m = q * LineLen + r
  BY <1>1, Divide
<1>3. TextLen(m) \in Nat /\ (r = 0 => TextLen(m) = q * W) /\ (r # 0 => TextLen(m) = q * W + (r + 1))
  BY <1>2, TextLenIs
<1>4. Cnt(0, m) = 0
  <2>1. 0 \in Nat /\ 0 < W /\ 0 = 0 * W + 0
    BY <1>1
  <2>2. Upto(0) = 0 * LineLen + 0
    BY <2>1, UptoIs
  <2>3. Upto(0) = 0
    BY <1>1, <2>2
  <2> QED
    BY <2>3 DEF Cnt, Least
<1>5. CASE r = 0
  <2>1. TextLen(m) = q * W + 0 /\ 0 < W /\ m = q * LineLen + 0
    BY <1>1, <1>2, <1>3, <1>5
  <2>2. Upto(TextLen(m)) = m
    BY <2>1, UptoIs
  <2> QED
    BY <1>3, <1>4, <2>2 DEF Cnt, Least
<1>6. CASE r # 0
  <2> DEFINE d == r + 1
             y == q * LineLen
  <2>1. d \in Nat /\ d < W /\ TextLen(m) = q * W + d
    BY <1>1, <1>2, <1>3, <1>6
  <2>2. Upto(TextLen(m)) = y + d /\ y \in Nat
    <3> HIDE DEF d
    <3> QED
      BY <2>1, UptoIs
  <2>3. Upto(TextLen(m)) = m + 1
    <3>1. m = y + r
      BY <1>2
    <3> HIDE DEF y
    <3> QED
      BY <1>2, <2>2, <3>1
  <2> QED
    BY <1>3, <1>4, <2>3 DEF Cnt, Least
<1> QED
  BY <1>5, <1>6

LEMMA CntStep ==
    ASSUME NEW m \in Nat, NEW j \in 1..TextLen(m)
    PROVE  /\ Cnt(j, m) \in Nat /\ Cnt(j - 1, m) \in Nat
           /\ IsNL(j, m) => Cnt(j, m) = Cnt(j - 1, m)
           /\ ~IsNL(j, m) => Cnt(j, m) = Cnt(j - 1, m) + 1 /\ Place(j) = Cnt(j, m)
<1>1. LineLen \in Nat \ {0} /\ W \in Nat \ {0} /\ W = LineLen + 1
  BY Lengths
<1>2. TextLen(m) \in Nat
  BY CntAtEnd
<1>3. PICK a \in Nat, c \in 1..W : j = a * W + c
  BY <1>2, RowOf
<1> DEFINE x == a * W
           y == a * LineLen
<1>4. x \in Nat /\ y \in Nat /\ x = y + a
  BY <1>1, Multiples
<1>5. (j % W = 0 <=> c = W) /\ Place(j) = y + c
  BY <1>3, Row
<1>6. Upto(j - 1) = y + (c - 1)
  <2>1. c - 1 \in Nat /\ c - 1 < W /\ j - 1 = a * W + (c - 1)
    <3>1. j = x + c
      BY <1>3
    <3>2. j - 1 = x + (c - 1)
      <4> HIDE DEF x
      <4> QED
        BY <1>1, <1>4, <3>1
    <3> QED
      BY <1>1, <3>2
  <2> QED
    BY <2>1, UptoIs
<1>7. CASE c = W
  <2>1. Upto(j) = y + LineLen
    <3> DEFINE e == a + 1
    <3>1. e \in Nat /\ e * LineLen = y + LineLen
      BY <1>1, Multiples
    <3>2. j = e * W + 0 /\ 0 < W /\ 0 \in Nat
      BY <1>1, <1>3, <1>7
    <3>3. Upto(j) = e * LineLen + 0
      <4> HIDE DEF e
      <4> QED
        BY <3>1, <3>2, UptoIs
    <3> HIDE DEF e, y
    <3> QED
      BY <1>1, <1>4, <3>1, <3>3
  <2>2. Upto(j - 1) = Upto(j) /\ Upto(j) \in Nat
    <3> HIDE DEF y
    <3> QED
      BY <1>1, <1>4, <1>6, <1>7, <2>1
  <2>3. IsNL(j, m)
    BY <1>5, <1>7 DEF IsNL
  <2> QED
    BY <2>2, <2>3 DEF Cnt, Least
<1>8. CASE c # W /\ j # TextLen(m)
  <2>1. ~IsNL(j, m)
    BY <1>5, <1>8 DEF IsNL
  <2>2. Place(j) \in 1..m
    BY <2>1, PlaceInside
  <2>3. Upto(j) = Place(j)
    <3>1. c \in Nat /\ c < W
      BY <1>1, <1>8
    <3> QED
      BY <1>3, <1>5, <3>1, UptoIs
  <2>4. Upto(j) = Upto(j - 1) + 1 /\ Upto(j - 1) \in Nat
    <3> HIDE DEF y
    <3> QED
      BY <1>1, <1>4, <1>5, <1>6, <2>3
  <2> QED
    BY <2>1, <2>2, <2>3, <2>4 DEF Cnt, Least
<1>9. CASE c # W /\ j = TextLen(m)
  <2>1. IsNL(j, m)
    BY <1>9 DEF IsNL
  <2>2. PICK q, r \in Nat : r < LineLen /\ m = q * LineLen + r
    BY <1>1, Divide
  <2>3. (r = 0 => j = q * W) /\ (r # 0 => j = q * W + (r + 1))
    BY <1>9, <2>2, TextLenIs
  <2>4. c \in Nat /\ c < W /\ c # 0 /\ j \in Nat
    BY <1>1, <1>2, <1>9
  <2>5. j \div W = a /\ j % W = c
    BY <1>1, <1>3, <2>4, QuotientIs
  <2>6. r # 0
    <3> SUFFICES ASSUME r = 0 PROVE FALSE
      OBVIOUS
    <3>1. j = q * W + 0 /\ 0 < W /\ 0 \in Nat
      BY <1>1, <2>3
    <3>2. j % W = 0
      BY <1>1, <2>4, <3>1, QuotientIs
    <3> QED
      BY <2>4, <2>5, <3>2
  <2>7. a = q /\ c = r + 1
    <3> DEFINE d == r + 1
    <3>1. d \in Nat /\ d < W /\ j = q * W + d
      BY <1>1, <2>2, <2>3, <2>6
    <3>2. j \div W = q /\ j % W = d
      <4> HIDE DEF d
      <4> QED
        BY <1>1, <2>4, <3>1, QuotientIs
    <3> QED
      BY <2>5, <3>2
  <2>8. Upto(j) = y + c
    BY <1>3, <2>4, UptoIs
  <2>9. m = y + r
    BY <2>2, <2>7
  <2>10. Upto(j) = m + 1 /\ Upto(j - 1) = m
    <3> HIDE DEF y
    <3> QED
      BY <1>4, <1>6, <2>2, <2>7, <2>8, <2>9
  <2> QED
    BY <2>1, <2>10 DEF Cnt, Least
<1> QED
  BY <1>7, <1>8, <1>9
NoBytes(s) == \A i \in 1..Len(s) : s[i][1] # "byte"

\* A line before the encoding and one after it add no bytes.
LEMMA BytesBetween ==
    ASSUME NEW m \in Nat, NEW s \in Seq(Char), NEW t \in Seq(Char), NoBytes(s), NoBytes(t)
    PROVE  OnlyBytes((s \o Encode(Bytes(m))) \o t) = Bytes(m)
<1> DEFINE P == Len(s)
           T == TextLen(m)
           E == Len(t)
           e == Encode(Bytes(m))
           h == s \o e
           z == h \o t
           N == (P + T) + E
           B == [k \in 0..N |-> IF k <= P THEN 0 ELSE IF k <= P + T THEN Cnt(k - P, m) ELSE m]
<1>1. Bytes(m) \in Seq(Char) /\ Len(Bytes(m)) = m /\ \A x \in 1..m : Bytes(m)[x] = <<"byte", x>>
  BY BytesIs
<1>2. /\ e \in Seq(Char) /\ Len(e) = T /\ T \in Nat
      /\ \A j \in 1..T : /\ IsNL(j, m) => e[j] = NL
                         /\ ~IsNL(j, m) => e[j] = <<"byte", Place(j)>>
  <2> DEFINE w == Bytes(m)
  <2>1. w \in Seq(Char) /\ Len(w) = m /\ \A x \in 1..m : w[x] = <<"byte", x>>
    BY <1>1
  <2> HIDE DEF w
  <2>2. /\ Encode(w) \in Seq(Char) /\ Len(Encode(w)) = T /\ T \in Nat
        /\ \A j \in 1..T : /\ IsNL(j, m) => Encode(w)[j] = NL
                           /\ ~IsNL(j, m) => Encode(w)[j] = w[Place(j)] /\ Place(j) \in 1..m
    BY <2>1, EncodeIs
  <2> QED
    BY <2>1, <2>2 DEF w
<1>3. Cnt(0, m) = 0 /\ Cnt(T, m) = m
  BY CntAtEnd
<1>4. ASSUME NEW j \in 1..T
      PROVE  /\ Cnt(j, m) \in Nat
             /\ \/ Cnt(j, m) = Cnt(j - 1, m) + 1 /\ e[j] = <<"byte", Cnt(j, m)>>
                \/ Cnt(j, m) = Cnt(j - 1, m) /\ e[j][1] # "byte"
  <2>1. /\ Cnt(j, m) \in Nat /\ Cnt(j - 1, m) \in Nat
        /\ IsNL(j, m) => Cnt(j, m) = Cnt(j - 1, m)
        /\ ~IsNL(j, m) => Cnt(j, m) = Cnt(j - 1, m) + 1 /\ Place(j) = Cnt(j, m)
    BY CntStep
  <2>2. NL[1] # "byte"
    BY DEF NL
  <2> HIDE DEF e, T
  <2>3. CASE IsNL(j, m)
    BY <1>2, <2>1, <2>2, <2>3
  <2>4. CASE ~IsNL(j, m)
    BY <1>2, <2>1, <2>4
  <2> QED
    BY <2>3, <2>4
<1> HIDE DEF P, T, E, e
<1>5. /\ h \in Seq(Char) /\ Len(h) = P + T /\ P \in Nat
      /\ \A i \in 1..(P + T) : h[i] = IF i <= P THEN s[i] ELSE e[i - P]
  <2>1. e \in Seq(Char) /\ Len(e) = T
    BY <1>2
  <2> QED
    BY ONLY <2>1, s \in Seq(Char), Glue DEF P
<1> HIDE DEF h
<1>6. /\ z \in Seq(Char) /\ Len(z) = N /\ E \in Nat
      /\ \A i \in 1..N : z[i] = IF i <= P + T THEN h[i] ELSE t[i - (P + T)]
  <2> DEFINE R == P + T
  <2>1. h \in Seq(Char) /\ Len(h) = R
    BY <1>5
  <2> HIDE DEF R
  <2>2. /\ h \o t \in Seq(Char) /\ Len(h \o t) = R + E /\ E \in Nat
        /\ \A i \in 1..(R + E) : (h \o t)[i] = IF i <= R THEN h[i] ELSE t[i - R]
    BY <2>1, Glue DEF E
  <2> QED
    BY <2>2 DEF R
<1>7. N \in Nat
  BY <1>2, <1>5, <1>6
<1> HIDE DEF z
<1>8. \A k \in 0..N : B[k] \in Nat
  <2>1. ASSUME NEW k \in 0..N, ~(k <= P), k <= P + T PROVE Cnt(k - P, m) \in Nat
    <3>1. k - P \in 1..T
      BY <1>2, <1>5, <1>7, <2>1
    <3> QED
      BY <1>4, <3>1
  <2> QED
    BY <2>1
<1>9. ASSUME NEW k \in 1..N
      PROVE  \/ B[k] = B[k - 1] + 1 /\ z[k] = <<"byte", B[k]>>
             \/ B[k] = B[k - 1] /\ z[k][1] # "byte"
  <2>1. k \in 0..N /\ k - 1 \in 0..N
    BY <1>7
  <2>2. CASE k <= P
    <3>1. B[k] = 0 /\ B[k - 1] = 0
      BY <1>5, <2>1, <2>2
    <3>2. k \in 1..P /\ k \in 1..(P + T) /\ k <= P + T
      BY <1>2, <1>5, <2>2
    <3>3. z[k] = s[k]
      BY <1>5, <1>6, <2>2, <3>2
    <3>4. s[k][1] # "byte"
      BY <3>2 DEF NoBytes, P
    <3> QED
      BY <3>1, <3>3, <3>4
  <2>3. CASE ~(k <= P) /\ k <= P + T
    <3> DEFINE j == k - P
    <3>1. j \in 1..T /\ k \in 1..(P + T) /\ (k - 1) - P = j - 1
      BY <1>2, <1>5, <2>3
    <3>2. z[k] = e[j] /\ B[k] = Cnt(j, m)
      BY <1>5, <1>6, <2>1, <2>3, <3>1
    <3>3. B[k - 1] = Cnt(j - 1, m)
      <4>1. CASE k - 1 <= P
        <5>1. j - 1 = 0 /\ B[k - 1] = 0
          BY <1>5, <2>1, <2>3, <4>1
        <5> HIDE DEF j, B
        <5> QED
          BY <1>3, <5>1
      <4>2. CASE ~(k - 1 <= P)
        <5>1. k - 1 <= P + T
          BY <1>2, <1>5, <2>3
        <5>2. B[k - 1] = Cnt((k - 1) - P, m)
          BY <2>1, <4>2, <5>1
        <5> HIDE DEF B, j
        <5> QED
          BY <3>1, <5>2
      <4> QED
        BY <4>1, <4>2
    <3> HIDE DEF j, B
    <3> QED
      BY <1>4, <3>1, <3>2, <3>3
  <2>4. CASE ~(k <= P + T)
    <3>1. ~(k <= P) /\ k - (P + T) \in 1..E
      BY <1>2, <1>5, <1>6, <2>4
    <3>2. B[k] = m /\ z[k] = t[k - (P + T)]
      BY <1>6, <2>1, <2>4, <3>1
    <3>3. B[k - 1] = m
      <4>1. CASE k - 1 <= P
        <5>1. T = 0 /\ k - 1 = P
          BY <1>2, <1>5, <2>4, <4>1
        <5>2. m = 0
          BY <1>3, <5>1
        <5> QED
          BY <2>1, <4>1, <5>2
      <4>2. CASE ~(k - 1 <= P) /\ k - 1 <= P + T
        <5>1. (k - 1) - P = T
          BY <1>2, <1>5, <2>4, <4>2
        <5>2. B[k - 1] = Cnt((k - 1) - P, m)
          BY <2>1, <4>2
        <5> HIDE DEF B
        <5> QED
          BY <1>3, <5>1, <5>2
      <4>3. CASE ~(k - 1 <= P) /\ ~(k - 1 <= P + T)
        BY <2>1, <4>3
      <4> QED
        BY <4>1, <4>2, <4>3
    <3>4. t[k - (P + T)][1] # "byte"
      BY <3>1 DEF NoBytes, E
    <3> QED
      BY <3>2, <3>3, <3>4
  <2> QED
    BY <2>2, <2>3, <2>4
<1>10. B[0] = 0 /\ B[N] = m
  <2>1. 0 \in 0..N /\ N \in 0..N
    BY <1>7
  <2>2. B[0] = 0
    BY <1>5, <2>1
  <2>3. CASE E # 0
    BY <1>2, <1>5, <1>6, <2>1, <2>3
  <2>4. CASE E = 0 /\ T # 0
    <3>1. ~(N <= P) /\ N <= P + T /\ N - P = T
      BY <1>2, <1>5, <2>4
    <3>2. B[N] = Cnt(N - P, m)
      BY <2>1, <3>1
    <3> HIDE DEF B
    <3> QED
      BY <1>3, <2>2, <3>1, <3>2
  <2>5. CASE E = 0 /\ T = 0
    <3>1. N = P /\ m = 0
      BY <1>3, <1>5, <2>5
    <3> QED
      BY <2>1, <2>2, <3>1
  <2> QED
    BY <2>2, <2>3, <2>4, <2>5
<1> HIDE DEF B, N
<1>11. OnlyBytes(z) = Run(B[0], B[Len(z)])
  BY <1>6, <1>8, <1>9, Counted
<1>12. OnlyBytes(z) = Bytes(m)
  BY <1>6, <1>10, <1>11, BytesAreRun
<1> QED
  BY <1>12 DEF z, h, e

LEMMA Lines ==
    /\ BeginLine \in Seq(Char) /\ Len(BeginLine) = ProbeLen /\ NoBytes(BeginLine)
    /\ EndLine \in Seq(Char) /\ Len(EndLine) = EndLen /\ NoBytes(EndLine)
<1>1. ProbeLen \in Nat /\ EndLen \in Nat
  BY Lengths
<1>2. /\ \A i \in 1..ProbeLen : <<"begin", i>> \in Char
      /\ \A i \in 1..EndLen : <<"end", i>> \in Char
  BY DEF Char
<1>3. BeginLine \in Seq(Char) /\ Len(BeginLine) = ProbeLen
  BY <1>1, <1>2 DEF BeginLine
<1>4. EndLine \in Seq(Char) /\ Len(EndLine) = EndLen
  BY <1>1, <1>2 DEF EndLine
<1>5. NoBytes(BeginLine)
  BY <1>3 DEF NoBytes, BeginLine
<1>6. NoBytes(EndLine)
  BY <1>4 DEF NoBytes, EndLine
<1> QED
  BY <1>3, <1>4, <1>5, <1>6

\* The BEGIN line and the lines of m bytes.
Sent(m) == BeginLine \o Encode(Bytes(m))

LEMMA SentIs ==
    ASSUME NEW m \in Nat
    PROVE  /\ Encode(Bytes(m)) \in Seq(Char) /\ Sent(m) \in Seq(Char)
           /\ Armored(m) = Sent(m) \o EndLine /\ Armored(m) \in Seq(Char)
           /\ OnlyBytes(Sent(m)) = Bytes(m) /\ OnlyBytes(Armored(m)) = Bytes(m)
<1>1. Encode(Bytes(m)) \in Seq(Char)
  BY BytesIs, EncodeIs
<1>2. Sent(m) \in Seq(Char)
  BY <1>1, Lines, ConcatProperties DEF Sent
<1>3. Armored(m) = Sent(m) \o EndLine
  BY DEF Armored, Sent
<1>4. Armored(m) \in Seq(Char)
  BY <1>2, <1>3, Lines, ConcatProperties
<1>5. OnlyBytes(Armored(m)) = Bytes(m)
  BY Lines, BytesBetween DEF Armored
<1>6. OnlyBytes(Sent(m)) = Bytes(m)
  <2> DEFINE n == <<>>
  <2>1. n \in Seq(Char) /\ NoBytes(n)
    BY DEF NoBytes
  <2>2. Sent(m) \o n = Sent(m)
    BY <1>2, ConcatEmptySeq
  <2> HIDE DEF n
  <2>3. OnlyBytes((BeginLine \o Encode(Bytes(m))) \o n) = Bytes(m)
    BY <2>1, Lines, BytesBetween
  <2> QED
    BY <2>2, <2>3 DEF Sent
<1> QED
  BY <1>1, <1>2, <1>3, <1>4, <1>5, <1>6

LEMMA OnlyBytesOfBytes == ASSUME NEW m \in Nat PROVE OnlyBytes(Bytes(m)) = Bytes(m)
<1> DEFINE B == [k \in 0..m |-> k]
           s == Bytes(m)
<1>1. s \in Seq(Char) /\ Len(s) = m /\ \A x \in 1..m : s[x] = <<"byte", x>>
  BY BytesIs
<1>2. /\ \A k \in 0..m : B[k] \in Nat
      /\ \A k \in 1..m : B[k] = B[k - 1] + 1 /\ B[k] = k
      /\ B[0] = 0 /\ B[m] = m
  OBVIOUS
<1> HIDE DEF s, B
<1>3. OnlyBytes(s) = Run(B[0], B[Len(s)])
  BY <1>1, <1>2, Counted
<1> QED
  BY <1>1, <1>2, <1>3, BytesAreRun DEF s

-----------------------------------------------------------------------------

LEMMA NullLen == <<>> \in Seq(Char) /\ Len(<<>>) = 0
  OBVIOUS

\* A piece cut in two (awrite, writeall).
LEMMA Cut ==
    ASSUME NEW s \in Seq(Char), NEW k \in 0..Len(s)
    PROVE  /\ Before(s, k) \in Seq(Char) /\ Len(Before(s, k)) = k
           /\ After(s, k) \in Seq(Char) /\ Len(After(s, k)) = Len(s) - k
           /\ \A i \in 1..k : Before(s, k)[i] = s[i]
           /\ \A i \in 1..(Len(s) - k) : After(s, k)[i] = s[k + i]
           /\ Before(s, k) \o After(s, k) = s
<1> DEFINE n == Len(s)
           x == Before(s, k)
           y == After(s, k)
           z == x \o y
<1>1. n \in Nat /\ \A i \in 1..n : s[i] \in Char
  BY LenProperties, ElementOfSeq
<1>2. x \in Seq(Char) /\ Len(x) = k /\ \A i \in 1..k : x[i] = s[i]
  <2>1. 1 \in Int /\ k \in Int /\ \A i \in 1..k : s[i] \in Char
    BY <1>1
  <2> QED
    BY <1>1, <2>1, SubSeqProperties DEF Before
<1>3. y \in Seq(Char) /\ Len(y) = n - k /\ \A i \in 1..(n - k) : y[i] = s[k + i]
  <2>1. k + 1 \in Int /\ n \in Int /\ \A i \in (k + 1)..n : s[i] \in Char
    BY <1>1
  <2>2. y \in Seq(Char) /\ Len(y) = IF k + 1 <= n THEN n - (k + 1) + 1 ELSE 0
    BY <2>1, SubSeqProperties DEF After
  <2>3. Len(y) = n - k
    BY <1>1, <2>2
  <2>4. \A i \in 1..(n - (k + 1) + 1) : y[i] = s[(k + 1) + i - 1]
    BY <2>1, SubSeqProperties DEF After
  <2>5. \A i \in 1..(n - k) : i \in 1..(n - (k + 1) + 1) /\ (k + 1) + i - 1 = k + i
    BY <1>1
  <2> QED
    BY <2>2, <2>3, <2>4, <2>5
<1> HIDE DEF x, y
<1>4. /\ z \in Seq(Char) /\ Len(z) = k + (n - k)
      /\ \A i \in 1..(k + (n - k)) : z[i] = IF i <= k THEN x[i] ELSE y[i - k]
  <2> DEFINE d == n - k
  <2>1. Len(y) = d
    BY <1>3
  <2> HIDE DEF d
  <2>2. /\ z \in Seq(Char) /\ Len(z) = k + d
        /\ \A i \in 1..(k + d) : z[i] = IF i <= k THEN x[i] ELSE y[i - k]
    <3>1. x \in Seq(Char) /\ y \in Seq(Char) /\ Len(x) = k /\ Len(y) = d
      BY <1>2, <1>3, <2>1
    <3> QED
      BY <3>1, Glue
  <2> QED
    BY <2>2 DEF d
<1> HIDE DEF z
<1>5. Len(z) = n
  BY <1>1, <1>4
<1>6. ASSUME NEW i \in 1..n PROVE z[i] = s[i]
  <2>1. i \in 1..(k + (n - k))
    BY <1>1
  <2>2. CASE i <= k
    <3>1. i \in 1..k
      BY <1>1, <2>2
    <3> QED
      BY <1>2, <1>4, <2>1, <2>2, <3>1
  <2>3. CASE ~(i <= k)
    <3> DEFINE j == i - k
    <3>1. j \in 1..(n - k) /\ k + j = i
      BY <1>1, <2>3
    <3>2. z[i] = y[j]
      BY <1>4, <2>1, <2>3
    <3> HIDE DEF j
    <3> QED
      BY <1>3, <3>1, <3>2
  <2> QED
    BY <2>2, <2>3
<1>7. z = s
  BY <1>4, <1>5, <1>6, SeqEqual
<1> QED
  BY <1>2, <1>3, <1>7 DEF x, y, z

\* Runs that meet.
LEMMA RunJoin ==
    ASSUME NEW u \in Nat, NEW v \in Nat, NEW w \in Nat, u <= v, v <= w
    PROVE  Run(u, v) \o Run(v, w) = Run(u, w)
<1> DEFINE s == Run(u, v)
           t == Run(v, w)
           r == Run(u, w)
           m == v - u
           n == w - v
           z == s \o t
<1>1. m \in Nat /\ n \in Nat /\ w - u = m + n /\ u <= w
  OBVIOUS
<1>2. s \in Seq(Char) /\ Len(s) = m /\ \A x \in 1..m : s[x] = <<"byte", u + x>>
  BY RunIs
<1>3. t \in Seq(Char) /\ Len(t) = n /\ \A x \in 1..n : t[x] = <<"byte", v + x>>
  BY RunIs
<1>4. r \in Seq(Char) /\ Len(r) = m + n /\ \A x \in 1..(m + n) : r[x] = <<"byte", u + x>>
  BY <1>1, RunIs
<1> HIDE DEF s, t, r
<1>5. z \in Seq(Char) /\ Len(z) = m + n /\ \A i \in 1..(m + n) : z[i] = IF i <= m THEN s[i] ELSE t[i - m]
  <2>1. s \in Seq(Char) /\ t \in Seq(Char) /\ Len(s) = m /\ Len(t) = n
    BY <1>2, <1>3
  <2> HIDE DEF m, n
  <2> QED
    BY <2>1, Glue
<1> HIDE DEF z
<1>6. ASSUME NEW i \in 1..(m + n) PROVE z[i] = r[i]
  <2>1. CASE i <= m
    <3>1. i \in 1..m
      BY <2>1
    <3> QED
      BY <1>2, <1>4, <1>5, <2>1, <3>1
  <2>2. CASE ~(i <= m)
    <3> DEFINE j == i - m
    <3>1. j \in 1..n /\ v + j = u + i
      BY <2>2
    <3>2. z[i] = t[j]
      BY <1>5, <2>2
    <3> HIDE DEF j
    <3> QED
      BY <1>3, <1>4, <3>1, <3>2
  <2> QED
    BY <2>1, <2>2
<1>7. z = r
  BY <1>4, <1>5, <1>6, SeqEqual
<1> QED
  BY <1>7 DEF z, s, t, r

LEMMA RunCut ==
    ASSUME NEW u \in Nat, NEW v \in Nat, u <= v, NEW k \in 0..(v - u)
    PROVE  Before(Run(u, v), k) = Run(u, u + k) /\ After(Run(u, v), k) = Run(u + k, v)
<1> DEFINE s == Run(u, v)
           w == u + k
           x == Run(u, w)
           y == Run(w, v)
<1>1. s \in Seq(Char) /\ Len(s) = v - u /\ \A i \in 1..(v - u) : s[i] = <<"byte", u + i>>
  BY RunIs
<1>2. w \in Nat /\ u <= w /\ w <= v /\ w - u = k /\ v - w = (v - u) - k
  OBVIOUS
<1> HIDE DEF w
<1>3. x \in Seq(Char) /\ Len(x) = w - u /\ \A i \in 1..(w - u) : x[i] = <<"byte", u + i>>
  BY <1>2, RunIs
<1>4. y \in Seq(Char) /\ Len(y) = v - w /\ \A i \in 1..(v - w) : y[i] = <<"byte", w + i>>
  BY <1>2, RunIs
<1> HIDE DEF s, x, y
<1>5. /\ Before(s, k) \in Seq(Char) /\ Len(Before(s, k)) = k
      /\ After(s, k) \in Seq(Char) /\ Len(After(s, k)) = Len(s) - k
      /\ \A i \in 1..k : Before(s, k)[i] = s[i]
      /\ \A i \in 1..(Len(s) - k) : After(s, k)[i] = s[k + i]
  BY <1>1, Cut
<1>6. Before(s, k) = x
  <2>1. ASSUME NEW i \in 1..k PROVE Before(s, k)[i] = x[i]
    <3>1. i \in 1..(v - u) /\ i \in 1..(w - u)
      BY <1>2
    <3> QED
      BY <1>1, <1>3, <1>5, <3>1
  <2> QED
    BY <1>2, <1>3, <1>5, <2>1, SeqEqual
<1>7. After(s, k) = y
  <2>1. ASSUME NEW i \in 1..(v - w) PROVE After(s, k)[i] = y[i]
    <3>1. i \in 1..(Len(s) - k) /\ k + i \in 1..(v - u) /\ u + (k + i) = w + i
      BY <1>1, <1>2 DEF w
    <3>2. After(s, k)[i] = s[k + i]
      BY <1>5, <3>1
    <3> QED
      BY <1>1, <1>4, <3>1, <3>2
  <2>2. Len(After(s, k)) = Len(y)
    BY <1>1, <1>2, <1>4, <1>5
  <2>3. \A i \in 1..Len(After(s, k)) : After(s, k)[i] = y[i]
    BY <1>4, <2>1, <2>2
  <2> QED
    BY <1>4, <1>5, <2>2, <2>3, SeqEqual
<1> QED
  BY <1>6, <1>7 DEF s, x, y, w
-----------------------------------------------------------------------------
(* The writes under way. *)

LEMMA Joined == ASSUME NEW s \in Seq(Char), NEW t \in Seq(Char) PROVE s \o t \in Seq(Char)
  BY ConcatProperties

LEMMA Regroup ==
    ASSUME NEW s \in Seq(Char), NEW t \in Seq(Char), NEW u \in Seq(Char)
    PROVE  (s \o t) \o u = s \o (t \o u)
  BY ConcatAssociative

\* The same for four, with the concatenation as an operator the provers do not open.
Cat(a, hi) == a \o hi

LEMMA CatRegroup ==
    ASSUME NEW a \in Seq(Char), NEW hi \in Seq(Char), NEW c \in Seq(Char)
    PROVE  Cat(Cat(a, hi), c) = Cat(a, Cat(hi, c))
  BY ConcatAssociative DEF Cat

LEMMA CatJoined ==
    ASSUME NEW a \in Seq(Char), NEW hi \in Seq(Char)
    PROVE  Cat(a, hi) \in Seq(Char)
  BY ConcatProperties DEF Cat

LEMMA CatFour ==
    ASSUME NEW d \in Seq(Char), NEW f \in Seq(Char), NEW g \in Seq(Char), NEW t \in Seq(Char)
    PROVE  Cat(Cat(d, f), Cat(g, t)) = Cat(d, Cat(Cat(f, g), t))
<1>1. Cat(Cat(d, f), Cat(g, t)) = Cat(d, Cat(f, Cat(g, t)))
  BY CatJoined, CatRegroup
<1>2. Cat(f, Cat(g, t)) = Cat(Cat(f, g), t)
  BY CatRegroup
<1> QED
  BY <1>1, <1>2

LEMMA Pair == ASSUME NEW x, NEW y PROVE <<x>> \o <<y>> = <<x, y>>
<1> DEFINE S == {x, y}
<1>1. <<x>> \in Seq(S) /\ <<y>> \in Seq(S) /\ <<x, y>> \in Seq(S)
  OBVIOUS
<1>2. /\ <<x>> \o <<y>> \in Seq(S) /\ Len(<<x>> \o <<y>>) = Len(<<x>>) + Len(<<y>>)
      /\ \A i \in 1..(Len(<<x>>) + Len(<<y>>)) :
            (<<x>> \o <<y>>)[i] = IF i <= Len(<<x>>) THEN <<x>>[i] ELSE <<y>>[i - Len(<<x>>)]
  <2> HIDE DEF S
  <2> QED
    BY <1>1, ConcatProperties
<1>3. Len(<<x>>) = 1 /\ Len(<<y>>) = 1 /\ Len(<<x, y>>) = 2
  OBVIOUS
<1> DEFINE z == <<x>> \o <<y>>
<1>4. z \in Seq(S) /\ Len(z) = 2 /\ z[1] = x /\ z[2] = y
  <2>1. 1 \in 1..2 /\ 2 \in 1..2 /\ 2 - 1 = 1 /\ 1 + 1 = 2 /\ 1 <= 1 /\ ~(2 <= 1)
    OBVIOUS
  <2>2. \A i \in 1..2 : z[i] = IF i <= 1 THEN <<x>>[i] ELSE <<y>>[i - 1]
    BY <1>2, <1>3, <2>1, Zenon
  <2>3. z \in Seq(S) /\ Len(z) = 2
    BY <1>2, <1>3
  <2>4. <<x>>[1] = x /\ <<y>>[1] = y
    OBVIOUS
  <2> HIDE DEF z, S
  <2> QED
    BY <2>1, <2>2, <2>3, <2>4
<1> HIDE DEF z
<1>5. z = <<x, y>>
  <2> DEFINE w == <<x, y>>
  <2>1. w \in Seq(S) /\ Len(w) = 2 /\ w[1] = x /\ w[2] = y
    BY <1>1, <1>3
  <2> HIDE DEF w, S
  <2>2. \A i \in 1..Len(z) : z[i] = w[i]
    <3>1. \A i \in 1..Len(z) : i = 1 \/ i = 2
      BY <1>4
    <3> QED
      BY <1>4, <2>1, <3>1
  <2>3. z = w
    BY <1>4, <2>1, <2>2, SeqEqual
  <2> QED
    BY <2>3 DEF w
<1> QED
  BY <1>5 DEF z

LEMMA FlatNone == FlattenSeq(<<>>) = <<>>
  BY DEF FlattenSeq

LEMMA FlatOne == ASSUME NEW x PROVE FlattenSeq(<<x>>) = x
<1> DEFINE s == <<x>>
           f == CHOOSE f : f = [i \in 1..Len(s) |-> IF i = 1 THEN s[i] ELSE f[i - 1] \o s[i]]
           g == [i \in 1..1 |-> x]
<1>1. Len(s) = 1 /\ s[1] = x
  OBVIOUS
<1>2. g = [i \in 1..1 |-> IF i = 1 THEN s[i] ELSE g[i - 1] \o s[i]]
  <2>1. \A i \in 1..1 : i = 1
    OBVIOUS
  <2> QED
    BY <1>1, <2>1
<1>3. \E h : h = [i \in 1..Len(s) |-> IF i = 1 THEN s[i] ELSE h[i - 1] \o s[i]]
  <2> HIDE DEF g, s
  <2> QED
    BY <1>1, <1>2
<1>4. f = [i \in 1..Len(s) |-> IF i = 1 THEN s[i] ELSE f[i - 1] \o s[i]]
  BY <1>3
<1>5. FlattenSeq(s) = f[Len(s)]
  BY <1>1 DEF FlattenSeq
<1> HIDE DEF f, s
<1>6. f[1] = s[1]
  BY <1>1, <1>4
<1> QED
  BY <1>1, <1>5, <1>6 DEF s

LEMMA FlatTwo == ASSUME NEW x, NEW y PROVE FlattenSeq(<<x, y>>) = x \o y
<1> DEFINE s == <<x, y>>
           f == CHOOSE f : f = [i \in 1..Len(s) |-> IF i = 1 THEN s[i] ELSE f[i - 1] \o s[i]]
           g == [i \in 1..2 |-> IF i = 1 THEN x ELSE x \o y]
<1>1. Len(s) = 2 /\ s[1] = x /\ s[2] = y
  OBVIOUS
<1>2. g = [i \in 1..2 |-> IF i = 1 THEN s[i] ELSE g[i - 1] \o s[i]]
  <2>1. \A i \in 1..2 : i = 1 \/ i = 2
    OBVIOUS
  <2>2. g[1] = x /\ g[2] = x \o y /\ 2 - 1 = 1
    OBVIOUS
  <2>3. \A i \in 1..2 : (IF i = 1 THEN x ELSE x \o y) = IF i = 1 THEN s[i] ELSE g[i - 1] \o s[i]
    <3> HIDE DEF g, s
    <3> QED
      BY <1>1, <2>1, <2>2
  <2> QED
    BY <2>3
<1>3. \E h : h = [i \in 1..Len(s) |-> IF i = 1 THEN s[i] ELSE h[i - 1] \o s[i]]
  <2> HIDE DEF g, s
  <2> QED
    BY <1>1, <1>2
<1>4. f = [i \in 1..Len(s) |-> IF i = 1 THEN s[i] ELSE f[i - 1] \o s[i]]
  BY <1>3
<1>5. FlattenSeq(s) = f[Len(s)]
  BY <1>1 DEF FlattenSeq
<1> HIDE DEF f, s
<1> DEFINE e(i) == IF i = 1 THEN s[i] ELSE f[i - 1] \o s[i]
<1>6. f[1] = e(1) /\ f[2] = e(2)
  <2>1. f = [i \in 1..2 |-> e(i)]
    BY <1>1, <1>4
  <2> HIDE DEF e
  <2>2. 1 \in 1..2 /\ 2 \in 1..2
    OBVIOUS
  <2> QED
    BY <2>1, <2>2
<1>7. e(1) = x /\ e(2) = f[1] \o y
  <2>1. 2 - 1 = 1 /\ 2 # 1
    OBVIOUS
  <2> QED
    BY <1>1, <2>1, Zenon
<1>8. f[2] = x \o y
  <2> HIDE DEF e
  <2> QED
    BY <1>6, <1>7, Zenon
<1> QED
  BY <1>1, <1>5, <1>8, Zenon DEF s

\* Up to two writes follow each other: bwrite's full buffer and the rest of the
\* piece.
Queue(p, x, y) == p = WriteAll(x) \o WriteAll(y)
\* The first write of p, of the text z, and the one after it.
Leads(p, z) == \E h, t \in Seq(Char) : /\ h # <<>> /\ Head(p) = h /\ Tail(p) = WriteAll(t)
                                       /\ z = h \o t

LEMMA QueueIs ==
    ASSUME NEW x \in Seq(Char), NEW y \in Seq(Char), NEW p, Queue(p, x, y)
    PROVE  /\ FlattenSeq(p) = x \o y /\ x \o y \in Seq(Char)
           /\ \A i \in 1..Len(p) : p[i] # <<>>
           /\ p # <<>> => Leads(p, x \o y)
           /\ p = <<>> => x = <<>> /\ y = <<>>
<1>1. x \o y \in Seq(Char) /\ x \o <<>> = x /\ <<>> \o y = y /\ <<>> \in Seq(Char)
  BY ConcatProperties, ConcatEmptySeq
<1>2. WriteAll(<<>>) = <<>>
  BY DEF WriteAll
<1>3. CASE x = <<>> /\ y = <<>>
  <2>1. p = <<>>
    BY <1>3 DEF Queue, WriteAll
  <2> QED
    BY <1>1, <1>3, <2>1, FlatNone
<1>4. CASE x = <<>> /\ y # <<>>
  <2>1. p = <<y>>
    BY <1>4 DEF Queue, WriteAll
  <2>2. Len(p) = 1 /\ Head(p) = y /\ Tail(p) = <<>> /\ p # <<>> /\ p[1] = y
    BY <2>1
  <2>3. FlattenSeq(p) = y
    BY <2>1, FlatOne
  <2>4. y \o <<>> = y /\ x \o y = y
    BY <1>1, <1>4, ConcatEmptySeq
  <2>5. \A i \in 1..Len(p) : i = 1
    BY <2>2
  <2> HIDE DEF Queue
  <2> QED
    BY <1>1, <1>2, <1>4, <2>2, <2>3, <2>4, <2>5 DEF Leads
<1>5. CASE x # <<>> /\ y = <<>>
  <2>1. p = <<x>>
    BY <1>5 DEF Queue, WriteAll
  <2>2. Len(p) = 1 /\ Head(p) = x /\ Tail(p) = <<>> /\ p # <<>> /\ p[1] = x
    BY <2>1
  <2>3. FlattenSeq(p) = x
    BY <2>1, FlatOne
  <2>5. \A i \in 1..Len(p) : i = 1
    BY <2>2
  <2> QED
    BY <1>1, <1>2, <1>5, <2>2, <2>3, <2>5 DEF Leads
<1>6. CASE x # <<>> /\ y # <<>>
  <2>1. p = <<x, y>>
    <3>1. p = <<x>> \o <<y>>
      BY <1>6 DEF Queue, WriteAll
    <3>2. <<x>> \o <<y>> = <<x, y>>
      BY Pair
    <3> QED
      BY <3>1, <3>2
  <2>2. Len(p) = 2 /\ Head(p) = x /\ Tail(p) = <<y>> /\ p # <<>> /\ p[1] = x /\ p[2] = y
    BY <2>1
  <2>3. FlattenSeq(p) = x \o y
    BY <2>1, FlatTwo
  <2>4. WriteAll(y) = <<y>>
    BY <1>6 DEF WriteAll
  <2>5. \A i \in 1..Len(p) : i = 1 \/ i = 2
    BY <2>2
  <2> QED
    BY <1>1, <1>6, <2>2, <2>3, <2>4, <2>5 DEF Leads
<1> QED
  BY <1>3, <1>4, <1>5, <1>6

\* The queue p after the text f is the text z.
Completes(p, f, z) == \E u, v \in Seq(Char) :
                         Queue(p, u, v) /\ f \in Seq(Char) /\ f \o (u \o v) = z

\* One short write.
LEMMA QueueStep ==
    ASSUME NEW x \in Seq(Char), NEW y \in Seq(Char), NEW p, Queue(p, x, y), p # <<>>,
           NEW d \in Seq(Char), NEW k \in 1..Len(Head(p))
    PROVE  Completes(WriteAll(After(Head(p), k)) \o Tail(p), d \o Before(Head(p), k), d \o (x \o y))
<1>1. PICK h, t \in Seq(Char) : h # <<>> /\ Head(p) = h /\ Tail(p) = WriteAll(t) /\ x \o y = h \o t
  <2>1. Leads(p, x \o y)
    BY QueueIs
  <2> QED
    BY <2>1 DEF Leads
<1> DEFINE f == Before(h, k)
           g == After(h, k)
<1>2. f \in Seq(Char) /\ g \in Seq(Char) /\ f \o g = h
  <2>1. k \in 0..Len(h)
    BY <1>1, LenProperties
  <2> QED
    BY <2>1, Cut
<1>3. Queue(WriteAll(After(Head(p), k)) \o Tail(p), g, t)
  BY <1>1 DEF Queue
<1> HIDE DEF f, g
<1>4. d \o f \in Seq(Char) /\ g \o t \in Seq(Char)
  BY <1>1, <1>2, Joined
<1>5. (d \o f) \o (g \o t) = d \o ((f \o g) \o t)
  <2>1. Cat(Cat(d, f), Cat(g, t)) = Cat(d, Cat(Cat(f, g), t))
    BY <1>1, <1>2, CatFour
  <2> QED
    BY ONLY <2>1 DEF Cat
<1>6. (d \o f) \o (g \o t) = d \o (x \o y)
  BY ONLY <1>1, <1>2, <1>5
<1>7. d \o Before(Head(p), k) = d \o f
  BY <1>1 DEF f
<1> QED
  BY <1>1, <1>2, <1>3, <1>4, <1>6, <1>7 DEF Completes

-----------------------------------------------------------------------------
(* Beginnings of a text. *)

LEMMA Begins ==
    ASSUME NEW s \in Seq(Char), NEW t \in Seq(Char)
    PROVE  IsPrefix(s, s \o t)
<1>1. /\ s \o t \in Seq(Char) /\ Len(s) \in Nat /\ Len(t) \in Nat
      /\ Len(s \o t) = Len(s) + Len(t)
  BY ConcatProperties, LenProperties
<1>2. CASE s = <<>>
  <2>1. Len(s) = 0 /\ SubSeq(s, 1, 0) = <<>> /\ SubSeq(s \o t, 1, 0) = <<>>
    BY <1>2, SubSeqEmpty
  <2> QED
    BY <1>1, <2>1 DEF IsPrefix
<1>3. CASE s # <<>>
  <2>1. Len(s) # 0 /\ 1 \in 1..Len(s) /\ Len(s) \in 1..Len(s)
    BY <1>1, <1>3, EmptySeq
  <2>2. SubSeq(s \o t, 1, Len(s)) = SubSeq(s, 1, Len(s))
    BY <2>1, SubSeqOfConcat1
  <2> QED
    BY <1>1, <2>2 DEF IsPrefix
<1> QED
  BY <1>2, <1>3

LEMMA BeginsToo ==
    ASSUME NEW s \in Seq(Char), NEW t \in Seq(Char), NEW u \in Seq(Char)
    PROVE  IsPrefix(s, (s \o t) \o u)
<1>1. t \o u \in Seq(Char)
  BY ConcatProperties
<1>2. (s \o t) \o u = s \o (t \o u)
  BY ConcatAssociative
<1> QED
  BY <1>1, <1>2, Begins
-----------------------------------------------------------------------------
(* How the text grows. *)

LEMMA Sizes ==
    /\ ABufSize \in Nat \ {0} /\ BufSize \in Nat \ {0} /\ LineLen \in Nat \ {0}
    /\ isarmor \in BOOLEAN => Capacity \in Nat \ {0}
<1>1. LineLen \in Nat \ {0} /\ ABufLines \in Nat \ {0} /\ BufSize \in Nat \ {0}
  BY Lengths
<1>2. ABufLines * LineLen \in Nat \ {0}
  <2>1. \A x, y \in Nat \ {0} : x * y \in Nat \ {0}
    OBVIOUS
  <2> QED
    BY <1>1, <2>1
<1>3. ABufSize \in Nat \ {0}
  BY <1>2 DEF ABufSize
<1> QED
  BY <1>1, <1>3 DEF Capacity

LEMMA RunEmpty == ASSUME NEW u \in Nat PROVE Run(u, u) = <<>>
<1>1. u - u = 0
  OBVIOUS
<1> QED
  BY <1>1 DEF Run

LEMMA EncodeNone == Encode(<<>>) = <<>>
<1>1. Len(<<>>) = 0 /\ <<>> \in Seq(Char)
  OBVIOUS
<1>2. 0 \in Nat /\ 0 < LineLen /\ 0 = 0 * LineLen + 0 /\ 0 * W = 0
  BY Lengths
<1>3. TextLen(0) = 0
  BY <1>2, TextLenIs
<1>4. Encode(<<>>) \in Seq(Char) /\ Len(Encode(<<>>)) = 0
  <2> DEFINE n == <<>>
  <2>1. n \in Seq(Char) /\ Len(n) = 0
    BY <1>1
  <2> HIDE DEF n
  <2>2. Encode(n) \in Seq(Char) /\ Len(Encode(n)) = TextLen(Len(n))
    BY <2>1, EncodeIs
  <2> QED
    BY <1>3, <2>1, <2>2 DEF n
<1> QED
  BY <1>4, EmptySeq

LEMMA SentNone == Sent(0) = BeginLine /\ Bytes(0) = <<>>
<1>1. Bytes(0) = <<>>
  BY DEF Bytes
<1>2. BeginLine \o <<>> = BeginLine
  BY Lines, ConcatEmptySeq
<1> QED
  BY <1>1, <1>2, EncodeNone DEF Sent

\* The next bytes, after full lines: the text of all of them.
LEMMA Grows ==
    ASSUME NEW m \in Nat, NEW g \in Nat, m <= g
    PROVE  /\ Run(m, g) \in Seq(Char) /\ Encode(Run(m, g)) \in Seq(Char)
           /\ Bytes(m) \o Run(m, g) = Bytes(g)
           /\ (\E q \in Nat : m = q * LineLen) => Sent(m) \o Encode(Run(m, g)) = Sent(g)
<1> DEFINE r == Run(m, g)
           s == Bytes(m)
<1>1. r \in Seq(Char) /\ s \in Seq(Char) /\ Len(s) = m
  BY RunIs, BytesIs
<1>2. s \o r = Bytes(g)
  <2>1. Run(0, m) \o Run(m, g) = Run(0, g)
    <3> DEFINE z == 0
    <3>1. z \in Nat /\ z <= m
      OBVIOUS
    <3> HIDE DEF z
    <3>2. Run(z, m) \o Run(m, g) = Run(z, g)
      BY <3>1, RunJoin
    <3> QED
      BY <3>2 DEF z
  <2> QED
    BY <2>1, BytesAreRun
<1> HIDE DEF r, s
<1>3. Encode(r) \in Seq(Char) /\ Encode(s) \in Seq(Char)
  BY <1>1, EncodeIs
<1>4. ASSUME NEW q \in Nat, m = q * LineLen PROVE Sent(m) \o Encode(r) = Sent(g)
  <2>1. Encode(s) \o Encode(r) = Encode(s \o r)
    BY <1>1, <1>4, EncodeConcat
  <2> DEFINE e == Encode(s)
             f == Encode(r)
  <2>2. e \in Seq(Char) /\ f \in Seq(Char) /\ BeginLine \in Seq(Char)
    BY <1>3, Lines
  <2> HIDE DEF e, f
  <2>3. (BeginLine \o e) \o f = BeginLine \o (e \o f)
    BY <2>2, Regroup
  <2> QED
    BY <1>2, <2>1, <2>3 DEF Sent, e, f, s
<1> QED
  BY <1>1, <1>2, <1>3, <1>4 DEF r, s

-----------------------------------------------------------------------------
(* The invariant: the bytes given are those whose text has gone to the     *)
(* descriptor or is on its way there, those in the buffer and those bwrite *)
(* has still to take; armor is flushed at the end of a line.               *)

Phases == {"first", "body", "last", "return", "stop", "gone"}
\* What the descriptor will have when the writes under way are done.
Way == fd \o FlattenSeq(pend)

ObufTypes ==
    /\ isarmor \in BOOLEAN /\ fd \in Seq(Char)
    /\ wr \in [phase : Phases, given : Nat, calls : 0..MaxPieces, outcome : {"none", "ok", "failed"}]
    /\ \E x, y \in Seq(Char) : Queue(pend, x, y)

WayIs(m) ==
    /\ ~isarmor => Way = Bytes(m)
    /\ isarmor /\ wr.phase = "first" => Way = <<>>
    /\ isarmor /\ wr.phase = "body" => Way = Sent(m) /\ \E q \in Nat : m = q * LineLen
    /\ isarmor /\ wr.phase = "last" => Way = Sent(m)
    /\ isarmor /\ wr.phase = "return" => Way = Armored(m)

\* m bytes have gone to writeall, p to the buffer.
Split(m, p) ==
    /\ m <= p /\ p <= wr.given /\ p - m < Capacity
    /\ obuf = Run(m, p) /\ left = Run(p, wr.given)
    /\ WayIs(m)
    /\ wr.phase # "body" => m = wr.given

Busy ==
    /\ wr.phase # "stop"
    /\ wr.phase = "first" => wr.given = 0
    /\ wr.phase = "gone" => ~isarmor
    /\ ~isarmor /\ left # <<>> => pend = <<>>
    /\ \E m, p \in Nat : Split(m, p)

Over ==
    /\ wr.phase \in {"stop", "gone"}
    /\ pend = <<>> /\ left = <<>> /\ Len(obuf) <= Capacity
    /\ IsPrefix(fd, Output(wr.given))
    /\ wr.outcome = "ok" => fd = Output(wr.given)

ObufInv ==
    /\ ObufTypes
    /\ wr.outcome = "none" => Busy
    /\ wr.outcome # "none" => Over
LEMMA WayTypes ==
    ASSUME ObufTypes
    PROVE  /\ FlattenSeq(pend) \in Seq(Char) /\ Way \in Seq(Char)
           /\ pend = <<>> => Way = fd
<1>1. PICK x, y \in Seq(Char) : Queue(pend, x, y)
  BY DEF ObufTypes
<1>2. FlattenSeq(pend) \in Seq(Char)
  <2>1. x \o y \in Seq(Char)
    BY Joined
  <2>2. FlattenSeq(pend) = x \o y
    BY <1>1, QueueIs
  <2> QED
    BY <2>1, <2>2
<1>3. fd \in Seq(Char)
  BY DEF ObufTypes
<1>4. Way \in Seq(Char)
  BY <1>2, <1>3, Joined DEF Way
<1>5. fd \o <<>> = fd
  BY <1>3, ConcatEmptySeq
<1> QED
  BY <1>2, <1>4, <1>5, FlatNone DEF Way

\* What has been written so far is continued by the rest of the text.
LEMMA Continues ==
    ASSUME ObufTypes, Busy
    PROVE  \E u \in Seq(Char) : Way \o u = Output(wr.given)
<1> DEFINE g == wr.given
<1>1. PICK m, p \in Nat : Split(m, p)
  BY DEF Busy
<1>2. g \in Nat /\ m <= g /\ wr.phase \in Phases /\ isarmor \in BOOLEAN
  BY <1>1 DEF Split, ObufTypes
<1>3. WayIs(m) /\ (wr.phase # "body" => m = g)
  BY <1>1 DEF Split
<1> HIDE DEF g
<1>4. /\ Run(m, g) \in Seq(Char) /\ Encode(Run(m, g)) \in Seq(Char)
      /\ Bytes(m) \o Run(m, g) = Bytes(g)
      /\ (\E q \in Nat : m = q * LineLen) => Sent(m) \o Encode(Run(m, g)) = Sent(g)
  BY <1>2, Grows
<1>5. Sent(m) \in Seq(Char) /\ Sent(g) \in Seq(Char) /\ Armored(g) = Sent(g) \o EndLine /\ Armored(g) \in Seq(Char)
  BY <1>2, SentIs
<1>6. EndLine \in Seq(Char) /\ <<>> \in Seq(Char)
  BY Lines
<1>7. CASE ~isarmor
  <2>1. Way \o Run(m, g) = Output(g)
    BY <1>3, <1>4, <1>7 DEF WayIs, Output
  <2> QED
    BY <1>4, <2>1 DEF g
<1>8. CASE isarmor /\ wr.phase = "first"
  <2>1. <<>> \o Armored(g) = Armored(g)
    BY <1>5, ConcatEmptySeq
  <2>2. Way \o Armored(g) = Output(g)
    BY <1>3, <1>8, <2>1 DEF WayIs, Output
  <2> QED
    BY <1>5, <2>2 DEF g
<1>9. CASE isarmor /\ wr.phase = "body"
  <2> DEFINE e == Encode(Run(m, g))
             s == Sent(m)
  <2>1. Way = s /\ s \o e = Sent(g)
    BY <1>3, <1>4, <1>9 DEF WayIs
  <2>2. e \in Seq(Char) /\ s \in Seq(Char)
    BY <1>4, <1>5
  <2> HIDE DEF e, s
  <2>3. (s \o e) \o EndLine = s \o (e \o EndLine) /\ e \o EndLine \in Seq(Char)
    <3> HIDE DEF EndLine
    <3>1. (s \o e) \o EndLine = s \o (e \o EndLine)
      BY <1>6, <2>2, Regroup
    <3>2. e \o EndLine \in Seq(Char)
      BY <1>6, <2>2, Joined
    <3> QED
      BY <3>1, <3>2
  <2>4. Way \o (e \o EndLine) = Output(g)
    BY <1>5, <1>9, <2>1, <2>3 DEF Output
  <2> QED
    BY <2>3, <2>4 DEF g
<1>10. CASE isarmor /\ wr.phase = "last"
  <2>1. Way \o EndLine = Output(g)
    BY <1>3, <1>5, <1>10 DEF WayIs, Output
  <2> QED
    BY <1>6, <2>1 DEF g
<1>11. CASE isarmor /\ wr.phase = "return"
  <2>1. Armored(g) \o <<>> = Armored(g)
    BY <1>5, ConcatEmptySeq
  <2>2. Way \o <<>> = Output(g)
    BY <1>3, <1>11, <2>1 DEF WayIs, Output
  <2> QED
    BY <1>6, <2>2 DEF g
<1> QED
  BY <1>2, <1>7, <1>8, <1>9, <1>10, <1>11 DEF Busy, Phases

LEMMA WrittenPrefix ==
    ASSUME ObufTypes, Busy
    PROVE  IsPrefix(fd, Output(wr.given))
<1>1. PICK u \in Seq(Char) : Way \o u = Output(wr.given)
  BY Continues
<1>2. fd \in Seq(Char) /\ FlattenSeq(pend) \in Seq(Char)
  BY WayTypes DEF ObufTypes
<1>3. IsPrefix(fd, (fd \o FlattenSeq(pend)) \o u)
  <2> DEFINE f == FlattenSeq(pend)
  <2>1. f \in Seq(Char)
    BY <1>2
  <2> HIDE DEF f
  <2>2. IsPrefix(fd, (fd \o f) \o u)
    BY <1>2, <2>1, BeginsToo
  <2> QED
    BY <2>2 DEF f
<1> QED
  BY <1>1, <1>3 DEF Way

LEMMA PhaseNone == ASSUME ObufInv, wr.phase \notin {"stop", "gone"} PROVE wr.outcome = "none" /\ Busy
  BY DEF ObufInv, Over

LEMMA ObufStart == ASSUME ObufInit PROVE ObufInv
<1>1. /\ wr.phase = "first" /\ wr.given = 0 /\ wr.outcome = "none"
      /\ wr \in [phase : Phases, given : Nat, calls : 0..MaxPieces, outcome : {"none", "ok", "failed"}]
      /\ isarmor \in BOOLEAN /\ obuf = <<>> /\ left = <<>> /\ pend = <<>> /\ fd = <<>>
  BY PieceAssumption DEF ObufInit, Phases
<1>2. <<>> \in Seq(Char) /\ Queue(pend, <<>>, <<>>)
  BY <1>1 DEF Queue, WriteAll
<1>3. ObufTypes
  BY <1>1, <1>2 DEF ObufTypes
<1>4. Way = <<>>
  BY <1>1, <1>3, WayTypes
<1>5. WayIs(0)
  BY <1>1, <1>4, SentNone DEF WayIs
<1>6. Split(0, 0)
  <2>1. Run(0, 0) = <<>>
    BY RunEmpty
  <2>2. Capacity \in Nat \ {0}
    BY <1>1, Sizes
  <2> QED
    BY <1>1, <1>5, <2>1, <2>2 DEF Split
<1> QED
  BY <1>1, <1>3, <1>6 DEF ObufInv, Busy
-----------------------------------------------------------------------------
(* One lemma per action. *)

\* The new queue, and what it adds to the descriptor.
LEMMA NewQueue ==
    ASSUME fd' \in Seq(Char), NEW x \in Seq(Char), NEW y \in Seq(Char), pend' = WriteAll(x) \o WriteAll(y)
    PROVE  /\ \E u, v \in Seq(Char) : Queue(pend', u, v)
           /\ Way' = fd' \o (x \o y)
<1> DEFINE p == pend'
<1>1. Queue(p, x, y)
  BY DEF Queue
<1> HIDE DEF p
<1>2. FlattenSeq(p) = x \o y
  BY <1>1, QueueIs
<1>3. \E u, v \in Seq(Char) : Queue(p, u, v)
  BY <1>1
<1> QED
  BY <1>2, <1>3 DEF Way, p

LEMMA OneWrite ==
    ASSUME fd' \in Seq(Char), NEW x \in Seq(Char), pend' = WriteAll(x)
    PROVE  /\ \E u, v \in Seq(Char) : Queue(pend', u, v)
           /\ Way' = fd' \o x
<1> DEFINE n == <<>>
<1>1. WriteAll(x) \in {<<>>, <<x>>} /\ WriteAll(n) = <<>>
  BY DEF WriteAll
<1>2. WriteAll(x) \o <<>> = WriteAll(x)
  <2>1. CASE WriteAll(x) = <<>>
    BY <2>1
  <2>2. CASE WriteAll(x) = <<x>>
    <3>1. <<x>> \in Seq({x})
      OBVIOUS
    <3> QED
      BY <2>2, <3>1, ConcatEmptySeq
  <2> QED
    BY <1>1, <2>1, <2>2
<1>3. n \in Seq(Char) /\ x \o n = x
  BY ConcatEmptySeq
<1>4. pend' = WriteAll(x) \o WriteAll(n)
  BY <1>1, <1>2
<1> HIDE DEF n
<1>5. (\E u, v \in Seq(Char) : Queue(pend', u, v)) /\ Way' = fd' \o (x \o n)
  BY <1>3, <1>4, NewQueue
<1> QED
  BY <1>3, <1>5

LEMMA NoWrite ==
    ASSUME fd' \in Seq(Char), pend' = <<>>
    PROVE  /\ \E u, v \in Seq(Char) : Queue(pend', u, v)
           /\ Way' = fd'
<1> DEFINE n == <<>>
<1>1. n \in Seq(Char) /\ WriteAll(n) = <<>> /\ fd' \o n = fd'
  BY ConcatEmptySeq DEF WriteAll
<1>2. pend' = WriteAll(n)
  BY <1>1
<1> HIDE DEF n
<1>3. (\E u, v \in Seq(Char) : Queue(pend', u, v)) /\ Way' = fd' \o n
  BY <1>1, <1>2, OneWrite
<1> QED
  BY <1>1, <1>3

LEMMA ArmorFirstKeeps == ASSUME ObufInv, ArmorFirst PROVE ObufInv'
<1>1. /\ wr.phase = "first" /\ left = <<>> /\ pend = <<>>
      /\ pend' = IF isarmor THEN <<BeginLine>> ELSE <<>>
      /\ wr' = [wr EXCEPT !.phase = "body"]
      /\ isarmor' = isarmor /\ obuf' = obuf /\ left' = left /\ fd' = fd
  BY DEF ArmorFirst, WriterAt, Returned, WriterGoto
<1>2. ObufTypes /\ wr.outcome = "none" /\ Busy
  BY <1>1, PhaseNone DEF ObufInv
<1>3. /\ isarmor \in BOOLEAN /\ fd \in Seq(Char)
      /\ wr \in [phase : Phases, given : Nat, calls : 0..MaxPieces, outcome : {"none", "ok", "failed"}]
  BY <1>2 DEF ObufTypes
<1>4. /\ wr' \in [phase : Phases, given : Nat, calls : 0..MaxPieces, outcome : {"none", "ok", "failed"}]
      /\ wr'.phase = "body" /\ wr'.given = wr.given /\ wr'.outcome = "none"
  BY <1>1, <1>2, <1>3 DEF Phases
<1>5. PICK m, p \in Nat : Split(m, p)
  BY <1>2 DEF Busy
<1>6. m = 0 /\ p = 0 /\ wr.given = 0
  BY <1>1, <1>2, <1>5 DEF Busy, Split
<1>7. Way = fd
  BY <1>1, <1>2, WayTypes
<1>8. /\ \E u, v \in Seq(Char) : Queue(pend', u, v)
      /\ isarmor => Way' = Sent(0)
      /\ ~isarmor => Way' = Bytes(0)
  <2>1. CASE isarmor
    <3>1. fd = <<>>
      BY <1>1, <1>5, <1>7, <2>1 DEF Split, WayIs
    <3>2. pend' = WriteAll(BeginLine) /\ BeginLine \in Seq(Char)
      <4>1. BeginLine # <<>>
        <5>1. Len(BeginLine) # 0
          BY Lines, Lengths
        <5> QED
          BY <5>1
      <4> QED
        BY <1>1, <2>1, <4>1, Lines DEF WriteAll
    <3>3. (\E u, v \in Seq(Char) : Queue(pend', u, v)) /\ Way' = fd' \o BeginLine
      BY <1>1, <1>3, <3>2, OneWrite
    <3>4. <<>> \o BeginLine = BeginLine
      BY <3>2, ConcatEmptySeq
    <3> QED
      BY <1>1, <2>1, <3>1, <3>3, <3>4, SentNone
  <2>2. CASE ~isarmor
    <3>1. (\E u, v \in Seq(Char) : Queue(pend', u, v)) /\ Way' = fd'
      BY <1>1, <1>3, <2>2, NoWrite
    <3>2. fd = Bytes(0)
      BY <1>5, <1>6, <1>7, <2>2 DEF Split, WayIs
    <3> QED
      BY <1>1, <2>2, <3>1, <3>2
  <2> QED
    BY <1>3, <2>1, <2>2
<1>9. WayIs(0)'
  <2>1. 0 = 0 * LineLen /\ 0 \in Nat
    BY Lengths
  <2> QED
    BY <1>1, <1>4, <1>8, <2>1 DEF WayIs
<1>10. Split(0, 0)'
  BY <1>1, <1>4, <1>5, <1>6, <1>9 DEF Split, Capacity
<1>11. ObufTypes'
  BY <1>1, <1>3, <1>4, <1>8 DEF ObufTypes
<1>12. Busy'
  BY <1>1, <1>4, <1>10 DEF Busy
<1> QED
  BY <1>4, <1>11, <1>12 DEF ObufInv

LEMMA GiveKeeps == ASSUME ObufInv, Give PROVE ObufInv'
<1>1. PICK n \in PieceLens :
        /\ left' = [i \in 1..n |-> <<"byte", wr.given + i>>]
        /\ wr' = [wr EXCEPT !.given = @ + n, !.calls = @ - 1]
  BY DEF Give
<1>2. /\ wr.phase = "body" /\ left = <<>> /\ pend = <<>> /\ wr.calls > 0
      /\ isarmor' = isarmor /\ obuf' = obuf /\ pend' = pend /\ fd' = fd
  BY DEF Give, WriterAt, Returned
<1>3. ObufTypes /\ wr.outcome = "none" /\ Busy
  BY <1>2, PhaseNone DEF ObufInv
<1>4. /\ isarmor \in BOOLEAN /\ fd \in Seq(Char) /\ n \in Nat
      /\ wr \in [phase : Phases, given : Nat, calls : 0..MaxPieces, outcome : {"none", "ok", "failed"}]
  BY <1>3, PieceAssumption DEF ObufTypes
<1> DEFINE g == wr.given
           h == g + n
<1>5. /\ wr' \in [phase : Phases, given : Nat, calls : 0..MaxPieces, outcome : {"none", "ok", "failed"}]
      /\ wr'.phase = "body" /\ wr'.given = h /\ wr'.outcome = "none"
  <2>1. wr.calls - 1 \in 0..MaxPieces /\ h \in Nat
    BY <1>2, <1>4, PieceAssumption
  <2> HIDE DEF h
  <2> QED
    BY <1>1, <1>2, <1>3, <1>4, <2>1 DEF h
<1>6. PICK m, p \in Nat : Split(m, p)
  BY <1>3 DEF Busy
<1>7. g \in Nat /\ h \in Nat /\ g <= h /\ h - g = n
  BY <1>4
<1>8. m <= p /\ p <= g /\ p - m < Capacity /\ obuf = Run(m, p) /\ left = Run(p, g) /\ WayIs(m)
  BY <1>6 DEF Split
<1>9. p = g
  <2>1. Len(Run(p, g)) = g - p
    BY <1>7, <1>8, RunIs
  <2>2. Len(<<>>) = 0
    OBVIOUS
  <2>3. g - p = 0
    BY <1>2, <1>8, <2>1, <2>2
  <2> QED
    BY <1>7, <1>8, <2>3
<1>10. left' = Run(p, h)
  <2>1. left' = [i \in 1..n |-> <<"byte", g + i>>]
    BY <1>1
  <2>2. Run(g, h) = [i \in 1..n |-> <<"byte", g + i>>]
    <3> HIDE DEF g, h
    <3> QED
      BY <1>7 DEF Run
  <2> HIDE DEF g, h
  <2> QED
    BY <1>9, <2>1, <2>2
<1>11. Way' = Way /\ WayIs(m)'
  <2>1. Way' = Way
    BY <1>2 DEF Way
  <2> QED
    BY <1>2, <1>5, <1>8, <2>1 DEF WayIs
<1>12. Split(m, p)'
  <2>1. p <= wr'.given /\ left' = Run(p, wr'.given)
    BY <1>5, <1>7, <1>9, <1>10
  <2> QED
    BY <1>2, <1>5, <1>8, <1>11, <2>1 DEF Split, Capacity
<1>13. ObufTypes'
  BY <1>2, <1>3, <1>4, <1>5 DEF ObufTypes
<1>14. Busy'
  BY <1>2, <1>5, <1>12 DEF Busy
<1> QED
  BY <1>5, <1>13, <1>14 DEF ObufInv

\* The call is over: with an error, whatever was written is a beginning.
LEMMA FailKeeps ==
    ASSUME ObufInv, Busy, wr.outcome = "none", WriterStop("failed"), left' = <<>>, pend' = <<>>,
           UNCHANGED <<isarmor, obuf, fd>>
    PROVE  ObufInv'
<1>1. ObufTypes
  BY DEF ObufInv
<1>2. /\ isarmor \in BOOLEAN /\ fd \in Seq(Char)
      /\ wr \in [phase : Phases, given : Nat, calls : 0..MaxPieces, outcome : {"none", "ok", "failed"}]
  BY <1>1 DEF ObufTypes
<1>3. /\ wr' \in [phase : Phases, given : Nat, calls : 0..MaxPieces, outcome : {"none", "ok", "failed"}]
      /\ wr'.phase = "stop" /\ wr'.given = wr.given /\ wr'.outcome = "failed"
  BY <1>2 DEF Phases, WriterStop
<1>4. IsPrefix(fd', Output(wr.given)')
  <2>1. IsPrefix(fd, Output(wr.given))
    BY <1>1, WrittenPrefix
  <2>2. Output(wr.given)' = Output(wr.given)
    BY <1>3 DEF Output
  <2> QED
    BY <2>1, <2>2
<1>5. Len(obuf') <= Capacity'
  <2>1. PICK m, p \in Nat : Split(m, p)
    BY DEF Busy
  <2>2. m <= p /\ p - m < Capacity /\ obuf = Run(m, p)
    BY <2>1 DEF Split
  <2>3. Len(obuf) = p - m /\ Capacity \in Nat
    BY <1>2, <2>2, RunIs, Sizes
  <2>4. Capacity' = Capacity /\ obuf' = obuf
    BY DEF Capacity
  <2> QED
    BY <2>2, <2>3, <2>4
<1>6. \E u, v \in Seq(Char) : Queue(pend', u, v)
  BY <1>2, NoWrite
<1>7. ObufTypes'
  BY <1>2, <1>3, <1>6 DEF ObufTypes
<1>8. Over'
  BY <1>3, <1>4, <1>5 DEF Over
<1> QED
  BY <1>3, <1>7, <1>8 DEF ObufInv

LEMMA AbandonKeeps == ASSUME ObufInv, Abandon PROVE ObufInv'
<1>1. wr.phase = "body" /\ left' = <<>> /\ pend' = <<>> /\ WriterStop("failed") /\ UNCHANGED <<isarmor, obuf, fd>>
  BY DEF Abandon, WriterAt, Returned
<1>2. wr.outcome = "none" /\ Busy
  BY <1>1, PhaseNone
<1> QED
  BY <1>1, <1>2, FailKeeps

LEMMA WriteFailsKeeps == ASSUME ObufInv, WriteFails PROVE ObufInv'
<1>1. pend # <<>> /\ left' = <<>> /\ pend' = <<>> /\ WriterStop("failed") /\ UNCHANGED <<isarmor, obuf, fd>>
  BY DEF WriteFails
<1>2. wr.outcome = "none" /\ Busy
  BY <1>1 DEF ObufInv, Over
<1> QED
  BY <1>1, <1>2, FailKeeps
\* Everything given has been handed to writeall: no bytes are left elsewhere.
LEMMA AllSent ==
    ASSUME NEW m \in Nat, NEW p \in Nat, Split(m, p), ObufTypes, m = wr.given
    PROVE  p = m /\ obuf = <<>> /\ left = <<>>
<1>1. wr.given \in Nat /\ m <= p /\ p <= wr.given /\ obuf = Run(m, p) /\ left = Run(p, wr.given)
  BY DEF Split, ObufTypes
<1>2. p = m
  BY <1>1
<1> QED
  BY <1>1, <1>2, RunEmpty

\* What the descriptor will have, when the buffer goes to it.
LEMMA SendsOn ==
    ASSUME NEW m \in Nat, NEW g \in Nat, m <= g, WayIs(m), isarmor, wr.phase = "body"
    PROVE  Way \o Encode(Run(m, g)) = Sent(g)
<1>1. Way = Sent(m) /\ \E q \in Nat : m = q * LineLen
  BY DEF WayIs
<1>2. Sent(m) \o Encode(Run(m, g)) = Sent(g)
  BY <1>1, Grows
<1> QED
  BY <1>1, <1>2

LEMMA FlushKeeps == ASSUME ObufInv, Flush PROVE ObufInv'
<1>1. /\ wr.phase = "body" /\ left = <<>> /\ pend = <<>>
      /\ pend' = WriteAll(IF isarmor THEN Encode(obuf) ELSE obuf)
      /\ obuf' = <<>> /\ wr' = [wr EXCEPT !.phase = "last"]
      /\ isarmor' = isarmor /\ left' = left /\ fd' = fd
  BY DEF Flush, WriterAt, Returned, WriterGoto
<1>2. ObufTypes /\ wr.outcome = "none" /\ Busy
  BY <1>1, PhaseNone DEF ObufInv
<1> DEFINE g == wr.given
<1>3. /\ isarmor \in BOOLEAN /\ fd \in Seq(Char) /\ g \in Nat
      /\ wr \in [phase : Phases, given : Nat, calls : 0..MaxPieces, outcome : {"none", "ok", "failed"}]
  BY <1>2 DEF ObufTypes
<1>4. /\ wr' \in [phase : Phases, given : Nat, calls : 0..MaxPieces, outcome : {"none", "ok", "failed"}]
      /\ wr'.phase = "last" /\ wr'.given = g /\ wr'.outcome = "none"
  BY <1>1, <1>2, <1>3 DEF Phases
<1>5. PICK m, p \in Nat : Split(m, p)
  BY <1>2 DEF Busy
<1>6. m <= p /\ p <= g /\ obuf = Run(m, p) /\ left = Run(p, g) /\ WayIs(m)
  BY <1>5 DEF Split
<1>7. p = g /\ m <= g /\ Way = fd
  <2>1. Len(Run(p, g)) = g - p
    BY <1>3, <1>6, RunIs
  <2>2. Len(<<>>) = 0
    OBVIOUS
  <2>3. g - p = 0
    BY <1>1, <1>6, <2>1, <2>2
  <2> QED
    BY <1>1, <1>2, <1>3, <1>6, <2>3, WayTypes
<1> HIDE DEF g
<1>8. /\ Run(m, g) \in Seq(Char) /\ Encode(Run(m, g)) \in Seq(Char)
      /\ Bytes(m) \o Run(m, g) = Bytes(g)
  BY <1>3, <1>7, Grows
<1>9. /\ \E u, v \in Seq(Char) : Queue(pend', u, v)
      /\ isarmor => Way' = Sent(g)
      /\ ~isarmor => Way' = Bytes(g)
  <2>1. CASE isarmor
    <3>1. pend' = WriteAll(Encode(Run(m, g)))
      BY <1>1, <1>6, <1>7, <2>1
    <3>2. (\E u, v \in Seq(Char) : Queue(pend', u, v)) /\ Way' = fd' \o Encode(Run(m, g))
      BY <1>1, <1>3, <1>8, <3>1, OneWrite
    <3>3. Way \o Encode(Run(m, g)) = Sent(g)
      BY <1>1, <1>3, <1>6, <1>7, <2>1, SendsOn
    <3> QED
      BY <1>1, <1>7, <2>1, <3>2, <3>3
  <2>2. CASE ~isarmor
    <3>1. pend' = WriteAll(Run(m, g))
      BY <1>1, <1>6, <1>7, <2>2
    <3>2. (\E u, v \in Seq(Char) : Queue(pend', u, v)) /\ Way' = fd' \o Run(m, g)
      BY <1>1, <1>3, <1>8, <3>1, OneWrite
    <3>3. Way = Bytes(m)
      BY <1>6, <2>2 DEF WayIs
    <3> QED
      BY <1>1, <1>7, <1>8, <2>2, <3>2, <3>3
  <2> QED
    BY <1>3, <2>1, <2>2
<1>10. WayIs(g)'
  BY <1>1, <1>4, <1>9 DEF WayIs, g
<1>11. Split(g, g)'
  <2>1. Run(g, g) = <<>> /\ Capacity \in Nat \ {0} /\ Capacity' = Capacity /\ g - g = 0
    BY <1>1, <1>3, RunEmpty, Sizes DEF Capacity
  <2>2. g' = g
    BY <1>4 DEF g
  <2> QED
    BY <1>1, <1>3, <1>4, <1>10, <2>1, <2>2 DEF Split
<1>12. ObufTypes'
  BY <1>1, <1>3, <1>4, <1>9 DEF ObufTypes
<1>13. Busy'
  <2>1. \E i, j \in Nat : Split(i, j)'
    <3>1. PICK i \in Nat : i = g
      BY <1>3
    <3>2. i = g'
      BY <1>4, <3>1 DEF g
    <3>3. Split(i, i)'
      BY <1>11, <3>2
    <3> QED
      BY <3>3
  <2> QED
    BY <1>1, <1>4, <2>1 DEF Busy
<1> QED
  BY <1>4, <1>12, <1>13 DEF ObufInv

LEMMA ArmorLastKeeps == ASSUME ObufInv, ArmorLast PROVE ObufInv'
<1>1. /\ wr.phase = "last" /\ left = <<>> /\ pend = <<>>
      /\ pend' = IF isarmor THEN <<EndLine>> ELSE <<>>
      /\ wr' = [wr EXCEPT !.phase = "return"]
      /\ isarmor' = isarmor /\ obuf' = obuf /\ left' = left /\ fd' = fd
  BY DEF ArmorLast, WriterAt, Returned, WriterGoto
<1>2. ObufTypes /\ wr.outcome = "none" /\ Busy
  BY <1>1, PhaseNone DEF ObufInv
<1>3. /\ isarmor \in BOOLEAN /\ fd \in Seq(Char)
      /\ wr \in [phase : Phases, given : Nat, calls : 0..MaxPieces, outcome : {"none", "ok", "failed"}]
  BY <1>2 DEF ObufTypes
<1>4. /\ wr' \in [phase : Phases, given : Nat, calls : 0..MaxPieces, outcome : {"none", "ok", "failed"}]
      /\ wr'.phase = "return" /\ wr'.given = wr.given /\ wr'.outcome = "none"
  BY <1>1, <1>2, <1>3 DEF Phases
<1>5. PICK m, p \in Nat : Split(m, p)
  BY <1>2 DEF Busy
<1>6. Way = fd /\ WayIs(m)
  BY <1>1, <1>2, <1>5, WayTypes DEF Split
<1>7. /\ \E u, v \in Seq(Char) : Queue(pend', u, v)
      /\ isarmor => Way' = Armored(m)
      /\ ~isarmor => Way' = Bytes(m)
  <2>1. CASE isarmor
    <3>1. fd = Sent(m)
      BY <1>1, <1>6, <2>1 DEF WayIs
    <3>2. pend' = WriteAll(EndLine) /\ EndLine \in Seq(Char)
      <4>1. EndLine # <<>>
        <5>1. Len(EndLine) # 0
          BY Lines, Lengths
        <5> QED
          BY <5>1
      <4> QED
        BY <1>1, <2>1, <4>1, Lines DEF WriteAll
    <3>3. (\E u, v \in Seq(Char) : Queue(pend', u, v)) /\ Way' = fd' \o EndLine
      BY <1>1, <1>3, <3>2, OneWrite
    <3>4. Sent(m) \o EndLine = Armored(m)
      BY SentIs
    <3> QED
      BY <1>1, <2>1, <3>1, <3>3, <3>4
  <2>2. CASE ~isarmor
    <3>1. (\E u, v \in Seq(Char) : Queue(pend', u, v)) /\ Way' = fd'
      BY <1>1, <1>3, <2>2, NoWrite
    <3>2. fd = Bytes(m)
      BY <1>6, <2>2 DEF WayIs
    <3> QED
      BY <1>1, <2>2, <3>1, <3>2
  <2> QED
    BY <1>3, <2>1, <2>2
<1>8. Split(m, p)'
  <2>1. WayIs(m)'
    BY <1>1, <1>4, <1>7 DEF WayIs
  <2>2. m = wr'.given
    BY <1>1, <1>4, <1>5 DEF Split
  <2> QED
    BY <1>1, <1>4, <1>5, <2>1, <2>2 DEF Split, Capacity
<1>9. ObufTypes'
  BY <1>1, <1>3, <1>4, <1>7 DEF ObufTypes
<1>10. Busy'
  BY <1>1, <1>4, <1>8 DEF Busy
<1> QED
  BY <1>4, <1>9, <1>10 DEF ObufInv

LEMMA ReturnKeeps == ASSUME ObufInv, Return PROVE ObufInv'
<1>1. /\ wr.phase = "return" /\ left = <<>> /\ pend = <<>>
      /\ wr' = [wr EXCEPT !.phase = "stop", !.outcome = "ok"]
      /\ isarmor' = isarmor /\ obuf' = obuf /\ left' = left /\ pend' = pend /\ fd' = fd
  BY DEF Return, WriterAt, Returned, WriterStop
<1>2. ObufTypes /\ wr.outcome = "none" /\ Busy
  BY <1>1, PhaseNone DEF ObufInv
<1>3. /\ isarmor \in BOOLEAN /\ fd \in Seq(Char)
      /\ wr \in [phase : Phases, given : Nat, calls : 0..MaxPieces, outcome : {"none", "ok", "failed"}]
  BY <1>2 DEF ObufTypes
<1>4. /\ wr' \in [phase : Phases, given : Nat, calls : 0..MaxPieces, outcome : {"none", "ok", "failed"}]
      /\ wr'.phase = "stop" /\ wr'.given = wr.given /\ wr'.outcome = "ok"
  BY <1>1, <1>3 DEF Phases
<1>5. PICK m, p \in Nat : Split(m, p)
  BY <1>2 DEF Busy
<1>6. m = wr.given /\ WayIs(m) /\ Way = fd
  BY <1>1, <1>2, <1>5, WayTypes DEF Split
<1>7. fd = Output(wr.given)
  BY <1>1, <1>3, <1>6 DEF WayIs, Output
<1>8. fd' = Output(wr.given)' /\ IsPrefix(fd', Output(wr.given)')
  <2>1. Output(wr.given)' = Output(wr.given)
    BY <1>1, <1>4 DEF Output
  <2>2. IsPrefix(fd, Output(wr.given))
    BY <1>2, WrittenPrefix
  <2> QED
    BY <1>1, <1>7, <2>1, <2>2
<1>9. Len(obuf') <= Capacity'
  <2>1. obuf = <<>>
    BY <1>2, <1>5, <1>6, AllSent
  <2>2. Capacity' \in Nat \ {0} /\ Len(<<>>) = 0
    BY <1>1, <1>3, Sizes DEF Capacity
  <2> QED
    BY <1>1, <2>1, <2>2
<1>10. ObufTypes'
  BY <1>1, <1>2, <1>4 DEF ObufTypes
<1>11. Over'
  BY <1>1, <1>4, <1>8, <1>9 DEF Over
<1> QED
  BY <1>4, <1>10, <1>11 DEF ObufInv
LEMMA BwriteKeeps == ASSUME ObufInv, Bwrite PROVE ObufInv'
<1> DEFINE g == wr.given
           rest == BufSize - Len(obuf)
           c == Least(rest, Len(left))
           filled == obuf \o Before(left, c)
<1>1. /\ left # <<>> /\ ~isarmor
      /\ rest > Len(left) => obuf' = filled /\ pend' = <<>>
      /\ ~(rest > Len(left)) => obuf' = <<>> /\ pend' = WriteAll(filled) \o WriteAll(After(left, c))
      /\ left' = <<>> /\ isarmor' = isarmor /\ fd' = fd /\ wr' = wr
  BY DEF Bwrite
<1>2. ObufTypes /\ wr.outcome = "none" /\ Busy
  BY <1>1 DEF ObufInv, Over
<1>3. isarmor \in BOOLEAN /\ fd \in Seq(Char) /\ g \in Nat
  BY <1>2 DEF ObufTypes
<1>4. PICK m, p \in Nat : Split(m, p)
  BY <1>2 DEF Busy
<1>5. m <= p /\ p <= g /\ p - m < BufSize /\ obuf = Run(m, p) /\ left = Run(p, g) /\ WayIs(m)
  BY <1>1, <1>4 DEF Split, Capacity
<1>6. BufSize \in Nat \ {0}
  BY Sizes
<1>7. Len(obuf) = p - m /\ Len(left) = g - p
  BY <1>3, <1>5, RunIs
<1>8. Way = fd /\ fd = Bytes(m)
  <2>1. pend = <<>>
    BY <1>1, <1>2 DEF Busy
  <2> QED
    BY <1>1, <1>2, <1>5, <2>1, WayTypes DEF WayIs
<1>9. wr.phase = "body"
  <2>1. p # g
    BY <1>1, <1>3, <1>5, RunEmpty
  <2> QED
    BY <1>3, <1>4, <1>5, <2>1 DEF Split
<1> DEFINE e == p + c
<1>10. /\ c \in 0..(g - p) /\ e \in Nat /\ p <= e /\ e <= g /\ m <= e
       /\ rest > Len(left) => e = g /\ g - m < BufSize
  <2> HIDE DEF g
  <2> QED
    BY <1>3, <1>5, <1>6, <1>7 DEF Least
<1> HIDE DEF g, c
<1>11. filled = Run(m, e) /\ After(left, c) = Run(e, g)
  <2>1. Before(left, c) = Run(p, e) /\ After(left, c) = Run(e, g)
    BY <1>3, <1>5, <1>10, RunCut
  <2>2. Run(m, p) \o Run(p, e) = Run(m, e)
    <3> HIDE DEF e
    <3> QED
      BY <1>5, <1>10, RunJoin
  <2> QED
    BY <1>5, <2>1, <2>2
<1> HIDE DEF e, filled, rest
<1>12. Capacity' = BufSize /\ g' = g /\ Run(g, g) = <<>> /\ g - g = 0
  BY <1>1, <1>3, RunEmpty DEF Capacity, g
<1>13. CASE rest > Len(left)
  <2>1. (\E u, v \in Seq(Char) : Queue(pend', u, v)) /\ Way' = fd'
    BY <1>1, <1>3, <1>13, NoWrite
  <2>2. WayIs(m)'
    BY <1>1, <1>8, <2>1 DEF WayIs
  <2>3. obuf' = Run(m, g) /\ left' = Run(g, g)
    BY <1>1, <1>10, <1>11, <1>12, <1>13
  <2>4. Split(m, wr.given)'
    BY <1>1, <1>3, <1>5, <1>9, <1>10, <1>12, <1>13, <2>2, <2>3 DEF Split, g
  <2>5. ObufTypes'
    BY <1>1, <1>2, <2>1 DEF ObufTypes
  <2>6. Busy'
    <3>1. wr.given' \in Nat
      BY <1>1, <1>3 DEF g
    <3>2. \E i, j \in Nat : Split(i, j)'
      BY <2>4, <3>1
    <3> QED
      BY <1>1, <1>2, <3>2 DEF Busy
  <2> QED
    BY <1>1, <1>2, <2>5, <2>6 DEF ObufInv
<1>14. CASE ~(rest > Len(left))
  <2>1. Run(m, e) \in Seq(Char) /\ Run(e, g) \in Seq(Char)
    BY <1>3, <1>10, RunIs
  <2>2. (\E u, v \in Seq(Char) : Queue(pend', u, v)) /\ Way' = fd' \o (Run(m, e) \o Run(e, g))
    BY <1>1, <1>3, <1>11, <1>14, <2>1, NewQueue
  <2>3. Run(m, e) \o Run(e, g) = Run(m, g)
    BY <1>3, <1>10, RunJoin
  <2>4. Bytes(m) \o Run(m, g) = Bytes(g)
    <3>1. m <= g
      BY <1>3, <1>10
    <3> QED
      BY <1>3, <3>1, Grows
  <2>5. Way' = Bytes(g)
    BY <1>1, <1>8, <2>2, <2>3, <2>4
  <2>6. WayIs(g)'
    BY <1>1, <1>12, <2>5 DEF WayIs
  <2>7. Split(wr.given, wr.given)'
    BY <1>1, <1>3, <1>6, <1>12, <1>14, <2>6 DEF Split, g
  <2>8. ObufTypes'
    BY <1>1, <1>2, <2>2 DEF ObufTypes
  <2>9. Busy'
    <3>1. wr.given' \in Nat
      BY <1>1, <1>3 DEF g
    <3>2. \E i, j \in Nat : Split(i, j)'
      BY <2>7, <3>1
    <3> QED
      BY <1>1, <1>2, <3>2 DEF Busy
  <2> QED
    BY <1>1, <1>2, <2>8, <2>9 DEF ObufInv
<1> QED
  BY <1>13, <1>14

LEMMA AwriteKeeps == ASSUME ObufInv, Awrite PROVE ObufInv'
<1> DEFINE g == wr.given
           c == Least(ABufSize - Len(obuf), Len(left))
           filled == obuf \o Before(left, c)
           full == Len(filled) = ABufSize
<1>1. /\ left # <<>> /\ isarmor /\ pend = <<>>
      /\ left' = After(left, c)
      /\ obuf' = IF full THEN <<>> ELSE filled
      /\ pend' = IF full THEN <<Encode(filled)>> ELSE <<>>
      /\ isarmor' = isarmor /\ fd' = fd /\ wr' = wr
  BY DEF Awrite
<1>2. ObufTypes /\ wr.outcome = "none" /\ Busy
  BY <1>1 DEF ObufInv, Over
<1>3. isarmor \in BOOLEAN /\ fd \in Seq(Char) /\ g \in Nat
  BY <1>2 DEF ObufTypes
<1>4. PICK m, p \in Nat : Split(m, p)
  BY <1>2 DEF Busy
<1>5. m <= p /\ p <= g /\ p - m < ABufSize /\ obuf = Run(m, p) /\ left = Run(p, g) /\ WayIs(m)
  BY <1>1, <1>4 DEF Split, Capacity
<1>6. ABufSize \in Nat \ {0}
  BY Sizes
<1>7. Len(obuf) = p - m /\ Len(left) = g - p
  BY <1>3, <1>5, RunIs
<1>8. wr.phase = "body" /\ p # g
  <2>1. p # g
    BY <1>1, <1>3, <1>5, RunEmpty
  <2> QED
    BY <1>3, <1>4, <1>5, <2>1 DEF Split
<1>9. Way = fd
  BY <1>1, <1>2, WayTypes
<1>9a. /\ c \in 0..(g - p) /\ p + c \in Nat /\ p <= p + c /\ p + c <= g /\ m <= p + c
       /\ (p + c) - m <= ABufSize
  <2> HIDE DEF g
  <2> QED
    BY <1>3, <1>5, <1>6, <1>7 DEF Least
<1> HIDE DEF g, c
<1>9b. PICK e \in Nat : e = p + c
  BY <1>9a
<1>10. c \in 0..(g - p) /\ p <= e /\ e <= g /\ m <= e /\ e - m <= ABufSize
  BY <1>9a, <1>9b
<1>11. filled = Run(m, e) /\ After(left, c) = Run(e, g)
  <2>1. Before(left, c) = Run(p, e) /\ After(left, c) = Run(e, g)
    BY <1>3, <1>5, <1>10, <1>9b, RunCut
  <2>2. Run(m, p) \o Run(p, e) = Run(m, e)
    BY <1>5, <1>10, RunJoin
  <2> QED
    BY <1>5, <2>1, <2>2
<1> HIDE DEF filled
<1>12. filled \in Seq(Char) /\ Len(filled) = e - m
  BY <1>10, <1>11, RunIs
<1>13. Capacity' = ABufSize /\ g' = g /\ Run(e, e) = <<>> /\ e - e = 0
  BY <1>1, <1>10, RunEmpty DEF Capacity, g
<1> HIDE DEF full
<1>14. full <=> e - m = ABufSize
  BY <1>12 DEF full
<1>15. CASE full
  <2>1. Encode(filled) \in Seq(Char) /\ Encode(filled) # <<>>
    <3>1. Encode(filled) \in Seq(Char) /\ Len(Encode(filled)) = TextLen(Len(filled)) /\ TextLen(Len(filled)) \in Nat
      BY <1>12, EncodeIs
    <3>2. TextLen(Len(filled)) # 0
      <4> DEFINE k == Len(filled)
      <4>1. k \in Nat \ {0}
        BY <1>6, <1>12, <1>14, <1>15
      <4>2. LineLen \in Nat \ {0} /\ k + LineLen - 1 \in Nat
        BY <4>1, Sizes
      <4>3. (k + LineLen - 1) \div LineLen \in Nat
        BY <4>2, Quotient
      <4> HIDE DEF k
      <4>4. TextLen(k) # 0
        <5> DEFINE d == (k + LineLen - 1) \div LineLen
        <5>1. TextLen(k) = k + d /\ d \in Nat
          BY <4>3 DEF TextLen
        <5> HIDE DEF d
        <5> QED
          BY <4>1, <5>1
      <4> QED
        BY <4>4 DEF k
    <3>3. Len(<<>>) = 0
      OBVIOUS
    <3> QED
      BY <3>1, <3>2, <3>3
  <2>2. pend' = WriteAll(Encode(filled))
    BY <1>1, <1>15, <2>1 DEF WriteAll
  <2>3. (\E u, v \in Seq(Char) : Queue(pend', u, v)) /\ Way' = fd' \o Encode(filled)
    BY <1>1, <1>3, <2>1, <2>2, OneWrite
  <2>4. Way \o Encode(Run(m, e)) = Sent(e)
    BY <1>1, <1>5, <1>8, <1>10, SendsOn
  <2>5. Way' = Sent(e)
    BY <1>1, <1>9, <1>11, <2>3, <2>4
  <2>6. \E q \in Nat : e = q * LineLen
    <3>1. PICK q \in Nat : m = q * LineLen
      BY <1>1, <1>5, <1>8 DEF WayIs
    <3>2. e = m + ABufSize
      BY <1>10, <1>14, <1>15, <1>6
    <3>3. ABufLines \in Nat /\ LineLen \in Nat
      BY Lengths
    <3>4. e = (q + ABufLines) * LineLen /\ q + ABufLines \in Nat
      BY <3>1, <3>2, <3>3 DEF ABufSize
    <3> QED
      BY <3>4
  <2>7. WayIs(e)'
    BY <1>1, <1>8, <2>5, <2>6 DEF WayIs
  <2>8. Split(e, e)'
    BY <1>1, <1>6, <1>8, <1>10, <1>11, <1>13, <1>15, <2>7 DEF Split, g
  <2>9. ObufTypes'
    BY <1>1, <1>2, <2>3 DEF ObufTypes
  <2>10. Busy'
    <3>1. \E i, j \in Nat : Split(i, j)'
      BY <2>8
    <3> QED
      BY <1>1, <1>2, <1>8, <3>1 DEF Busy
  <2> QED
    BY <1>1, <1>2, <2>9, <2>10 DEF ObufInv
<1>16. CASE ~full
  <2>1. (\E u, v \in Seq(Char) : Queue(pend', u, v)) /\ Way' = fd'
    BY <1>1, <1>3, <1>16, NoWrite
  <2>2. WayIs(m)'
    BY <1>1, <1>5, <1>9, <2>1 DEF WayIs
  <2>3. e - m < ABufSize
    BY <1>6, <1>10, <1>14, <1>16
  <2>4. ObufTypes'
    BY <1>1, <1>2, <2>1 DEF ObufTypes
  <2>5. Busy'
    <3>1. Split(m, e)'
      BY <1>1, <1>6, <1>8, <1>10, <1>11, <1>13, <1>16, <2>2, <2>3 DEF Split, g
    <3>2. \E i, j \in Nat : Split(i, j)'
      BY <3>1
    <3> QED
      BY <1>1, <1>2, <1>8, <3>2 DEF Busy
  <2> QED
    BY <1>1, <1>2, <2>4, <2>5 DEF ObufInv
<1> QED
  BY <1>15, <1>16

LEMMA WriteSomeKeeps == ASSUME ObufInv, WriteSome PROVE ObufInv'
<1>1. /\ pend # <<>>
      /\ isarmor' = isarmor /\ obuf' = obuf /\ left' = left /\ wr' = wr
  BY DEF WriteSome
<1>2. PICK k \in 1..Len(Head(pend)) :
        /\ fd' = fd \o Before(Head(pend), k)
        /\ pend' = WriteAll(After(Head(pend), k)) \o Tail(pend)
  BY DEF WriteSome
<1>3. ObufTypes /\ wr.outcome = "none" /\ Busy
  BY <1>1 DEF ObufInv, Over
<1>4. PICK x, y \in Seq(Char) : Queue(pend, x, y)
  BY <1>3 DEF ObufTypes
<1>5. fd \in Seq(Char)
  BY <1>3 DEF ObufTypes
<1>6. PICK u, v \in Seq(Char) :
        /\ Queue(pend', u, v) /\ fd' \in Seq(Char)
        /\ fd' \o (u \o v) = fd \o (x \o y)
  <2>1. Completes(WriteAll(After(Head(pend), k)) \o Tail(pend), fd \o Before(Head(pend), k), fd \o (x \o y))
    BY <1>1, <1>4, <1>5, QueueStep
  <2>2. Completes(pend', fd', fd \o (x \o y))
    BY <1>2, <2>1
  <2> QED
    BY <2>2 DEF Completes
<1>7. Way' = Way
  <2>1. FlattenSeq(pend) = x \o y
    BY <1>4, QueueIs
  <2>2. FlattenSeq(pend') = u \o v
    BY <1>6, QueueIs
  <2> QED
    BY <1>6, <2>1, <2>2 DEF Way
<1>8. ObufTypes'
  BY <1>1, <1>3, <1>6 DEF ObufTypes
<1>9. ASSUME NEW m \in Nat, NEW p \in Nat, Split(m, p) PROVE Split(m, p)'
  BY <1>1, <1>7, <1>9 DEF Split, WayIs, Capacity
<1>10. Busy'
  BY <1>1, <1>3, <1>9 DEF Busy
<1> QED
  BY <1>1, <1>3, <1>8, <1>10 DEF ObufInv

LEMMA ObufStep == ASSUME ObufInv, ObufNext PROVE ObufInv'
  BY ArmorFirstKeeps, GiveKeeps, AbandonKeeps, FlushKeeps, ArmorLastKeeps, ReturnKeeps, BwriteKeeps,
     AwriteKeeps, WriteSomeKeeps, WriteFailsKeeps DEF ObufNext

LEMMA ObufStays == ASSUME ObufInv, UNCHANGED obufvars PROVE ObufInv'
<1>1. isarmor' = isarmor /\ obuf' = obuf /\ left' = left /\ pend' = pend /\ fd' = fd /\ wr' = wr
  BY DEF obufvars
<1>2. Way' = Way
  BY <1>1 DEF Way
<1>3. ASSUME NEW m \in Nat, NEW p \in Nat, Split(m, p) PROVE Split(m, p)'
  BY <1>1, <1>2, <1>3 DEF Split, WayIs, Capacity
<1>4. Busy => Busy'
  BY <1>1, <1>3 DEF Busy
<1>5. Over => Over'
  BY <1>1 DEF Over, Output, Capacity
<1>6. ObufTypes => ObufTypes'
  BY <1>1 DEF ObufTypes
<1> QED
  BY <1>1, <1>4, <1>5, <1>6 DEF ObufInv
-----------------------------------------------------------------------------
(* What the invariant says. *)

LEMMA InvAccounted == ASSUME ObufInv PROVE Accounted
<1> SUFFICES ASSUME wr.outcome = "none"
             PROVE  OnlyBytes(Way) \o obuf \o left = Bytes(wr.given)
  BY DEF Accounted, Way
<1> DEFINE g == wr.given
<1>1. ObufTypes /\ Busy /\ isarmor \in BOOLEAN /\ wr.phase \in Phases /\ g \in Nat
  BY DEF ObufInv, ObufTypes
<1>2. PICK m, p \in Nat : Split(m, p)
  BY <1>1 DEF Busy
<1>3. /\ m <= p /\ p <= g /\ obuf = Run(m, p) /\ left = Run(p, g) /\ WayIs(m)
      /\ wr.phase # "body" => m = g
  BY <1>2 DEF Split
<1>4. OnlyBytes(Way) = Bytes(m)
  <2>1. OnlyBytes(Bytes(m)) = Bytes(m) /\ OnlyBytes(Sent(m)) = Bytes(m) /\ OnlyBytes(Armored(m)) = Bytes(m)
    BY OnlyBytesOfBytes, SentIs
  <2>2. CASE isarmor /\ wr.phase = "first"
    <3>1. m = 0
      BY <1>1, <1>3, <2>2 DEF Busy
    <3>2. Way = Bytes(m)
      BY <1>3, <2>2, <3>1, SentNone DEF WayIs
    <3> QED
      BY <2>1, <3>2
  <2>3. CASE isarmor /\ wr.phase # "first"
    <3>1. Way = Sent(m) \/ Way = Armored(m)
      BY <1>1, <1>3, <2>3 DEF WayIs, Busy, Phases
    <3> QED
      BY <2>1, <3>1
  <2>4. CASE ~isarmor
    <3>1. Way = Bytes(m)
      BY <1>3, <2>4 DEF WayIs
    <3> QED
      BY <2>1, <3>1
  <2> QED
    BY <1>1, <2>2, <2>3, <2>4
<1> HIDE DEF g
<1>5. Bytes(m) \o Run(m, p) = Bytes(p) /\ Bytes(p) \o Run(p, g) = Bytes(g)
  BY <1>1, <1>3, Grows
<1> QED
  BY <1>3, <1>4, <1>5 DEF g

LEMMA InvCanonical == ASSUME ObufInv PROVE CanonicalText
<1>1. wr.outcome = "none" => IsPrefix(fd, Output(wr.given))
  BY WrittenPrefix DEF ObufInv
<1>2. wr.outcome # "none" => IsPrefix(fd, Output(wr.given))
  BY DEF ObufInv, Over
<1> QED
  BY <1>1, <1>2 DEF CanonicalText

LEMMA InvObufTypeOK == ASSUME ObufInv PROVE ObufTypeOK
<1>1. ObufTypes
  BY DEF ObufInv
<1>2. isarmor \in BOOLEAN /\ wr.outcome \in {"none", "ok", "failed"} /\ wr.given \in Nat
  BY <1>1 DEF ObufTypes
<1>3. \A i \in 1..Len(pend) : pend[i] # <<>>
  <2>1. PICK x, y \in Seq(Char) : Queue(pend, x, y)
    BY <1>1 DEF ObufTypes
  <2> QED
    BY <2>1, QueueIs
<1>4. Len(obuf) <= Capacity
  <2>1. CASE wr.outcome = "none"
    <3>1. PICK m, p \in Nat : Split(m, p)
      BY <2>1 DEF ObufInv, Busy
    <3>2. m <= p /\ p - m < Capacity /\ obuf = Run(m, p)
      BY <3>1 DEF Split
    <3>3. Len(obuf) = p - m /\ Capacity \in Nat
      BY <1>2, <3>2, RunIs, Sizes
    <3> QED
      BY <3>2, <3>3
  <2>2. CASE wr.outcome # "none"
    BY <2>2 DEF ObufInv, Over
  <2> QED
    BY <2>1, <2>2
<1> QED
  BY <1>2, <1>3, <1>4 DEF ObufTypeOK

-----------------------------------------------------------------------------
(* The writer. *)

LEMMA NoWriterInv == ASSUME NoWriter PROVE ObufInv
<1>1. /\ isarmor = FALSE /\ fd = <<>> /\ obuf = <<>> /\ left = <<>> /\ pend = <<>>
      /\ wr = [phase |-> "gone", given |-> 0, calls |-> 0, outcome |-> "none"]
  BY DEF NoWriter, WriterGone
<1>2. <<>> \in Seq(Char) /\ Queue(pend, <<>>, <<>>)
  BY <1>1 DEF Queue, WriteAll
<1>3. wr \in [phase : Phases, given : Nat, calls : 0..MaxPieces, outcome : {"none", "ok", "failed"}]
  BY <1>1, PieceAssumption DEF Phases
<1>4. ObufTypes
  BY <1>1, <1>2, <1>3 DEF ObufTypes
<1>5. Way = <<>>
  BY <1>1, <1>4, WayTypes
<1>6. WayIs(0)
  BY <1>1, <1>5, SentNone DEF WayIs
<1>7. Split(0, 0)
  <2>1. Run(0, 0) = <<>>
    BY RunEmpty
  <2>2. Capacity \in Nat \ {0}
    BY <1>1, Sizes
  <2> QED
    BY <1>1, <1>6, <2>1, <2>2 DEF Split
<1> QED
  BY <1>1, <1>4, <1>7 DEF ObufInv, Busy

LEMMA OpenTextKeeps == ASSUME ObufInv, OpenText PROVE ObufInv'
<1>1. /\ wr.phase = "stop" /\ wr' = [wr EXCEPT !.phase = "gone", !.calls = 0]
      /\ obuf' = <<>> /\ left' = <<>> /\ pend' = <<>> /\ isarmor' = isarmor /\ fd' = fd
  BY DEF OpenText
<1>2. ObufTypes /\ wr.outcome # "none" /\ Over
  BY <1>1 DEF ObufInv, Busy
<1>3. /\ isarmor \in BOOLEAN /\ fd \in Seq(Char)
      /\ wr \in [phase : Phases, given : Nat, calls : 0..MaxPieces, outcome : {"none", "ok", "failed"}]
  BY <1>2 DEF ObufTypes
<1>4. /\ wr' \in [phase : Phases, given : Nat, calls : 0..MaxPieces, outcome : {"none", "ok", "failed"}]
      /\ wr'.phase = "gone" /\ wr'.given = wr.given /\ wr'.outcome = wr.outcome
  <2>1. 0 \in 0..MaxPieces /\ "gone" \in Phases
    BY PieceAssumption DEF Phases
  <2>2. wr' = [phase |-> "gone", given |-> wr.given, calls |-> 0, outcome |-> wr.outcome]
    BY <1>1, <1>3
  <2>3. wr.given \in Nat /\ wr.outcome \in {"none", "ok", "failed"}
    BY <1>3
  <2> QED
    BY <2>1, <2>2, <2>3
<1>5. Output(wr.given)' = Output(wr.given)
  BY <1>1, <1>4 DEF Output
<1>6. Len(obuf') <= Capacity'
  <2>1. Capacity' \in Nat /\ Len(<<>>) = 0
    BY <1>1, <1>3, Sizes DEF Capacity
  <2> QED
    BY <1>1, <2>1
<1>7. \E u, v \in Seq(Char) : Queue(pend', u, v)
  BY <1>1, <1>3, NoWrite
<1>8. ObufTypes'
  BY <1>1, <1>3, <1>4, <1>7 DEF ObufTypes
<1>9. Over'
  BY <1>1, <1>2, <1>4, <1>5, <1>6 DEF Over
<1> QED
  BY <1>2, <1>4, <1>8, <1>9 DEF ObufInv

LEMMA WriterInvariance == Spec => []ObufInv
<1>1. Init => ObufInv
  BY ObufStart, NoWriterInv DEF Init
<1>2. ASSUME ObufInv, [Next]_vars PROVE ObufInv'
  <2>1. CASE ObufNext /\ UNCHANGED ibufvars
    BY <1>2, <2>1, ObufStep
  <2>2. CASE OpenText
    BY <1>2, <2>2, OpenTextKeeps
  <2>3. CASE IbufNext /\ UNCHANGED obufvars
    BY <1>2, <2>3, ObufStays
  <2>4. CASE Done
    <3>1. UNCHANGED obufvars
      BY <2>4 DEF Done, vars, obufvars
    <3> QED
      BY <1>2, <3>1, ObufStays
  <2>5. CASE UNCHANGED vars
    <3>1. UNCHANGED obufvars
      BY <2>5 DEF vars, obufvars
    <3> QED
      BY <1>2, <3>1, ObufStays
  <2> QED
    BY <1>2, <2>1, <2>2, <2>3, <2>4, <2>5 DEF Next
<1> QED
  BY <1>1, <1>2, PTL DEF Spec

\* Every byte given to bwrite is accounted for, in order and once, at every point
\* of every call, however the pieces meet the buffer's end and however short the
\* writes are (bwrite, awrite, aflush, bflush, writeall).
THEOREM WritesEverything == Spec => []Accounted
<1>1. ObufInv => Accounted
  BY InvAccounted
<1> QED
  BY <1>1, WriterInvariance, PTL

\* What has reached the descriptor is always a beginning of the one text of the
\* bytes given (aflush encodes whole lines only; writebody and bflush end it).
THEOREM WritesTheText == Spec => []CanonicalText
<1>1. ObufInv => CanonicalText
  BY InvCanonical
<1> QED
  BY <1>1, WriterInvariance, PTL

\* A call that reports success has written the whole text and nothing else.
Whole == wr.outcome = "ok" => fd = Output(wr.given)
THEOREM SuccessIsWhole == Spec => []Whole
<1>1. ObufInv => Whole
  BY DEF ObufInv, Over, Whole
<1> QED
  BY <1>1, WriterInvariance, PTL

-----------------------------------------------------------------------------
(* The reader: its state and what its caller is at. *)

Stages == {"waiting", "header", "peeked", "peekedread", "mac", "check", "nonce",
           "nonceread", "chunk", "ateof", "chunkend", "stop"}
Scalars == [isarmor : {"unchecked", "yes", "no"}, eof : BOOLEAN, cur : Nat, size : Nat,
            acur : Nat, ended : BOOLEAN, recording : BOOLEAN, alloc : BOOLEAN,
            recfail : BOOLEAN]
Operations == [name : {"idle", "bread", "bpeek"}, want : Nat, dest : Seq(Char), fill : Nat,
               aread : BOOLEAN]
\* Where a header may end: a parser that is fed old bytes sees its own.
HeaderEnd == {h \in Nat : ProbeLen < h}
Callers == [phase : Stages, hdr : HeaderEnd, mac : {"none", "rec", "buf"} \X Nat,
            eof : BOOLEAN, short : BOOLEAN, outcome : Outcomes]
Inputs == [kind : {"plain", "armored", "damaged"}, n : Nat, mode : {"decrypt", "encrypt"},
           file : Seq(Char)]

IbufTypes ==
    /\ in \in Inputs /\ fpos \in Nat /\ b \in Scalars /\ op \in Operations /\ cl \in Callers
    /\ buf \in Seq(Char) /\ abuf \in Seq(Char) /\ rec \in Seq(Char) /\ got \in Seq(Char)

\* Nothing is read yet.
Blank ==
    /\ fpos = 0 /\ b.cur = 0 /\ b.size = 0 /\ b.acur = 0
    /\ buf = <<>> /\ abuf = <<>> /\ rec = <<>> /\ got = <<>> /\ op.dest = <<>>
    /\ ~op.aread /\ ~b.eof /\ ~b.ended /\ ~b.alloc /\ ~b.recfail

\* What b->size says of the buffer: what was put there, or the refusal of the
\* armor that bpeek() stored.
Filled ==
    /\ b.cur <= Len(buf) /\ (Stale \/ b.size <= Len(buf))
    /\ Stale => b.isarmor = "yes" /\ ~b.eof

\* The cursors, and what holds while aread fills the buffer.
Bounds ==
    /\ fpos <= Len(in.file)
    /\ b.cur <= b.size /\ Filled /\ Len(buf) <= BufSize
    /\ b.acur <= Len(abuf) /\ Len(abuf) <= BlockLen
    /\ ~Running => op = Idle
    /\ op.name = "bread" => Len(op.dest) < op.want
    /\ op.name = "bpeek" => op.want = 0 /\ op.dest = <<>>
    /\ op.fill <= BufSize
    /\ op.aread => /\ Running /\ b.isarmor = "yes" /\ b.cur = 0 /\ b.size = 0 /\ ~b.eof
                   /\ op.fill < BufSize /\ op.fill <= Len(buf)
    /\ b.isarmor = "unchecked" => Blank
    /\ (cl.phase = "stop") <=> (cl.outcome # "none")
    /\ cl.phase = "stop" => ~Running

\* During a call of bread or bpeek: who made it, and with what still to come.
Called ==
    /\ ~cl.short
    /\ op.name = "bread" =>
          \/ cl.phase = "header" /\ Len(got) + op.want <= cl.hdr
          \/ /\ cl.phase = "peekedread" /\ Len(got) + op.want <= cl.hdr /\ op.want = 1
             /\ ~op.aread /\ b.isarmor # "unchecked" /\ b.cur < b.size
          \/ cl.phase = "check" /\ Len(got) = cl.hdr /\ op.want = MacLen
          \/ cl.phase = "nonceread" /\ Len(got) = cl.hdr + MacLen /\ op.want = NonceLen
          \/ cl.phase = "ateof" /\ op.want = Chunk
    /\ op.name = "bpeek" => (cl.phase = "peeked" /\ Len(got) < cl.hdr) \/ cl.phase = "chunkend"

\* Between calls: what each phase has behind it.
AtRest ==
    /\ cl.short => /\ b.eof /\ b.cur = b.size
                   /\ cl.phase \in {"header", "check", "nonceread", "ateof"}
    /\ cl.phase = "waiting" => b.isarmor = "unchecked"
    /\ cl.phase = "header" => Len(got) <= cl.hdr /\ (cl.short => Len(got) < cl.hdr)
    /\ cl.phase = "peeked" => Len(got) < cl.hdr
    /\ cl.phase = "peekedread" => Len(got) <= cl.hdr
    /\ cl.phase = "mac" => Len(got) = cl.hdr
    /\ cl.phase = "check" =>
          IF cl.short THEN Len(got) < cl.hdr + MacLen ELSE Len(got) = cl.hdr + MacLen
    /\ cl.phase = "nonce" => Len(got) = cl.hdr + MacLen
    /\ cl.phase = "nonceread" =>
          IF cl.short THEN Len(got) < cl.hdr + MacLen + NonceLen ELSE Len(got) >= cl.hdr
    /\ cl.phase = "ateof" => cl.short \/ Len(got) >= Chunk
    /\ cl.phase \in {"peeked", "chunkend"} =>
          IF cl.eof THEN b.eof /\ b.cur = b.size ELSE b.cur < b.size

Serving ==
    /\ Running => Called
    /\ ~Running => AtRest
    /\ in.mode = "decrypt" /\ cl.phase \in {"chunk", "ateof", "chunkend"} => Len(got) >= cl.hdr

Reading == {"waiting", "header", "peeked", "peekedread"}

\* The record of the header, and what the MAC will be computed over.
Recorded ==
    /\ b.recording => in.mode = "decrypt"
    /\ b.recording <=> cl.phase \in Reading
    /\ b.recording /\ ~b.recfail =>
          /\ rec \o Before(buf, b.cur) = got \o op.dest
          /\ ~b.alloc => rec = <<>>
          /\ ~b.alloc /\ b.isarmor = "no" => b.size <= ProbeLen /\ (b.size = 0 => b.eof)
    /\ cl.phase \in {"mac", "check"} /\ ~b.recfail =>
          /\ cl.mac[1] \in {"rec", "buf"}
          /\ cl.mac[1] = "rec" => rec = Before(got, cl.hdr)
          /\ cl.mac[1] = "buf" => b.isarmor = "yes" /\ ~b.alloc

ReaderInv ==
    /\ IbufTypes /\ Bounds
    /\ cl.phase # "stop" => Serving /\ Recorded
    /\ cl.phase = "stop" => MacCoversHeader /\ (cl.outcome = "overread" => Stale)

LEMMA Parameters ==
    /\ MacLen \in Nat \ {0} /\ NonceLen \in Nat \ {0} /\ Chunk \in Nat \ {0} /\ ProbeLen <= Chunk
    /\ HeaderLens \subseteq Nat /\ (\A h \in HeaderLens : ProbeLen < h) /\ MaxLen \in Nat
  BY ReadAssumption

\* A size that is in the buffer is not bpeek()'s.
LEMMA NotStale ==
    ASSUME b.size \in Nat, Len(buf) \in Nat, b.size <= Len(buf), Len(buf) <= BufSize
    PROVE  ~Stale
  BY Lengths DEF Stale, MinusTwo

LEMMA UsedUp ==
    ASSUME Filled, b.cur = b.size, b.size \in Nat, Len(buf) \in Nat, Len(buf) <= BufSize
    PROVE  ~Stale /\ b.size <= Len(buf)
  BY Lengths DEF Filled, Stale, MinusTwo

LEMMA FilledTo ==
    ASSUME b'.cur \in Nat, b'.size \in Nat, Len(buf') \in Nat, b'.cur <= b'.size,
           b'.size <= Len(buf'), Len(buf') <= BufSize
    PROVE  Filled' /\ ~Stale'
<1>1. BufSize \in Nat
  BY Lengths
<1>2. ~Stale'
  BY <1>1 DEF Stale, MinusTwo
<1>3. b'.cur <= Len(buf')
  OBVIOUS
<1> QED
  BY <1>2, <1>3 DEF Filled

LEMMA FilledKept ==
    ASSUME Filled, buf' = buf, b'.cur = b.cur, b'.size = b.size, b'.isarmor = b.isarmor,
           b'.eof = b.eof
    PROVE  Filled' /\ (Stale' <=> Stale)
  BY DEF Filled, Stale

\* A piece of a text, whether or not its end is inside.
LEMMA Slice ==
    ASSUME NEW s \in Seq(Char), NEW i \in Nat, NEW j \in Nat, i <= j, j <= Len(s)
    PROVE  /\ SubSeq(s, i + 1, j) \in Seq(Char) /\ Len(SubSeq(s, i + 1, j)) = j - i
           /\ \A x \in 1..(j - i) : SubSeq(s, i + 1, j)[x] = s[i + x]
<1> DEFINE k == i + 1
<1>1. k \in 1..(Len(s) + 1) /\ j \in (k - 1)..Len(s) /\ j - k + 1 = j - i
  BY LenProperties
<1>2. \A x \in 1..(j - i) : k + x - 1 = i + x
  OBVIOUS
<1> HIDE DEF k
<1>3. /\ SubSeq(s, k, j) \in Seq(Char)
      /\ Len(SubSeq(s, k, j)) = IF k <= j THEN j - k + 1 ELSE 0
      /\ \A x \in 1..(j - k + 1) : SubSeq(s, k, j)[x] = s[k + x - 1]
  BY SMTT(30), <1>1, SubSeqProperties
<1> QED
  BY SMTT(30), <1>1, <1>2, <1>3 DEF k
LEMMA Same ==
    ASSUME NEW s \in Seq(Char), NEW t \in Seq(Char), Len(s) = Len(t),
           \A x \in 1..Len(s) : s[x] = t[x]
    PROVE  s = t
  BY SeqEqual

\* Pieces that meet.
LEMMA SliceJoin ==
    ASSUME NEW s \in Seq(Char), NEW i \in Nat, NEW j \in Nat, NEW l \in Nat, i <= j, j <= l, l <= Len(s)
    PROVE  SubSeq(s, i + 1, j) \o SubSeq(s, j + 1, l) = SubSeq(s, i + 1, l)
<1> DEFINE u == SubSeq(s, i + 1, j)
           v == SubSeq(s, j + 1, l)
           w == SubSeq(s, i + 1, l)
           z == u \o v
           m == j - i
           n == l - j
<1>1. i <= l /\ j <= Len(s)
  BY LenProperties
<1>2. u \in Seq(Char) /\ Len(u) = m /\ \A x \in 1..m : u[x] = s[i + x]
  BY <1>1, Slice
<1>3. v \in Seq(Char) /\ Len(v) = n /\ \A x \in 1..n : v[x] = s[j + x]
  BY <1>1, Slice
<1>4. w \in Seq(Char) /\ Len(w) = l - i /\ \A x \in 1..(l - i) : w[x] = s[i + x]
  BY <1>1, Slice
<1>5. m \in Nat /\ n \in Nat /\ m + n = l - i /\ j = i + m
  OBVIOUS
<1> HIDE DEF u, v, w, m, n
<1>6. /\ z \in Seq(Char) /\ Len(z) = m + n
      /\ \A x \in 1..(m + n) : z[x] = IF x <= m THEN u[x] ELSE v[x - m]
  BY <1>2, <1>3, Glue
<1> HIDE DEF z
<1>7. ASSUME NEW x \in 1..(m + n) PROVE z[x] = w[x]
  <2>1. w[x] = s[i + x]
    BY <1>4, <1>5
  <2>2. CASE x <= m
    <3>1. x \in 1..m
      BY <1>5, <2>2
    <3> QED
      BY <1>2, <1>6, <2>1, <2>2, <3>1
  <2>3. CASE ~(x <= m)
    <3>1. x - m \in 1..n /\ j + (x - m) = i + x
      BY <1>5, <2>3
    <3> QED
      BY <1>3, <1>6, <2>1, <2>3, <3>1
  <2> QED
    BY <2>2, <2>3
<1>8. Len(z) = Len(w)
  BY <1>4, <1>5, <1>6
<1>9. z = w
  BY <1>4, <1>6, <1>7, <1>8, Same
<1> QED
  BY <1>9 DEF z, u, v, w

LEMMA AfterAny ==
    ASSUME NEW s \in Seq(Char), NEW k \in Nat
    PROVE  /\ After(s, k) \in Seq(Char)
           /\ Len(After(s, k)) = IF k >= Len(s) THEN 0 ELSE Len(s) - k
<1>1. Len(s) \in Nat
  BY LenProperties
<1>2. CASE k <= Len(s)
  <2>1. k \in 0..Len(s)
    BY <1>1, <1>2
  <2>2. After(s, k) \in Seq(Char) /\ Len(After(s, k)) = Len(s) - k
    BY <2>1, Cut
  <2> QED
    BY <1>1, <1>2, <2>2
<1>3. CASE ~(k <= Len(s))
  <2>1. After(s, k) = <<>>
    BY <1>1, <1>3, SubSeqEmpty DEF After
  <2> QED
    BY <1>1, <1>3, <2>1, NullLen
<1> QED
  BY <1>2, <1>3

\* What is stored at the start of a buffer, over what was there.
LEMMA Stored ==
    ASSUME NEW s \in Seq(Char), NEW t \in Seq(Char), NEW k, k = Len(t)
    PROVE  /\ k \in Nat /\ t \o After(s, k) \in Seq(Char)
           /\ Len(t \o After(s, k)) = IF k >= Len(s) THEN k ELSE Len(s)
           /\ Before(t \o After(s, k), k) = t
<1> DEFINE a == After(s, k)
           n == Len(a)
           z == t \o a
<1>1. k \in Nat /\ Len(s) \in Nat
  BY LenProperties
<1>2. a \in Seq(Char) /\ n = IF k >= Len(s) THEN 0 ELSE Len(s) - k
  BY <1>1, AfterAny
<1>3. n \in Nat
  BY <1>1, <1>2
<1>4. a \in Seq(Char) /\ Len(a) = n
  BY <1>2
<1> HIDE DEF a, n
<1>5. /\ z \in Seq(Char) /\ Len(z) = k + n
      /\ \A x \in 1..(k + n) : z[x] = IF x <= k THEN t[x] ELSE a[x - k]
  BY <1>4, Glue
<1> HIDE DEF z
<1>6. k \in 0..Len(z)
  BY <1>1, <1>3, <1>5
<1>7. /\ Before(z, k) \in Seq(Char) /\ Len(Before(z, k)) = k
      /\ \A x \in 1..k : Before(z, k)[x] = z[x]
  BY <1>5, <1>6, Cut
<1>8. \A x \in 1..k : Before(z, k)[x] = t[x]
  BY <1>1, <1>3, <1>5, <1>7
<1>9. Before(z, k) = t
  BY <1>1, <1>7, <1>8, Same
<1>10. Len(z) = IF k >= Len(s) THEN k ELSE Len(s)
  BY <1>1, <1>2, <1>5
<1> QED
  BY <1>1, <1>5, <1>9, <1>10 DEF z, a

\* A text holds no more bytes than characters.
LEMMA OnlyBytesFew ==
    ASSUME NEW s \in Seq(Char)
    PROVE  /\ OnlyBytes(s) \in Seq(Char) /\ Len(OnlyBytes(s)) \in Nat
           /\ Len(OnlyBytes(s)) <= Len(s)
<1>1. Len(s) \in Nat
  BY LenProperties
<1>2. PICK f : /\ f = [k \in 0..Len(s) |-> Filtered(f, s, k)]
               /\ OnlyBytes(s) = f[Len(s)]
  BY <1>1, OnlyBytesIs
<1> DEFINE m == Len(s)
           P == {k \in Nat : k <= m => f[k] \in Seq(Char) /\ Len(f[k]) \in Nat /\ Len(f[k]) <= k}
<1>3. \A k \in 0..m : f[k] = Filtered(f, s, k)
  BY <1>2
<1>4. \A k \in 1..m : s[k] \in Char
  BY <1>1, ElementOfSeq
<1>5. m \in Nat /\ OnlyBytes(s) = f[m]
  BY <1>1, <1>2
<1> HIDE DEF m
<1>6. 0 \in P
  <2>1. f[0] = <<>>
    BY <1>3, <1>5 DEF Filtered
  <2>2. Len(f[0]) = 0 /\ f[0] \in Seq(Char)
    BY <2>1, NullLen
  <2>3. Len(f[0]) \in Nat /\ Len(f[0]) <= 0
    BY <2>2
  <2> QED
    BY <2>2, <2>3
<1>7. ASSUME NEW k \in Nat, k \in P PROVE k + 1 \in P
  <2>1. SUFFICES ASSUME k + 1 <= m
                 PROVE  f[k + 1] \in Seq(Char) /\ Len(f[k + 1]) \in Nat /\ Len(f[k + 1]) <= k + 1
    BY <1>7
  <2>2. f[k] \in Seq(Char) /\ Len(f[k]) \in Nat /\ Len(f[k]) <= k
    BY <1>5, <1>7, <2>1
  <2>3. k + 1 \in 0..m /\ k + 1 \in 1..m /\ k + 1 # 0 /\ (k + 1) - 1 = k
    BY <1>5, <2>1
  <2>4. f[k + 1] = IF s[k + 1][1] = "byte" THEN Append(f[k], s[k + 1]) ELSE f[k]
    BY <1>3, <2>3 DEF Filtered
  <2>5. CASE s[k + 1][1] = "byte"
    <3>1. s[k + 1] \in Char
      BY <1>4, <2>3
    <3>2. Append(f[k], s[k + 1]) \in Seq(Char) /\ Len(Append(f[k], s[k + 1])) = Len(f[k]) + 1
      BY <2>2, <3>1, AppendProperties
    <3> QED
      BY <2>2, <2>4, <2>5, <3>2
  <2>6. CASE s[k + 1][1] # "byte"
    BY <2>2, <2>4, <2>6
  <2> QED
    BY <2>5, <2>6
<1> HIDE DEF P
<1>8. m \in P
  BY <1>5, <1>6, <1>7, NatInduct
<1> QED
  BY <1>5, <1>8 DEF P, m

LEMMA DecodingFits ==
    ASSUME NEW s \in Seq(Char), NEW d \in Decodings(s)
    PROVE  d \in Seq(Char) /\ Len(d) \in Nat /\ Len(d) <= Len(s)
<1>1. Len(s) \in Nat
  BY LenProperties
<1>2. CASE d = OnlyBytes(s)
  BY <1>2, OnlyBytesFew
<1>3. CASE d = OnlyBytes(Front(s)) /\ s # <<>>
  <2> DEFINE k == Len(s) - 1
  <2>1. Len(s) # 0
    BY <1>3, EmptySeq, SeqEqual, LenProperties
  <2>2. Front(s) = Before(s, k) /\ k \in 0..Len(s)
    BY <1>1, <2>1 DEF Front, Before
  <2> HIDE DEF k
  <2>3. Front(s) \in Seq(Char) /\ Len(Front(s)) <= Len(s) /\ Len(Front(s)) \in Nat
    BY <1>1, <2>2, Cut
  <2>4. d \in Seq(Char) /\ Len(d) \in Nat /\ Len(d) <= Len(Front(s))
    BY <1>3, <2>3, OnlyBytesFew
  <2> QED
    BY <1>1, <2>3, <2>4
<1> QED
  BY <1>2, <1>3 DEF Decodings

LEMMA NewlineIs == NL \in Char
  BY DEF NL, Char

LEMMA InputTextIs ==
    ASSUME NEW kind \in {"plain", "armored", "damaged"}, NEW n \in Nat, NEW cut \in Nat
    PROVE  InputText(kind, n, cut) \in Seq(Char)
<1>1. Bytes(n) \in Seq(Char) /\ Armored(n) \in Seq(Char) /\ Len(Armored(n)) \in Nat
  BY BytesIs, SentIs, LenProperties
<1>2. Append(Armored(n), NL) \in Seq(Char)
  BY <1>1, NewlineIs, AppendProperties
<1>3. cut < Len(Armored(n)) => SubSeq(Armored(n), 1, cut) \in Seq(Char)
  <2>1. cut < Len(Armored(n)) => cut \in 0..Len(Armored(n))
    BY <1>1
  <2> QED
    BY <1>1, <2>1, Cut DEF Before
<1> QED
  BY <1>1, <1>2, <1>3 DEF InputText

-----------------------------------------------------------------------------
(* The reader before its first read. *)

LEMMA FreshReader ==
    ASSUME in \in Inputs, fpos = 0, b = Fresh(in.mode), op = Idle,
           buf = <<>>, abuf = <<>>, rec = <<>>, got = <<>>,
           NEW h \in HeaderLens, NEW p \in {"header", "chunk", "waiting"},
           in.mode = "decrypt" \/ p = "chunk", p = "chunk" => in.mode = "encrypt",
           cl = [phase |-> p, hdr |-> h, mac |-> <<"none", 0>>, eof |-> FALSE,
                 short |-> FALSE, outcome |-> "none"]
    PROVE  ReaderInv
<1>1. /\ b \in Scalars /\ b.isarmor = "unchecked" /\ b.cur = 0 /\ b.size = 0 /\ b.acur = 0
      /\ ~b.eof /\ ~b.ended /\ ~b.alloc /\ ~b.recfail
      /\ b.recording <=> in.mode = "decrypt"
  BY DEF Fresh, Scalars, Inputs
<1>2. /\ op \in Operations /\ op.name = "idle" /\ ~op.aread /\ op.dest = <<>> /\ op.fill = 0
      /\ ~Running
  BY NullLen DEF Idle, Operations, Running
<1>3. /\ cl \in Callers /\ cl.phase = p /\ ~cl.short /\ ~cl.eof /\ cl.outcome = "none" /\ cl.hdr = h
  <2>1. h \in HeaderEnd
    BY Parameters DEF HeaderEnd
  <2> QED
    BY <2>1 DEF Callers, Stages, Outcomes
<1>4. IbufTypes
  BY <1>1, <1>2, <1>3, NullLen DEF IbufTypes
<1>5. Blank
  BY <1>1, <1>2 DEF Blank
<1>6. Len(in.file) \in Nat /\ BlockLen \in Nat /\ BufSize \in Nat /\ Len(buf) = 0 /\ Len(abuf) = 0
      /\ Len(got) = 0
  <2>1. in.file \in Seq(Char)
    BY DEF Inputs
  <2>2. BlockLines \in Nat /\ W \in Nat
    BY Lengths
  <2>3. BlockLen \in Nat
    BY <2>2, Multiples DEF BlockLen, W
  <2> QED
    BY <2>1, <2>3, LenProperties, Lengths, NullLen
<1>11. Filled
  BY <1>1, <1>6, Lengths DEF Filled, Stale, MinusTwo
<1>7. Bounds
  BY <1>1, <1>2, <1>3, <1>5, <1>6, <1>11 DEF Bounds
<1>8. h \in Nat /\ ProbeLen \in Nat
  BY Parameters, Lengths
<1>9. Serving
  BY <1>1, <1>2, <1>3, <1>6, <1>8 DEF Serving, AtRest
<1>10. Recorded
  <2>1. rec \o Before(buf, b.cur) = got \o op.dest
    <3>1. Before(buf, b.cur) = <<>>
      BY <1>1, SubSeqEmpty DEF Before
    <3> QED
      BY <1>2, <3>1
  <2> QED
    BY <1>1, <1>2, <1>3, <2>1, Lengths DEF Recorded, Reading
<1> QED
  BY <1>3, <1>4, <1>7, <1>9, <1>10 DEF ReaderInv

LEMMA ReaderStart == ASSUME IbufInit \/ NoReader PROVE ReaderInv
<1>1. CASE IbufInit
  <2>1. PICK kind \in {"plain", "armored", "damaged"}, n \in 0..MaxLen, mode \in {"decrypt", "encrypt"} :
           \E cut \in IF kind = "damaged" THEN ProbeLen..Len(Armored(n)) ELSE {0} :
              in = [kind |-> kind, n |-> n, mode |-> mode, file |-> InputText(kind, n, cut)]
    BY <1>1 DEF IbufInit
  <2>2. PICK cut \in IF kind = "damaged" THEN ProbeLen..Len(Armored(n)) ELSE {0} :
              in = [kind |-> kind, n |-> n, mode |-> mode, file |-> InputText(kind, n, cut)]
    BY <2>1
  <2>3. n \in Nat /\ cut \in Nat
    BY Parameters, Lengths, SentIs, LenProperties
  <2>4. InputText(kind, n, cut) \in Seq(Char)
    BY <2>3, InputTextIs
  <2>5. in \in Inputs /\ in.mode = mode
    BY <2>2, <2>3, <2>4 DEF Inputs
  <2>6. PICK h \in HeaderLens : cl = Caller(in.mode, h)
    BY <1>1 DEF IbufInit
  <2>7. fpos = 0 /\ b = Fresh(in.mode) /\ op = Idle /\ buf = <<>> /\ abuf = <<>> /\ rec = <<>> /\ got = <<>>
    BY <1>1 DEF IbufInit
  <2>8. CASE mode = "decrypt"
    <3>1. cl = [phase |-> "header", hdr |-> h, mac |-> <<"none", 0>>, eof |-> FALSE,
                short |-> FALSE, outcome |-> "none"]
      BY <2>5, <2>6, <2>8 DEF Caller
    <3> QED
      BY <2>5, <2>7, <2>8, <3>1, FreshReader
  <2>9. CASE mode # "decrypt"
    <3>1. cl = [phase |-> "chunk", hdr |-> h, mac |-> <<"none", 0>>, eof |-> FALSE,
                short |-> FALSE, outcome |-> "none"]
      BY <2>5, <2>6, <2>9 DEF Caller
    <3> QED
      BY <2>5, <2>7, <2>9, <3>1, FreshReader
  <2> QED
    BY <2>8, <2>9
<1>2. CASE NoReader
  <2>1. in = [kind |-> "plain", n |-> 0, mode |-> "decrypt", file |-> <<>>]
    BY <1>2 DEF NoReader
  <2>2. in \in Inputs /\ in.mode = "decrypt"
    BY <2>1, NullLen DEF Inputs
  <2>3. PICK h \in HeaderLens : cl = [Caller("decrypt", h) EXCEPT !.phase = "waiting"]
    BY <1>2 DEF NoReader
  <2>4. cl = [phase |-> "waiting", hdr |-> h, mac |-> <<"none", 0>>, eof |-> FALSE,
              short |-> FALSE, outcome |-> "none"]
    BY <2>3 DEF Caller
  <2>5. fpos = 0 /\ b = Fresh(in.mode) /\ op = Idle /\ buf = <<>> /\ abuf = <<>> /\ rec = <<>> /\ got = <<>>
    BY <1>2, <2>2 DEF NoReader
  <2> QED
    BY <2>2, <2>4, <2>5, FreshReader
<1> QED
  BY <1>1, <1>2

-----------------------------------------------------------------------------
(* The steps of the callers. *)

LEMMA RecordedKept ==
    ASSUME Recorded, UNCHANGED <<in, b, buf, rec, got>>, op'.dest = op.dest,
           cl.phase \in Reading <=> cl'.phase \in Reading,
           cl'.phase \in {"mac", "check"} =>
              cl.phase \in {"mac", "check"} /\ cl'.mac = cl.mac /\ cl'.hdr = cl.hdr
    PROVE  Recorded'
<1>1. Before(buf, b.cur)' = Before(buf, b.cur)
  BY DEF Before
<1>2. Before(got, cl.hdr)' = Before(got, cl'.hdr)
  BY DEF Before
<1> QED
  BY <1>1, <1>2 DEF Recorded

LEMMA Resting ==
    ASSUME ReaderInv, ~Running
    PROVE  /\ op.name = "idle" /\ op.want = 0 /\ op.dest = <<>> /\ op.fill = 0 /\ ~op.aread
           /\ IbufTypes /\ Bounds
           /\ cl.phase # "stop" =>
                 /\ AtRest /\ Recorded /\ cl.outcome = "none"
                 /\ in.mode = "decrypt" /\ cl.phase \in {"chunk", "ateof", "chunkend"} =>
                       Len(got) >= cl.hdr
<1>1. op = Idle
  BY DEF ReaderInv, Bounds
<1>2. op.name = "idle" /\ op.want = 0 /\ op.dest = <<>> /\ op.fill = 0 /\ ~op.aread
  BY <1>1 DEF Idle
<1> QED
  BY <1>2 DEF ReaderInv, Serving, Bounds

\* A caller that does not call keeps the types when its own record stays one.
LEMMA RestKeeps ==
    ASSUME IbufTypes, Bounds, ~Running, UNCHANGED <<in, fpos, b, buf, abuf, rec, op, got>>,
           cl' \in Callers, (cl'.phase = "stop") <=> (cl'.outcome # "none")
    PROVE  IbufTypes' /\ Bounds' /\ ~Running' /\ op'.dest = op.dest
<1>1. IbufTypes'
  BY DEF IbufTypes
<1>2. Blank => Blank'
  BY DEF Blank
<1>3. ~Running'
  BY DEF Running
<1>4. BlockLen' = BlockLen /\ Idle' = Idle
  BY DEF BlockLen, Idle
<1>6. Filled'
  BY FilledKept DEF Bounds
<1>5. Bounds'
  BY <1>2, <1>3, <1>4, <1>6 DEF Bounds
<1> QED
  BY <1>1, <1>3, <1>5

LEMMA CallKeeps ==
    ASSUME IbufTypes, Bounds, ~Running, UNCHANGED <<in, fpos, b, buf, abuf, rec, got>>,
           NEW n \in Nat, NEW name \in {"bread", "bpeek"},
           op' = [name |-> name, want |-> n, dest |-> <<>>, fill |-> 0, aread |-> FALSE],
           name = "bread" => n > 0, name = "bpeek" => n = 0,
           cl' \in Callers, cl'.phase # "stop", cl'.outcome = "none"
    PROVE  /\ IbufTypes' /\ Bounds' /\ Running'
           /\ op'.name = name /\ op'.want = n /\ op'.dest = <<>> /\ ~op'.aread
<1>1. op' \in Operations /\ op'.name = name /\ op'.want = n /\ op'.dest = <<>> /\ ~op'.aread /\ op'.fill = 0
  BY NullLen DEF Operations
<1>2. IbufTypes'
  BY <1>1 DEF IbufTypes
<1>3. op.dest = <<>> /\ ~op.aread
  BY DEF Bounds, Idle
<1>4. Blank => Blank'
  BY <1>1 DEF Blank
<1>5. Running' /\ BlockLen' = BlockLen
  BY <1>1 DEF Running, BlockLen
<1>6. BufSize \in Nat /\ Len(op'.dest) = 0
  BY <1>1, Lengths, NullLen
<1>8. Filled'
  BY FilledKept DEF Bounds
<1>7. Bounds'
  BY <1>1, <1>4, <1>5, <1>6, <1>8 DEF Bounds
<1> QED
  BY <1>1, <1>2, <1>5, <1>7

LEMMA HeaderReadKeeps == ASSUME ReaderInv, HeaderRead PROVE ReaderInv'
<1>1. ~Running /\ cl.phase = "header" /\ ~cl.short /\ Len(got) < cl.hdr
  BY DEF HeaderRead, InHeader, At
<1>2. PICK n \in {1, cl.hdr - Len(got)} : Call("bread", n, "header")
  BY DEF HeaderRead
<1>3. IbufTypes /\ Bounds /\ Recorded /\ op.dest = <<>> /\ cl.outcome = "none"
  BY <1>1, Resting
<1>4. Len(got) \in Nat /\ cl.hdr \in Nat /\ cl \in Callers
  BY <1>3, LenProperties DEF IbufTypes, Callers, HeaderEnd
<1>5. n \in Nat /\ n > 0 /\ Len(got) + n <= cl.hdr
  BY <1>1, <1>4
<1>6. /\ op' = [name |-> "bread", want |-> n, dest |-> <<>>, fill |-> 0, aread |-> FALSE]
      /\ cl' = cl /\ UNCHANGED <<in, fpos, b, buf, abuf, rec, got>>
  BY <1>1, <1>2, <1>4 DEF Call, Idle, Callers
<1>7. /\ IbufTypes' /\ Bounds' /\ Running'
      /\ op'.name = "bread" /\ op'.want = n /\ op'.dest = <<>> /\ ~op'.aread
  BY <1>1, <1>3, <1>4, <1>5, <1>6, CallKeeps
<1>8. Recorded'
  BY <1>1, <1>3, <1>6, <1>7, RecordedKept DEF Reading
<1>9. Serving'
  BY <1>1, <1>5, <1>6, <1>7 DEF Serving, Called
<1> QED
  BY <1>1, <1>6, <1>7, <1>8, <1>9 DEF ReaderInv

LEMMA HeaderPeekKeeps == ASSUME ReaderInv, HeaderPeek PROVE ReaderInv'
<1>1. ~Running /\ cl.phase = "header" /\ ~cl.short /\ Len(got) < cl.hdr
  BY DEF HeaderPeek, InHeader, At
<1>2. Call("bpeek", 0, "peeked")
  BY DEF HeaderPeek
<1>3. IbufTypes /\ Bounds /\ Recorded /\ op.dest = <<>> /\ cl.outcome = "none"
  BY <1>1, Resting
<1>4. cl \in Callers
  BY <1>3 DEF IbufTypes
<1>5. /\ op' = [name |-> "bpeek", want |-> 0, dest |-> <<>>, fill |-> 0, aread |-> FALSE]
      /\ UNCHANGED <<in, fpos, b, buf, abuf, rec, got>>
      /\ cl' = [cl EXCEPT !.phase = "peeked"]
  BY <1>2 DEF Call, Idle
<1>6. /\ cl' \in Callers /\ cl'.phase = "peeked" /\ cl'.hdr = cl.hdr /\ cl'.short = cl.short
      /\ cl'.outcome = "none"
  BY <1>3, <1>4, <1>5 DEF Callers, Stages
<1>7. /\ IbufTypes' /\ Bounds' /\ Running'
      /\ op'.name = "bpeek" /\ op'.want = 0 /\ op'.dest = <<>> /\ ~op'.aread
  BY <1>1, <1>3, <1>5, <1>6, CallKeeps
<1>8. Recorded'
  BY <1>1, <1>3, <1>5, <1>6, <1>7, RecordedKept DEF Reading
<1>9. Serving'
  BY <1>1, <1>5, <1>6, <1>7 DEF Serving, Called
<1> QED
  BY <1>6, <1>7, <1>8, <1>9 DEF ReaderInv

LEMMA ReadPeekedKeeps == ASSUME ReaderInv, ReadPeeked PROVE ReaderInv'
<1>1. ~Running /\ cl.phase = "peeked" /\ ~cl.short /\ ~cl.eof
  BY DEF ReadPeeked, At
<1>2. Call("bread", 1, "peekedread")
  BY DEF ReadPeeked
<1>3. /\ IbufTypes /\ Bounds /\ Recorded /\ op.dest = <<>> /\ cl.outcome = "none" /\ AtRest
      /\ ~op.aread
  BY <1>1, Resting
<1>4. Len(got) < cl.hdr /\ b.cur < b.size /\ b.isarmor # "unchecked"
  <2>1. Len(got) < cl.hdr /\ b.cur < b.size
    BY <1>1, <1>3 DEF AtRest
  <2>2. Blank => ~(b.cur < b.size)
    BY DEF Blank
  <2> QED
    BY <1>3, <2>1, <2>2 DEF Bounds
<1>5. /\ op' = [name |-> "bread", want |-> 1, dest |-> <<>>, fill |-> 0, aread |-> FALSE]
      /\ UNCHANGED <<in, fpos, b, buf, abuf, rec, got>>
      /\ cl' = [cl EXCEPT !.phase = "peekedread"]
  BY <1>2 DEF Call, Idle
<1>6. /\ cl' \in Callers /\ cl'.phase = "peekedread" /\ cl'.hdr = cl.hdr /\ cl'.short = cl.short
      /\ cl'.outcome = "none"
  BY <1>3, <1>5 DEF IbufTypes, Callers, Stages
<1>7. /\ IbufTypes' /\ Bounds' /\ Running'
      /\ op'.name = "bread" /\ op'.want = 1 /\ op'.dest = <<>> /\ ~op'.aread
  <2>1. IbufTypes /\ Bounds /\ 1 \in Nat /\ 1 > 0
    BY <1>3
  <2> QED
    BY <1>1, <1>5, <1>6, <2>1, CallKeeps
<1>8. Recorded'
  BY <1>1, <1>3, <1>5, <1>6, <1>7, RecordedKept DEF Reading
<1>9. Len(got) + 1 <= cl.hdr
  <2>1. cl.hdr \in Nat /\ Len(got) \in Nat
    BY <1>3, Parameters, LenProperties DEF IbufTypes, Callers, HeaderEnd
  <2> QED
    BY <1>4, <2>1
<1>10. Serving'
  BY <1>1, <1>4, <1>5, <1>6, <1>7, <1>9 DEF Serving, Called
<1> QED
  BY <1>6, <1>7, <1>8, <1>10 DEF ReaderInv

LEMMA PeekedReadKeeps == ASSUME ReaderInv, PeekedRead PROVE ReaderInv'
<1>1. /\ ~Running /\ cl.phase = "peekedread" /\ cl' = [cl EXCEPT !.phase = "header"]
      /\ UNCHANGED <<in, fpos, b, buf, abuf, rec, op, got>>
  BY DEF PeekedRead
<1>2. IbufTypes /\ Bounds /\ Recorded /\ cl.outcome = "none" /\ AtRest
  BY <1>1, Resting
<1>3. /\ cl' \in Callers /\ cl'.phase = "header" /\ cl'.hdr = cl.hdr /\ cl'.short = cl.short
      /\ cl'.outcome = "none"
  BY <1>1, <1>2 DEF IbufTypes, Callers, Stages
<1>4. IbufTypes' /\ Bounds' /\ ~Running' /\ op'.dest = op.dest
  BY <1>1, <1>2, <1>3, RestKeeps
<1>5. ~cl.short /\ Len(got) <= cl.hdr
  BY <1>1, <1>2 DEF AtRest
<1>6. Recorded'
  BY <1>1, <1>2, <1>3, <1>4, RecordedKept DEF Reading
<1>7. Serving'
  BY <1>1, <1>3, <1>4, <1>5 DEF Serving, AtRest
<1> QED
  BY <1>3, <1>4, <1>6, <1>7 DEF ReaderInv

\* The caller stops for a reason that is not the MAC.
LEMMA StopKeeps ==
    ASSUME ReaderInv, ~Running, UNCHANGED <<in, fpos, b, buf, abuf, rec, op, got>>,
           NEW o \in Outcomes \ {"none", "badmac", "overread"}, Stop(o)
    PROVE  ReaderInv'
<1>1. IbufTypes /\ Bounds
  BY DEF ReaderInv
<1>2. cl' \in Callers /\ cl'.phase = "stop" /\ cl'.outcome = o
  BY <1>1 DEF Stop, IbufTypes, Callers, Stages
<1>3. IbufTypes' /\ Bounds'
  BY <1>1, <1>2, RestKeeps
<1> QED
  BY <1>2, <1>3 DEF ReaderInv, MacCoversHeader

LEMMA HeaderEndsKeeps == ASSUME ReaderInv, HeaderEnds PROVE ReaderInv'
<1>1. "badheader" \in Outcomes \ {"none", "badmac", "overread"}
  BY DEF Outcomes
<1> QED
  BY <1>1, StopKeeps DEF HeaderEnds

LEMMA LastChunkKeeps == ASSUME ReaderInv, LastChunk PROVE ReaderInv'
<1>1. "ok" \in Outcomes \ {"none", "badmac", "overread"}
  BY DEF Outcomes
<1> QED
  BY <1>1, StopKeeps DEF LastChunk

\* recstop changes nothing that bread and bpeek depend on.
LEMMA StopRecording ==
    ASSUME IbufTypes, Bounds, ~Running, UNCHANGED <<in, fpos, buf, abuf, op, got>>,
           b.isarmor # "unchecked", b' \in Scalars, rec' \in Seq(Char), cl' \in Callers,
           b'.cur = b.cur, b'.size = b.size, b'.acur = b.acur, b'.isarmor = b.isarmor,
           b'.eof = b.eof, (cl'.phase = "stop") <=> (cl'.outcome # "none")
    PROVE  IbufTypes' /\ Bounds' /\ ~Running'
<1>1. IbufTypes'
  BY DEF IbufTypes
<1>2. ~Running' /\ BlockLen' = BlockLen /\ Idle' = Idle
  BY DEF Running, BlockLen, Idle
<1>4. Filled'
  BY FilledKept DEF Bounds
<1>3. Bounds'
  BY <1>2, <1>4 DEF Bounds
<1> QED
  BY <1>1, <1>2, <1>3

LEMMA RecStopKeeps == ASSUME ReaderInv, RecStop PROVE ReaderInv'
<1> DEFINE f == [b EXCEPT !.recording = FALSE]
<1>1. /\ ~Running /\ cl.phase = "header" /\ ~cl.short /\ Len(got) = cl.hdr
      /\ UNCHANGED <<in, fpos, buf, abuf, op, got>>
  BY DEF RecStop, At
<1>2. /\ IbufTypes /\ Bounds /\ Recorded /\ op.dest = <<>> /\ cl.outcome = "none" /\ AtRest
      /\ ~op.aread
  BY <1>1, Resting
<1>3. /\ b \in Scalars /\ cl \in Callers /\ rec \in Seq(Char) /\ got \in Seq(Char) /\ buf \in Seq(Char)
      /\ Len(got) \in Nat /\ cl.hdr \in Nat /\ ProbeLen < cl.hdr /\ ProbeLen \in Nat
  BY <1>1, <1>2, Parameters, Lengths, LenProperties DEF IbufTypes, Callers, HeaderEnd
<1>4. b.isarmor # "unchecked"
  <2>1. got # <<>>
    BY <1>1, <1>3, NullLen
  <2> QED
    BY <1>2, <2>1 DEF Bounds, Blank
<1>5. /\ f \in Scalars /\ f.cur = b.cur /\ f.size = b.size /\ f.acur = b.acur
      /\ f.isarmor = b.isarmor /\ f.eof = b.eof /\ ~f.recording /\ f.alloc = b.alloc
      /\ f.recfail = b.recfail
  BY <1>3 DEF Scalars
<1>6. got \o op.dest = got
  BY <1>2, <1>3
<1>7. /\ b.cur \in Nat /\ b.size \in Nat /\ b.cur <= b.size /\ b.cur <= Len(buf)
      /\ Before(buf, b.cur) \in Seq(Char) /\ Len(Before(buf, b.cur)) = b.cur
  <2>1. b.cur \in Nat /\ b.size \in Nat /\ Len(buf) \in Nat
    BY <1>3, LenProperties DEF Scalars
  <2>2. b.cur <= b.size /\ b.cur <= Len(buf)
    BY <1>2, <2>1 DEF Bounds, Filled
  <2>3. b.cur \in 0..Len(buf)
    BY <2>1, <2>2
  <2> QED
    BY <1>3, <2>1, <2>2, <2>3, Cut
<1>8. Before(got, cl.hdr) = got
  <2>1. Len(got) \in 0..Len(got)
    BY <1>3
  <2>2. /\ Before(got, Len(got)) \in Seq(Char) /\ Len(Before(got, Len(got))) = Len(got)
        /\ \A i \in 1..Len(got) : Before(got, Len(got))[i] = got[i]
    BY <1>3, <2>1, Cut
  <2>3. Before(got, Len(got)) = got
    BY <1>3, <2>2, Same
  <2> QED
    BY <1>1, <2>3
<1> HIDE DEF f
<1>9. b.recording /\ (~b.recfail => rec \o Before(buf, b.cur) = got)
  BY <1>1, <1>2, <1>6 DEF Recorded, Reading
<1>10. CASE b.recfail /\ Stop("nomemory") /\ b' = f /\ UNCHANGED rec
  <2>1. cl' \in Callers /\ cl'.phase = "stop" /\ cl'.outcome = "nomemory"
    BY <1>3, <1>10 DEF Stop, Callers, Stages, Outcomes
  <2>2. IbufTypes' /\ Bounds' /\ ~Running'
    BY <1>1, <1>2, <1>3, <1>4, <1>5, <1>10, <2>1, StopRecording
  <2> QED
    BY <2>1, <2>2 DEF ReaderInv, MacCoversHeader
<1>11. CASE /\ ~b.recfail /\ ~b.alloc /\ cl' = [cl EXCEPT !.phase = "mac", !.mac = <<"buf", b.cur>>]
            /\ b' = f /\ UNCHANGED rec
  <2>1. /\ cl' \in Callers /\ cl'.phase = "mac" /\ cl'.mac = <<"buf", b.cur>> /\ cl'.outcome = "none"
        /\ cl'.hdr = cl.hdr /\ cl'.short = cl.short
    <3>1. <<"buf", b.cur>> \in {"none", "rec", "buf"} \X Nat
      BY <1>7
    <3> QED
      BY <1>2, <1>3, <1>11, <3>1 DEF Callers, Stages
  <2>2. IbufTypes' /\ Bounds' /\ ~Running'
    BY <1>1, <1>2, <1>3, <1>4, <1>5, <1>11, <2>1, StopRecording
  <2>3. b.isarmor = "yes"
    <3>1. rec = <<>> /\ (b.isarmor = "no" => b.size <= ProbeLen)
      BY <1>9, <1>11, <1>2 DEF Recorded
    <3>2. Before(buf, b.cur) = got
      BY <1>7, <1>9, <1>11, <3>1
    <3>3. b.cur = cl.hdr
      BY <1>1, <1>7, <3>2
    <3> QED
      BY <1>3, <1>4, <1>7, <3>1, <3>3 DEF Scalars
  <2>4. ~b'.recording /\ b'.alloc = b.alloc /\ b'.recfail = b.recfail /\ b'.isarmor = b.isarmor
    BY <1>5, <1>11
  <2>5. Recorded'
    BY <1>11, <2>1, <2>3, <2>4 DEF Recorded, Reading
  <2>6. Serving'
    BY <1>1, <2>1, <2>2 DEF Serving, AtRest
  <2> QED
    BY <2>1, <2>2, <2>5, <2>6 DEF ReaderInv
<1>12. CASE /\ ~b.recfail /\ b.alloc /\ cl' = [cl EXCEPT !.phase = "mac", !.mac = <<"rec", 0>>]
            /\ RecAppend(b.cur, f)
  <2>1. /\ cl' \in Callers /\ cl'.phase = "mac" /\ cl'.mac = <<"rec", 0>> /\ cl'.outcome = "none"
        /\ cl'.hdr = cl.hdr /\ cl'.short = cl.short
    <3>1. <<"rec", 0>> \in {"none", "rec", "buf"} \X Nat
      OBVIOUS
    <3> QED
      BY <1>2, <1>3, <1>12, <3>1 DEF Callers, Stages
  <2>2. /\ b' \in Scalars /\ b'.cur = b.cur /\ b'.size = b.size /\ b'.acur = b.acur
        /\ b'.isarmor = b.isarmor /\ b'.eof = b.eof /\ ~b'.recording
    <3>1. b' = [f EXCEPT !.alloc = TRUE] \/ b' = [f EXCEPT !.recfail = TRUE]
      BY <1>12 DEF RecAppend
    <3>2. CASE b' = [f EXCEPT !.alloc = TRUE]
      BY <1>5, <3>2 DEF Scalars
    <3>3. CASE b' = [f EXCEPT !.recfail = TRUE]
      BY <1>5, <3>3 DEF Scalars
    <3> QED
      BY <3>1, <3>2, <3>3
  <2>3. b'.recfail \/ rec' = got
    <3>1. CASE rec' = rec \o SubSeq(buf, 1, b.cur)
      BY <1>9, <1>12, <3>1 DEF Before
    <3>2. CASE b' = [f EXCEPT !.recfail = TRUE]
      BY <1>5, <3>2 DEF Scalars
    <3> QED
      BY <1>12, <3>1, <3>2 DEF RecAppend
  <2>4. rec' \in Seq(Char)
    <3>1. CASE rec' = rec \o SubSeq(buf, 1, b.cur)
      BY <1>3, <1>9, <1>12, <3>1 DEF Before
    <3> QED
      BY <1>3, <1>12, <3>1 DEF RecAppend
  <2>5. IbufTypes' /\ Bounds' /\ ~Running'
    BY <1>1, <1>2, <1>4, <2>1, <2>2, <2>4, StopRecording
  <2>6. Before(got, cl.hdr)' = got
    <3>1. got' = got /\ cl'.hdr = cl.hdr
      BY <1>1, <2>1
    <3> QED
      BY <1>8, <3>1 DEF Before
  <2>7. Recorded'
    BY <2>1, <2>2, <2>3, <2>6 DEF Recorded, Reading
  <2>8. Serving'
    BY <1>1, <2>1, <2>5 DEF Serving, AtRest
  <2> QED
    BY <2>1, <2>5, <2>7, <2>8 DEF ReaderInv
<1> QED
  BY <1>10, <1>11, <1>12 DEF RecStop, f

LEMMA GetMacKeeps == ASSUME ReaderInv, GetMac PROVE ReaderInv'
<1>1. ~Running /\ cl.phase = "mac" /\ ~cl.short
  BY DEF GetMac, At
<1>2. Call("bread", MacLen, "check")
  BY DEF GetMac
<1>3. /\ IbufTypes /\ Bounds /\ Recorded /\ op.dest = <<>> /\ cl.outcome = "none" /\ AtRest
      /\ in.mode = "decrypt" /\ cl.phase \in {"chunk", "ateof", "chunkend"} => Len(got) >= cl.hdr
  BY <1>1, Resting
<1>4. MacLen \in Nat /\ MacLen > 0
  BY Parameters
<1>5. /\ op' = [name |-> "bread", want |-> MacLen, dest |-> <<>>, fill |-> 0, aread |-> FALSE]
      /\ UNCHANGED <<in, fpos, b, buf, abuf, rec, got>>
      /\ cl' = [cl EXCEPT !.phase = "check"]
  BY <1>2 DEF Call, Idle
<1>6. /\ cl' \in Callers /\ cl'.phase = "check" /\ cl'.hdr = cl.hdr /\ cl'.short = cl.short
      /\ cl'.outcome = "none" /\ cl'.mac = cl.mac
  BY <1>3, <1>5 DEF IbufTypes, Callers, Stages
<1>7. /\ IbufTypes' /\ Bounds' /\ Running'
      /\ op'.name = "bread" /\ op'.want = MacLen /\ op'.dest = <<>> /\ ~op'.aread
  <2>1. IbufTypes /\ Bounds
    BY <1>3
  <2> QED
    BY <1>1, <1>4, <1>5, <1>6, <2>1, CallKeeps
<1>8. Recorded'
  BY <1>1, <1>3, <1>5, <1>6, <1>7, RecordedKept DEF Reading
<1>9. Serving'
  BY <1>1, <1>3, <1>5, <1>6, <1>7 DEF Serving, Called, AtRest
<1> QED
  BY <1>6, <1>7, <1>8, <1>9 DEF ReaderInv

LEMMA GetNonceKeeps == ASSUME ReaderInv, GetNonce PROVE ReaderInv'
<1>1. ~Running /\ cl.phase = "nonce" /\ ~cl.short
  BY DEF GetNonce, At
<1>2. Call("bread", NonceLen, "nonceread")
  BY DEF GetNonce
<1>3. /\ IbufTypes /\ Bounds /\ Recorded /\ op.dest = <<>> /\ cl.outcome = "none" /\ AtRest
      /\ in.mode = "decrypt" /\ cl.phase \in {"chunk", "ateof", "chunkend"} => Len(got) >= cl.hdr
  BY <1>1, Resting
<1>4. NonceLen \in Nat /\ NonceLen > 0
  BY Parameters
<1>5. /\ op' = [name |-> "bread", want |-> NonceLen, dest |-> <<>>, fill |-> 0, aread |-> FALSE]
      /\ UNCHANGED <<in, fpos, b, buf, abuf, rec, got>>
      /\ cl' = [cl EXCEPT !.phase = "nonceread"]
  BY <1>2 DEF Call, Idle
<1>6. /\ cl' \in Callers /\ cl'.phase = "nonceread" /\ cl'.hdr = cl.hdr /\ cl'.short = cl.short
      /\ cl'.outcome = "none" /\ cl'.mac = cl.mac
  BY <1>3, <1>5 DEF IbufTypes, Callers, Stages
<1>7. /\ IbufTypes' /\ Bounds' /\ Running'
      /\ op'.name = "bread" /\ op'.want = NonceLen /\ op'.dest = <<>> /\ ~op'.aread
  <2>1. IbufTypes /\ Bounds
    BY <1>3
  <2> QED
    BY <1>1, <1>4, <1>5, <1>6, <2>1, CallKeeps
<1>8. Recorded'
  BY <1>1, <1>3, <1>5, <1>6, <1>7, RecordedKept DEF Reading
<1>9. Serving'
  BY <1>1, <1>3, <1>5, <1>6, <1>7 DEF Serving, Called, AtRest
<1> QED
  BY <1>6, <1>7, <1>8, <1>9 DEF ReaderInv

LEMMA ReadChunkKeeps == ASSUME ReaderInv, ReadChunk PROVE ReaderInv'
<1>1. ~Running /\ cl.phase = "chunk" /\ ~cl.short
  BY DEF ReadChunk, At
<1>2. Call("bread", Chunk, "ateof")
  BY DEF ReadChunk
<1>3. /\ IbufTypes /\ Bounds /\ Recorded /\ op.dest = <<>> /\ cl.outcome = "none" /\ AtRest
      /\ in.mode = "decrypt" /\ cl.phase \in {"chunk", "ateof", "chunkend"} => Len(got) >= cl.hdr
  BY <1>1, Resting
<1>4. Chunk \in Nat /\ Chunk > 0
  BY Parameters
<1>5. /\ op' = [name |-> "bread", want |-> Chunk, dest |-> <<>>, fill |-> 0, aread |-> FALSE]
      /\ UNCHANGED <<in, fpos, b, buf, abuf, rec, got>>
      /\ cl' = [cl EXCEPT !.phase = "ateof"]
  BY <1>2 DEF Call, Idle
<1>6. /\ cl' \in Callers /\ cl'.phase = "ateof" /\ cl'.hdr = cl.hdr /\ cl'.short = cl.short
      /\ cl'.outcome = "none" /\ cl'.mac = cl.mac
  BY <1>3, <1>5 DEF IbufTypes, Callers, Stages
<1>7. /\ IbufTypes' /\ Bounds' /\ Running'
      /\ op'.name = "bread" /\ op'.want = Chunk /\ op'.dest = <<>> /\ ~op'.aread
  <2>1. IbufTypes /\ Bounds
    BY <1>3
  <2> QED
    BY <1>1, <1>4, <1>5, <1>6, <2>1, CallKeeps
<1>8. Recorded'
  BY <1>1, <1>3, <1>5, <1>6, <1>7, RecordedKept DEF Reading
<1>9. Serving'
  BY <1>1, <1>3, <1>5, <1>6, <1>7 DEF Serving, Called, AtRest
<1> QED
  BY <1>6, <1>7, <1>8, <1>9 DEF ReaderInv

LEMMA AtEofKeeps == ASSUME ReaderInv, AtEof PROVE ReaderInv'
<1>1. /\ ~Running /\ cl.phase = "ateof" /\ cl' = [cl EXCEPT !.phase = "chunkend", !.short = FALSE]
      /\ op' = [name |-> "bpeek", want |-> 0, dest |-> <<>>, fill |-> 0, aread |-> FALSE]
      /\ UNCHANGED <<in, fpos, b, buf, abuf, rec, got>>
  BY DEF AtEof, Idle
<1>2. /\ IbufTypes /\ Bounds /\ Recorded /\ op.dest = <<>> /\ cl.outcome = "none"
      /\ in.mode = "decrypt" /\ cl.phase \in {"chunk", "ateof", "chunkend"} => Len(got) >= cl.hdr
  BY <1>1, Resting
<1>3. /\ cl' \in Callers /\ cl'.phase = "chunkend" /\ cl'.hdr = cl.hdr /\ ~cl'.short
      /\ cl'.outcome = "none"
  BY <1>1, <1>2 DEF IbufTypes, Callers, Stages
<1>4. /\ IbufTypes' /\ Bounds' /\ Running'
      /\ op'.name = "bpeek" /\ op'.want = 0 /\ op'.dest = <<>> /\ ~op'.aread
  BY <1>1, <1>2, <1>3, CallKeeps
<1>5. Recorded'
  BY <1>1, <1>2, <1>3, <1>4, RecordedKept DEF Reading
<1>6. Serving'
  BY <1>1, <1>2, <1>3, <1>4 DEF Serving, Called
<1> QED
  BY <1>3, <1>4, <1>5, <1>6 DEF ReaderInv

LEMMA MoreChunksKeeps == ASSUME ReaderInv, MoreChunks PROVE ReaderInv'
<1>1. /\ ~Running /\ cl.phase = "chunkend" /\ ~cl.short /\ cl' = [cl EXCEPT !.phase = "chunk"]
      /\ UNCHANGED <<in, fpos, b, buf, abuf, rec, op, got>>
  BY DEF MoreChunks, At
<1>2. /\ IbufTypes /\ Bounds /\ Recorded /\ cl.outcome = "none"
      /\ in.mode = "decrypt" /\ cl.phase \in {"chunk", "ateof", "chunkend"} => Len(got) >= cl.hdr
  BY <1>1, Resting
<1>3. /\ cl' \in Callers /\ cl'.phase = "chunk" /\ cl'.hdr = cl.hdr /\ ~cl'.short
      /\ cl'.outcome = "none"
  BY <1>1, <1>2 DEF IbufTypes, Callers, Stages
<1>4. IbufTypes' /\ Bounds' /\ ~Running' /\ op'.dest = op.dest
  BY <1>1, <1>2, <1>3, RestKeeps
<1>5. Recorded'
  BY <1>1, <1>2, <1>3, <1>4, RecordedKept DEF Reading
<1>6. Serving'
  BY <1>1, <1>2, <1>3, <1>4 DEF Serving, AtRest
<1> QED
  BY <1>3, <1>4, <1>5, <1>6 DEF ReaderInv

LEMMA NonceReadKeeps == ASSUME ReaderInv, NonceRead PROVE ReaderInv'
<1>1. /\ ~Running /\ cl.phase = "nonceread" /\ UNCHANGED <<in, fpos, b, buf, abuf, rec, op, got>>
  BY DEF NonceRead
<1>2. CASE cl.short
  <2>1. Stop("badheader") /\ "badheader" \in Outcomes \ {"none", "badmac", "overread"}
    BY <1>2 DEF NonceRead, Outcomes
  <2> QED
    BY <1>1, <2>1, StopKeeps
<1>3. CASE ~cl.short
  <2>1. cl' = [cl EXCEPT !.phase = "chunk"]
    BY <1>3 DEF NonceRead
  <2>2. IbufTypes /\ Bounds /\ Recorded /\ cl.outcome = "none" /\ AtRest
    BY <1>1, Resting
  <2>3. /\ cl' \in Callers /\ cl'.phase = "chunk" /\ cl'.hdr = cl.hdr /\ ~cl'.short
        /\ cl'.outcome = "none"
    BY <1>3, <2>1, <2>2 DEF IbufTypes, Callers, Stages
  <2>4. IbufTypes' /\ Bounds' /\ ~Running' /\ op'.dest = op.dest
    BY <1>1, <2>2, <2>3, RestKeeps
  <2>5. Recorded'
    BY <1>1, <2>2, <2>3, <2>4, RecordedKept DEF Reading
  <2>6. Serving'
    BY <1>1, <1>3, <2>2, <2>3, <2>4 DEF Serving, AtRest
  <2> QED
    BY <2>3, <2>4, <2>5, <2>6 DEF ReaderInv
<1> QED
  BY <1>2, <1>3

LEMMA CheckMacKeeps == ASSUME ReaderInv, CheckMac PROVE ReaderInv'
<1>1. /\ ~Running /\ cl.phase = "check" /\ ~cl.short
      /\ UNCHANGED <<in, fpos, b, buf, abuf, rec, op, got>>
  BY DEF CheckMac, At
<1>2. IbufTypes /\ Bounds /\ Recorded /\ cl.outcome = "none" /\ AtRest
  BY <1>1, Resting
<1>3. CASE MacData = SubSeq(got, 1, cl.hdr) /\ ~Stale
  <2>1. cl' = [cl EXCEPT !.phase = "nonce"]
    BY <1>3 DEF CheckMac
  <2>2. /\ cl' \in Callers /\ cl'.phase = "nonce" /\ cl'.hdr = cl.hdr /\ ~cl'.short
        /\ cl'.outcome = "none"
    BY <1>1, <1>2, <2>1 DEF IbufTypes, Callers, Stages
  <2>3. IbufTypes' /\ Bounds' /\ ~Running' /\ op'.dest = op.dest
    BY <1>1, <1>2, <2>2, RestKeeps
  <2>4. Recorded'
    BY <1>1, <1>2, <2>2, <2>3, RecordedKept DEF Reading
  <2>5. Serving'
    BY <1>1, <1>2, <2>2, <2>3 DEF Serving, AtRest
  <2> QED
    BY <2>2, <2>3, <2>4, <2>5 DEF ReaderInv
<1>4. CASE ~(MacData = SubSeq(got, 1, cl.hdr) /\ ~Stale)
  <2>1. Stop("badmac")
    BY <1>4 DEF CheckMac
  <2>2. cl' \in Callers /\ cl'.phase = "stop" /\ cl'.outcome = "badmac"
    BY <1>2, <2>1 DEF Stop, IbufTypes, Callers, Stages, Outcomes
  <2>3. IbufTypes' /\ Bounds'
    BY <1>1, <1>2, <2>2, RestKeeps
  <2>4. b.recfail \/ (b.isarmor = "yes" /\ ~b.alloc) \/ Stale
    BY <1>1, <1>2, <1>4 DEF Recorded, MacData, Before
  <2>5. Stale => Stale'
    BY <1>1 DEF Stale
  <2> QED
    BY <1>1, <2>2, <2>3, <2>4, <2>5 DEF ReaderInv, MacCoversHeader
<1> QED
  BY <1>3, <1>4

LEMMA CallerStepKeeps == ASSUME ReaderInv, CallerStep PROVE ReaderInv'
  BY HeaderReadKeeps, HeaderPeekKeeps, ReadPeekedKeeps, PeekedReadKeeps, HeaderEndsKeeps,
     RecStopKeeps, GetMacKeeps, CheckMacKeeps, GetNonceKeeps, NonceReadKeeps, ReadChunkKeeps,
     AtEofKeeps, MoreChunksKeeps, LastChunkKeeps DEF CallerStep

-----------------------------------------------------------------------------
(* The steps of bread, bpeek and aread: what a return leaves. *)

LEMMA Numbers ==
    ASSUME IbufTypes
    PROVE  /\ b.cur \in Nat /\ b.size \in Nat /\ b.acur \in Nat /\ op.want \in Nat /\ op.fill \in Nat
           /\ fpos \in Nat /\ cl.hdr \in Nat /\ in.n \in Nat /\ in.file \in Seq(Char)
           /\ op.dest \in Seq(Char) /\ Len(op.dest) \in Nat /\ Len(buf) \in Nat /\ Len(abuf) \in Nat
           /\ Len(got) \in Nat /\ Len(rec) \in Nat /\ Len(in.file) \in Nat
           /\ BlockLen \in Nat \ {0} /\ BufSize \in Nat \ {0} /\ ProbeLen \in Nat \ {0}
<1>1. /\ b.cur \in Nat /\ b.size \in Nat /\ b.acur \in Nat /\ op.want \in Nat /\ op.fill \in Nat
      /\ fpos \in Nat /\ cl.hdr \in Nat /\ in.n \in Nat /\ in.file \in Seq(Char)
      /\ op.dest \in Seq(Char)
  BY DEF IbufTypes, Scalars, Operations, Callers, HeaderEnd, Inputs
<1>2. BlockLen \in Nat \ {0}
  <2> DEFINE x == BlockLines - 1
             y == x * W
  <2>1. BlockLines \in Nat \ {0} /\ W \in Nat \ {0} /\ BlockLen = BlockLines * W
    BY Lengths DEF BlockLen, W
  <2>2. x \in Nat /\ BlockLines = x + 1
    BY <2>1
  <2> HIDE DEF x
  <2>3. y \in Nat /\ (x + 1) * W = y + W
    BY <2>1, <2>2, Multiples
  <2> HIDE DEF y
  <2> QED
    BY <2>1, <2>2, <2>3
<1> QED
  BY <1>1, <1>2, Parameters, Lengths, LenProperties DEF IbufTypes

LEMMA InCall ==
    ASSUME ReaderInv, Running
    PROVE  /\ cl.phase # "stop" /\ cl.outcome = "none" /\ IbufTypes /\ Bounds /\ Called /\ Recorded
           /\ Serving /\ op.name \in {"bread", "bpeek"}
<1>1. IbufTypes /\ Bounds /\ cl.phase # "stop" /\ cl.outcome = "none"
  BY DEF ReaderInv, Bounds
<1> QED
  BY <1>1 DEF ReaderInv, Serving, Running, IbufTypes, Operations

LEMMA BreadLeaves ==
    ASSUME IbufTypes, Serving, cl.phase # "stop", op.name = "bread", in' = in,
           NEW d \in Seq(Char), Len(d) <= op.want, BreadReturns(d),
           Len(d) < op.want => b'.eof /\ b'.cur = b'.size /\ cl.phase # "peekedread"
    PROVE  /\ cl' \in Callers /\ cl'.phase = cl.phase /\ cl'.hdr = cl.hdr /\ cl'.mac = cl.mac
           /\ cl'.outcome = cl.outcome
           /\ op' = Idle /\ op' \in Operations /\ op'.dest = <<>> /\ ~Running'
           /\ got' = got \o d /\ got' \in Seq(Char) /\ Serving'
<1> DEFINE sh == Len(d) < op.want
<1>1. op' = Idle /\ got' = got \o d /\ cl' = [cl EXCEPT !.short = sh]
  BY DEF BreadReturns
<1>0. sh \in BOOLEAN /\ (sh => Len(d) < op.want) /\ (~sh => ~(Len(d) < op.want))
  OBVIOUS
<1> HIDE DEF sh
<1>2. op' \in Operations /\ op'.dest = <<>> /\ op'.name = "idle" /\ ~Running'
  BY <1>1, NullLen DEF Idle, Operations, Running
<1>3. /\ cl' \in Callers /\ cl'.phase = cl.phase /\ cl'.hdr = cl.hdr /\ cl'.mac = cl.mac
      /\ cl'.outcome = cl.outcome /\ cl'.eof = cl.eof /\ cl'.short = sh
  <2>1. cl' = [cl EXCEPT !.short = sh] /\ cl \in Callers
    BY <1>1 DEF IbufTypes
  <2>2. sh \in BOOLEAN
    BY <1>0
  <2> QED
    BY <2>1, <2>2 DEF Callers
<1>4. /\ got \in Seq(Char) /\ Len(got) \in Nat /\ Len(d) \in Nat /\ op.want \in Nat /\ cl.hdr \in Nat
      /\ MacLen \in Nat /\ NonceLen \in Nat /\ Chunk \in Nat
  BY Numbers, Parameters, LenProperties DEF IbufTypes
<1>5. got' \in Seq(Char) /\ Len(got') = Len(got) + Len(d)
  BY <1>1, <1>4, ConcatProperties
<1>6. /\ \/ cl.phase = "header" /\ Len(got) + op.want <= cl.hdr
         \/ cl.phase = "peekedread" /\ Len(got) + op.want <= cl.hdr
         \/ cl.phase = "check" /\ Len(got) = cl.hdr /\ op.want = MacLen
         \/ cl.phase = "nonceread" /\ Len(got) = cl.hdr + MacLen /\ op.want = NonceLen
         \/ cl.phase = "ateof" /\ op.want = Chunk
  BY DEF Serving, Called, Running
<1>7. AtRest'
  <2>1. sh => b'.eof /\ b'.cur = b'.size /\ cl.phase # "peekedread"
    BY <1>0
  <2>2. ~sh => Len(d) = op.want
    <3>1. \A m, k \in Nat : m <= k /\ ~(m < k) => m = k
      OBVIOUS
    <3> QED
      BY <1>0, <1>4, <3>1
  <2>3. sh => Len(d) < op.want
    BY <1>0
  <2>4. CASE cl.phase = "header" /\ Len(got) + op.want <= cl.hdr
    BY <1>3, <1>4, <1>5, <2>1, <2>2, <2>3, <2>4 DEF AtRest
  <2>5. CASE cl.phase = "peekedread" /\ Len(got) + op.want <= cl.hdr
    BY <1>3, <1>4, <1>5, <2>1, <2>2, <2>3, <2>5 DEF AtRest
  <2>6. CASE cl.phase = "check" /\ Len(got) = cl.hdr /\ op.want = MacLen
    BY <1>3, <1>4, <1>5, <2>1, <2>2, <2>3, <2>6 DEF AtRest
  <2>7. CASE cl.phase = "nonceread" /\ Len(got) = cl.hdr + MacLen /\ op.want = NonceLen
    BY <1>3, <1>4, <1>5, <2>1, <2>2, <2>3, <2>7 DEF AtRest
  <2>8. CASE cl.phase = "ateof" /\ op.want = Chunk
    BY <1>3, <1>4, <1>5, <2>1, <2>2, <2>3, <2>8 DEF AtRest
  <2> QED
    BY <1>6, <2>4, <2>5, <2>6, <2>7, <2>8
<1>8. in.mode = "decrypt" /\ cl.phase \in {"chunk", "ateof", "chunkend"} => Len(got') >= cl.hdr
  BY <1>4, <1>5 DEF Serving
<1>9. Serving'
  BY <1>2, <1>3, <1>7, <1>8 DEF Serving
<1> QED
  BY <1>1, <1>2, <1>3, <1>5, <1>9

LEMMA BpeekLeaves ==
    ASSUME IbufTypes, Serving, cl.phase # "stop", op.name = "bpeek", in' = in,
           NEW end \in BOOLEAN, BpeekReturns(end),
           end => b'.eof /\ b'.cur = b'.size, ~end => b'.cur < b'.size
    PROVE  /\ cl' \in Callers /\ cl'.phase = cl.phase /\ cl'.hdr = cl.hdr /\ cl'.mac = cl.mac
           /\ cl'.outcome = cl.outcome
           /\ op' = Idle /\ op' \in Operations /\ op'.dest = <<>> /\ ~Running'
           /\ got' = got /\ Serving'
<1>1. op' = Idle /\ got' = got /\ cl' = [cl EXCEPT !.eof = end]
  BY DEF BpeekReturns
<1>2. op' \in Operations /\ op'.dest = <<>> /\ op'.name = "idle" /\ ~Running'
  BY <1>1, NullLen DEF Idle, Operations, Running
<1>3. /\ cl' \in Callers /\ cl'.phase = cl.phase /\ cl'.hdr = cl.hdr /\ cl'.mac = cl.mac
      /\ cl'.outcome = cl.outcome /\ cl'.eof = end /\ cl'.short = cl.short
  BY <1>1 DEF IbufTypes, Callers
<1>4. ~cl.short /\ ((cl.phase = "peeked" /\ Len(got) < cl.hdr) \/ cl.phase = "chunkend")
  BY DEF Serving, Called, Running
<1>5. AtRest'
  BY <1>1, <1>3, <1>4 DEF AtRest
<1>6. Serving'
  BY <1>1, <1>2, <1>3, <1>5 DEF Serving
<1> QED
  BY <1>1, <1>2, <1>3, <1>6

\* What the caller's record of the header needs of a step.
LEMMA RecordKeeps ==
    ASSUME IbufTypes, Recorded, Called, Running, in' = in, got' \in Seq(Char),
           b'.recording = b.recording, cl'.phase = cl.phase, cl'.mac = cl.mac, cl'.hdr = cl.hdr,
           b.recording /\ ~b'.recfail =>
              /\ rec' \o Before(buf', b'.cur) = got' \o op'.dest
              /\ ~b'.alloc => rec' = <<>>
              /\ ~b'.alloc /\ b'.isarmor = "no" => b'.size <= ProbeLen /\ (b'.size = 0 => b'.eof),
           ~b.recording => /\ rec' = rec /\ b'.alloc = b.alloc /\ b'.recfail = b.recfail
                           /\ b.isarmor = "yes" => b'.isarmor = "yes",
           got' = got \/ (\E d \in Seq(Char) : got' = got \o d)
    PROVE  Recorded'
<1>1. /\ b'.recording => in'.mode = "decrypt"
      /\ b'.recording <=> cl'.phase \in Reading
  BY DEF Recorded
<1>2. b'.recording /\ ~b'.recfail =>
          /\ (rec \o Before(buf, b.cur))' = (got \o op.dest)'
          /\ ~b'.alloc => rec' = <<>>
          /\ ~b'.alloc /\ b'.isarmor = "no" => b'.size <= ProbeLen /\ (b'.size = 0 => b'.eof)
  BY DEF Before
<1>3. ASSUME cl.phase \in {"mac", "check"}, ~b'.recfail
      PROVE  /\ cl'.mac[1] \in {"rec", "buf"}
             /\ cl'.mac[1] = "rec" => rec' = Before(got', cl'.hdr)
             /\ cl'.mac[1] = "buf" => b'.isarmor = "yes" /\ ~b'.alloc
  <2>1. ~b.recording
    BY <1>3 DEF Recorded, Reading
  <2>2. /\ cl.mac[1] \in {"rec", "buf"}
        /\ cl.mac[1] = "rec" => rec = Before(got, cl.hdr)
        /\ cl.mac[1] = "buf" => b.isarmor = "yes" /\ ~b.alloc
    BY <1>3, <2>1 DEF Recorded
  <2>3. Len(got) = cl.hdr
    BY <1>3 DEF Called, Running, IbufTypes, Operations
  <2>4. got \in Seq(Char) /\ Len(got) \in Nat
    BY LenProperties DEF IbufTypes
  <2>5. Before(got', cl.hdr) = Before(got, cl.hdr)
    <3>1. CASE got' = got
      BY <3>1
    <3>2. CASE got' # got
      <4>1. PICK d \in Seq(Char) : got' = got \o d
        BY <3>2
      <4> DEFINE h == Len(got)
                 z == got \o d
                 n == Len(d)
      <4>2. /\ z \in Seq(Char) /\ Len(z) = h + n /\ h \in Nat /\ n \in Nat
            /\ \A i \in 1..(h + n) : z[i] = IF i <= h THEN got[i] ELSE d[i - h]
        BY <2>4, Glue
      <4> HIDE DEF h, z, n
      <4>3. h \in 0..Len(z) /\ h \in 0..Len(got)
        BY <4>2 DEF h
      <4>4. /\ Before(z, h) \in Seq(Char) /\ Len(Before(z, h)) = h
            /\ \A i \in 1..h : Before(z, h)[i] = z[i]
        BY <4>2, <4>3, Cut
      <4>5. /\ Before(got, h) \in Seq(Char) /\ Len(Before(got, h)) = h
            /\ \A i \in 1..h : Before(got, h)[i] = got[i]
        BY <2>4, <4>3, Cut
      <4>6. \A i \in 1..h : z[i] = got[i]
        BY <4>2
      <4>7. Before(z, h) = Before(got, h)
        BY <4>4, <4>5, <4>6, Same
      <4> QED
        BY <2>3, <4>1, <4>7 DEF z, h
    <3> QED
      BY <3>1, <3>2
  <2> QED
    BY <2>1, <2>2, <2>5
<1> QED
  BY <1>1, <1>2, <1>3 DEF Recorded, Before

-----------------------------------------------------------------------------
(* The steps of bread, bpeek and aread, one by one. *)

\* The operation gives up.
LEMMA ErrorKeeps ==
    ASSUME ReaderInv, Running, in' = in, fpos' \in Nat, fpos' <= Len(in.file),
           b' \in Scalars, b'.cur <= b'.size, Filled',
           abuf' \in Seq(Char), b'.acur <= Len(abuf'), Len(abuf') <= BlockLen,
           UNCHANGED <<buf, rec, got>>, op' = Idle,
           b'.isarmor = "unchecked" => UNCHANGED <<fpos, b, abuf>>,
           NEW o \in Outcomes \ {"none", "badmac"}, Stop(o), o = "overread" => Stale'
    PROVE  ReaderInv'
<1>1. IbufTypes /\ Bounds
  BY InCall
<1>2. op'.name = "idle" /\ op'.fill = 0 /\ ~op'.aread /\ op'.dest = <<>> /\ op' \in Operations /\ ~Running'
  BY NullLen DEF Idle, Operations, Running
<1>3. cl' \in Callers /\ cl'.phase = "stop" /\ cl'.outcome = o
  BY <1>1 DEF Stop, IbufTypes, Callers, Stages
<1>4. IbufTypes'
  BY <1>1, <1>2, <1>3 DEF IbufTypes
<1>5. b'.isarmor = "unchecked" => Blank'
  BY <1>1, <1>2 DEF Bounds, Blank
<1>6. BlockLen' = BlockLen /\ Idle' = Idle /\ BufSize \in Nat
  BY Lengths DEF BlockLen, Idle
<1>7. Bounds'
  BY <1>1, <1>2, <1>3, <1>5, <1>6 DEF Bounds
<1> QED
  BY <1>3, <1>4, <1>7 DEF ReaderInv, MacCoversHeader

LEMMA ReadFailsKeeps == ASSUME ReaderInv, ReadFails PROVE ReaderInv'
<1>1. Running
  BY DEF ReadFails, Empty, Checked, ReaderInv, Bounds
<1>2. "ioerror" \in Outcomes \ {"none", "badmac"}
  BY DEF Outcomes
<1>3. IbufTypes /\ Bounds
  BY <1>1, InCall
<1>4. op' = Idle /\ UNCHANGED <<in, fpos, b, buf, abuf, rec, got>> /\ Stop("ioerror")
  BY DEF ReadFails
<1>5. /\ fpos \in Nat /\ fpos <= Len(in.file) /\ b \in Scalars /\ b.cur <= b.size
      /\ abuf \in Seq(Char) /\ b.acur <= Len(abuf) /\ Len(abuf) <= BlockLen
  BY <1>3 DEF IbufTypes, Bounds
<1>6. Filled'
  BY <1>3, <1>4, FilledKept DEF Bounds
<1> QED
  BY <1>1, <1>2, <1>4, <1>5, <1>6, ErrorKeeps

LEMMA LeastIs ==
    ASSUME NEW x \in Nat, NEW y \in Nat
    PROVE  Least(x, y) \in Nat /\ Least(x, y) <= x /\ Least(x, y) <= y /\ Least(x, y) \in {x, y}
  BY DEF Least

\* What one read() brings.
LEMMA TextIs ==
    ASSUME IbufTypes, fpos <= Len(in.file), NEW k \in Nat, k <= Rest
    PROVE  /\ Rest \in Nat /\ Text(k) \in Seq(Char) /\ Len(Text(k)) = k
           /\ fpos + k \in Nat /\ fpos + k <= Len(in.file)
<1>1. in.file \in Seq(Char) /\ fpos \in Nat /\ Len(in.file) \in Nat
  BY Numbers
<1> DEFINE j == fpos + k
<1>2. j \in Nat /\ fpos <= j /\ j <= Len(in.file) /\ j - fpos = k /\ Rest \in Nat
  BY <1>1 DEF Rest
<1> HIDE DEF j
<1>3. SubSeq(in.file, fpos + 1, j) \in Seq(Char) /\ Len(SubSeq(in.file, fpos + 1, j)) = j - fpos
  BY <1>1, <1>2, Slice
<1> QED
  BY <1>2, <1>3 DEF Text, j

LEMMA ProbeKeeps == ASSUME ReaderInv, Probe PROVE ReaderInv'
<1> DEFINE k == Least(ProbeLen, Rest)
           yes == Text(k) = BeginLine
<1>1. /\ Running /\ b.isarmor = "unchecked" /\ buf' = Text(k) /\ fpos' = fpos + k
      /\ b' = [b EXCEPT !.isarmor = IF yes THEN "yes" ELSE "no",
                        !.size = IF yes THEN 0 ELSE k, !.eof = k < ProbeLen]
      /\ UNCHANGED <<in, abuf, rec, op, got, cl>>
  BY DEF Probe
<1>2. /\ cl.phase # "stop" /\ cl.outcome = "none" /\ IbufTypes /\ Bounds /\ Called /\ Recorded
      /\ Serving /\ op.name \in {"bread", "bpeek"}
  BY <1>1, InCall
<1>3. Blank
  BY <1>1, <1>2 DEF Bounds
<1>4. k \in Nat /\ k <= ProbeLen /\ k <= Rest /\ ProbeLen \in Nat /\ ProbeLen < BufSize /\ BufSize \in Nat
  <2>1. fpos = 0 /\ Len(in.file) \in Nat /\ ProbeLen \in Nat
    BY <1>2, <1>3, Numbers DEF Blank
  <2>2. Rest \in Nat
    BY <2>1 DEF Rest
  <2> QED
    BY <2>1, <2>2, LeastIs, Lengths
<1>5. /\ Text(k) \in Seq(Char) /\ Len(Text(k)) = k /\ fpos + k \in Nat /\ fpos + k <= Len(in.file)
  BY <1>2, <1>4, TextIs DEF Bounds
<1>6. PICK e \in BOOLEAN : (e <=> k < ProbeLen) /\ b'.eof = e
      /\ b' \in Scalars /\ b'.isarmor \in {"yes", "no"} /\ b'.size \in {0, k}
      /\ b'.cur = 0 /\ b'.acur = 0 /\ b'.recording = b.recording /\ b'.alloc = b.alloc
      /\ b'.recfail = b.recfail /\ (b'.isarmor = "no" => b'.size = k)
  <2> DEFINE e == k < ProbeLen
             a == IF yes THEN "yes" ELSE "no"
             s == IF yes THEN 0 ELSE k
  <2>1. e \in BOOLEAN /\ a \in {"yes", "no"} /\ s \in {0, k} /\ s \in Nat /\ (a = "no" => s = k)
    BY <1>4
  <2>2. b' = [b EXCEPT !.isarmor = a, !.size = s, !.eof = e]
    BY <1>1
  <2>3. b \in Scalars /\ b.cur = 0 /\ b.acur = 0
    BY <1>2, <1>3 DEF IbufTypes, Blank
  <2>4. e <=> k < ProbeLen
    OBVIOUS
  <2> HIDE DEF e, a, s
  <2>5. b' \in Scalars /\ b'.isarmor = a /\ b'.size = s /\ b'.eof = e
      /\ b'.cur = 0 /\ b'.acur = 0 /\ b'.recording = b.recording /\ b'.alloc = b.alloc
      /\ b'.recfail = b.recfail
    BY <2>1, <2>2, <2>3 DEF Scalars
  <2> QED
    BY <2>1, <2>4, <2>5
<1> HIDE DEF k, yes
<1>7. IbufTypes'
  BY <1>1, <1>2, <1>5, <1>6 DEF IbufTypes
<1>8. Running' /\ BlockLen' = BlockLen /\ Idle' = Idle
  BY <1>1 DEF Running, BlockLen, Idle
<1>9. Len(abuf) \in Nat /\ ~op.aread /\ op.dest = <<>> /\ got = <<>> /\ rec = <<>> /\ abuf = <<>>
  BY <1>2, <1>3, Numbers DEF Blank
<1>14. Filled'
  <2>1. b'.cur \in Nat /\ b'.size \in Nat /\ b'.cur <= b'.size /\ b'.size <= k /\ k <= BufSize
    BY <1>4, <1>6
  <2>2. Len(buf') = k
    BY <1>1, <1>5
  <2> QED
    BY <1>4, <2>1, <2>2, FilledTo
<1>10. Bounds'
  BY <1>1, <1>2, <1>4, <1>5, <1>6, <1>8, <1>9, <1>14 DEF Bounds
<1>11. Called'
  BY <1>1, <1>2 DEF Called
<1>12. Serving'
  BY <1>1, <1>2, <1>8, <1>11 DEF Serving
<1>13. Recorded'
  <2>1. Before(buf', b'.cur) = <<>>
    BY <1>6, SubSeqEmpty DEF Before
  <2>2. rec' \o Before(buf', b'.cur) = got' \o op'.dest
    BY <1>1, <1>9, <2>1
  <2>3. b'.isarmor = "no" => b'.size <= ProbeLen /\ (b'.size = 0 => b'.eof)
    BY <1>4, <1>6, Lengths
  <2>4. got' = got /\ rec' = rec /\ got' \in Seq(Char) /\ rec' = <<>>
    BY <1>1, <1>9, NullLen
  <2>5. UNCHANGED <<in, cl>> /\ b.isarmor # "yes"
    BY <1>1
  <2> QED
    BY <1>1, <1>2, <1>6, <2>2, <2>3, <2>4, <2>5, RecordKeeps
<1> QED
  BY <1>1, <1>2, <1>7, <1>10, <1>12, <1>13 DEF ReaderInv

\* A return at the end of the input, from either operation.
LEMMA EndLeaves ==
    ASSUME ReaderInv, Running, in' = in, ReturnsAtEnd, b'.eof, b'.cur = b'.size,
           b.cur < b.size => op.aread
    PROVE  /\ cl' \in Callers /\ cl'.phase = cl.phase /\ cl'.hdr = cl.hdr /\ cl'.mac = cl.mac
           /\ cl'.outcome = cl.outcome
           /\ op' = Idle /\ op' \in Operations /\ op'.dest = <<>> /\ ~Running'
           /\ got' = got \o op.dest /\ got' \in Seq(Char) /\ op.dest \in Seq(Char) /\ Serving'
<1>1. /\ cl.phase # "stop" /\ IbufTypes /\ Bounds /\ Called /\ Serving
      /\ op.name \in {"bread", "bpeek"}
  BY InCall
<1>2. op.dest \in Seq(Char) /\ Len(op.dest) \in Nat /\ op.want \in Nat /\ got \in Seq(Char)
  BY <1>1, Numbers DEF IbufTypes
<1>3. CASE op.name = "bread"
  <2> DEFINE d == op.dest
  <2>1. BreadReturns(d)
    BY <1>3 DEF ReturnsAtEnd
  <2>2. Len(d) <= op.want
    BY <1>1, <1>2, <1>3 DEF Bounds
  <2>3. cl.phase # "peekedread"
    BY <1>1, <1>3 DEF Called
  <2>4. d \in Seq(Char)
    BY <1>2
  <2> HIDE DEF d
  <2>5. /\ cl' \in Callers /\ cl'.phase = cl.phase /\ cl'.hdr = cl.hdr /\ cl'.mac = cl.mac
        /\ cl'.outcome = cl.outcome
        /\ op' = Idle /\ op' \in Operations /\ op'.dest = <<>> /\ ~Running'
        /\ got' = got \o d /\ got' \in Seq(Char) /\ Serving'
    BY <1>1, <1>3, <2>1, <2>2, <2>3, <2>4, BreadLeaves
  <2> QED
    BY <1>2, <2>5 DEF d
<1>4. CASE op.name = "bpeek"
  <2>1. BpeekReturns(TRUE)
    BY <1>4 DEF ReturnsAtEnd
  <2>2. op.dest = <<>> /\ got \o <<>> = got
    BY <1>1, <1>2, <1>4 DEF Bounds
  <2>3. /\ cl' \in Callers /\ cl'.phase = cl.phase /\ cl'.hdr = cl.hdr /\ cl'.mac = cl.mac
        /\ cl'.outcome = cl.outcome
        /\ op' = Idle /\ op' \in Operations /\ op'.dest = <<>> /\ ~Running'
        /\ got' = got /\ Serving'
    BY <1>1, <1>4, <2>1, BpeekLeaves
  <2> QED
    BY <1>2, <2>2, <2>3
<1> QED
  BY <1>1, <1>3, <1>4

\* An operation that returns leaves the buffer's cursors where they may be.
LEMMA IdleBounds ==
    ASSUME IbufTypes, fpos' \in Nat, fpos' <= Len(in.file), in' = in,
           b' \in Scalars, b'.cur <= b'.size, Filled', Len(buf') <= BufSize,
           buf' \in Seq(Char), abuf' \in Seq(Char), b'.acur <= Len(abuf'), Len(abuf') <= BlockLen,
           rec' \in Seq(Char), got' \in Seq(Char), cl' \in Callers,
           op' = Idle, b'.isarmor # "unchecked", cl'.phase # "stop", cl'.outcome = "none"
    PROVE  IbufTypes' /\ Bounds'
<1>1. op'.name = "idle" /\ op'.fill = 0 /\ ~op'.aread /\ op'.dest = <<>> /\ op' \in Operations /\ ~Running'
  BY NullLen DEF Idle, Operations, Running
<1>2. IbufTypes'
  BY <1>1 DEF IbufTypes
<1>3. BlockLen' = BlockLen /\ Idle' = Idle /\ BufSize \in Nat
  BY Lengths DEF BlockLen, Idle
<1>4. Bounds'
  BY <1>1, <1>3 DEF Bounds
<1> QED
  BY <1>2, <1>4

\* An operation goes on.
LEMMA GoesOn ==
    ASSUME ReaderInv, Running, fpos' \in Nat, fpos' <= Len(in.file), in' = in,
           b' \in Scalars, b'.cur <= b'.size, Filled', Len(buf') <= BufSize,
           buf' \in Seq(Char), abuf' \in Seq(Char), b'.acur <= Len(abuf'), Len(abuf') <= BlockLen,
           rec' \in Seq(Char), got' = got, cl' = cl, b'.isarmor = b.isarmor,
           op' \in Operations, op'.name = op.name, op'.want = op.want, op.name = "bread" => Len(op'.dest) < op.want,
           op.name = "bpeek" => op'.dest = <<>>,
           op'.fill <= BufSize, b.isarmor # "unchecked",
           op'.aread => /\ b'.isarmor = "yes" /\ b'.cur = 0 /\ b'.size = 0 /\ ~b'.eof
                        /\ op'.fill < BufSize /\ op'.fill <= Len(buf'),
           cl.phase # "peekedread"
    PROVE  IbufTypes' /\ Bounds' /\ Running' /\ Called' /\ Serving'
<1>1. /\ cl.phase # "stop" /\ cl.outcome = "none" /\ IbufTypes /\ Bounds /\ Called /\ Serving
      /\ op.name \in {"bread", "bpeek"}
  BY InCall
<1>2. IbufTypes'
  BY <1>1 DEF IbufTypes
<1>3. Running' /\ BlockLen' = BlockLen
  BY <1>1 DEF Running, BlockLen
<1>4. Bounds'
  BY <1>1, <1>3 DEF Bounds
<1>5. Called'
  BY <1>1 DEF Called
<1>6. Serving'
  BY <1>1, <1>3, <1>5 DEF Serving
<1> QED
  BY <1>2, <1>3, <1>4, <1>5, <1>6

LEMMA NotPeeked ==
    ASSUME ReaderInv, Running, b.cur < b.size => op.aread
    PROVE  cl.phase # "peekedread"
  BY InCall DEF Called

LEMMA FillEndKeeps == ASSUME ReaderInv, FillEnd PROVE ReaderInv'
<1>1. /\ Running /\ b.isarmor = "no" /\ b.size = 0 /\ ReturnsAtEnd /\ b' = [b EXCEPT !.eof = TRUE]
      /\ ~b.eof /\ ~op.aread /\ UNCHANGED <<in, fpos, buf, abuf, rec>>
  BY DEF FillEnd, Empty, Checked
<1>2. /\ cl.phase # "stop" /\ cl.outcome = "none" /\ IbufTypes /\ Bounds /\ Called /\ Recorded
  BY <1>1, InCall
<1>3. /\ b.cur = 0 /\ b \in Scalars /\ b' \in Scalars /\ b'.cur = 0 /\ b'.size = 0 /\ b'.eof
      /\ b'.isarmor = "no" /\ b'.acur = b.acur /\ b'.recording = b.recording
      /\ b'.recfail = b.recfail /\ b'.alloc = b.alloc
  <2>1. b \in Scalars /\ b.cur <= 0
    BY <1>1, <1>2 DEF IbufTypes, Bounds
  <2>2. b.cur = 0
    BY <2>1 DEF Scalars
  <2> QED
    BY <1>1, <2>1, <2>2 DEF Scalars
<1>4. /\ cl' \in Callers /\ cl'.phase = cl.phase /\ cl'.hdr = cl.hdr /\ cl'.mac = cl.mac
      /\ cl'.outcome = cl.outcome
      /\ op' = Idle /\ op' \in Operations /\ op'.dest = <<>> /\ ~Running'
      /\ got' = got \o op.dest /\ got' \in Seq(Char) /\ op.dest \in Seq(Char) /\ Serving'
  BY <1>1, <1>3, EndLeaves
<1>7. Filled'
  <2>1. b.size \in Nat /\ Len(buf) \in Nat /\ Len(buf) <= BufSize /\ BufSize \in Nat
    BY <1>2, Numbers DEF Bounds
  <2> QED
    BY <1>1, <1>3, <2>1, FilledTo
<1>5. IbufTypes' /\ Bounds'
  BY <1>1, <1>2, <1>3, <1>4, <1>7, IdleBounds, Numbers DEF IbufTypes, Bounds
<1>6. Recorded'
  <2>1. got' \o op'.dest = got \o op.dest
    BY <1>4
  <2>2. Before(buf', b'.cur) = Before(buf, b.cur)
    BY <1>1, <1>3 DEF Before
  <2>3. b.recording /\ ~b'.recfail =>
              /\ rec' \o Before(buf', b'.cur) = got' \o op'.dest
              /\ ~b'.alloc => rec' = <<>>
              /\ ~b'.alloc /\ b'.isarmor = "no" => b'.size <= ProbeLen /\ (b'.size = 0 => b'.eof)
    BY <1>1, <1>2, <1>3, <2>1, <2>2 DEF Recorded
  <2>4. \E d \in Seq(Char) : got' = got \o d
    BY <1>4
  <2> QED
    BY <1>1, <1>2, <1>3, <1>4, <2>3, <2>4, RecordKeeps
<1> QED
  BY <1>2, <1>4, <1>5, <1>6 DEF ReaderInv

LEMMA AtEndKeeps == ASSUME ReaderInv, AtEnd PROVE ReaderInv'
<1>1. /\ Running /\ b.isarmor # "unchecked" /\ b.cur = b.size /\ b.eof /\ ReturnsAtEnd
      /\ UNCHANGED <<in, fpos, b, buf, abuf, rec>>
  BY DEF AtEnd, Checked
<1>2. /\ cl.phase # "stop" /\ cl.outcome = "none" /\ IbufTypes /\ Bounds /\ Called /\ Recorded
  BY <1>1, InCall
<1>3. b.cur \in Nat /\ b.size \in Nat
  BY <1>2, Numbers
<1>4. /\ cl' \in Callers /\ cl'.phase = cl.phase /\ cl'.hdr = cl.hdr /\ cl'.mac = cl.mac
      /\ cl'.outcome = cl.outcome
      /\ op' = Idle /\ op' \in Operations /\ op'.dest = <<>> /\ ~Running'
      /\ got' = got \o op.dest /\ got' \in Seq(Char) /\ op.dest \in Seq(Char) /\ Serving'
  BY <1>1, <1>3, EndLeaves
<1>7. Filled'
  BY <1>1, <1>2, FilledKept DEF Bounds
<1>5. IbufTypes' /\ Bounds'
  BY <1>1, <1>2, <1>3, <1>4, <1>7, IdleBounds DEF IbufTypes, Bounds
<1>6. Recorded'
  <2>1. got' \o op'.dest = got \o op.dest
    BY <1>4
  <2>2. Before(buf', b'.cur) = Before(buf, b.cur)
    BY <1>1 DEF Before
  <2>3. b.recording /\ ~b'.recfail =>
              /\ rec' \o Before(buf', b'.cur) = got' \o op'.dest
              /\ ~b'.alloc => rec' = <<>>
              /\ ~b'.alloc /\ b'.isarmor = "no" => b'.size <= ProbeLen /\ (b'.size = 0 => b'.eof)
    BY <1>1, <1>2, <2>1, <2>2 DEF Recorded
  <2>4. \E d \in Seq(Char) : got' = got \o d
    BY <1>4
  <2> QED
    BY <1>1, <1>2, <1>4, <2>3, <2>4, RecordKeeps
<1> QED
  BY <1>2, <1>4, <1>5, <1>6 DEF ReaderInv

LEMMA PeekKeeps == ASSUME ReaderInv, Peek PROVE ReaderInv'
<1>1. /\ Running /\ b.isarmor # "unchecked" /\ op.name = "bpeek" /\ b.cur < b.size
      /\ BpeekReturns(FALSE) /\ UNCHANGED <<in, fpos, b, buf, abuf, rec>>
  BY DEF Peek, Checked
<1>2. /\ cl.phase # "stop" /\ cl.outcome = "none" /\ IbufTypes /\ Bounds /\ Called /\ Recorded
      /\ Serving
  BY <1>1, InCall
<1>3. /\ cl' \in Callers /\ cl'.phase = cl.phase /\ cl'.hdr = cl.hdr /\ cl'.mac = cl.mac
      /\ cl'.outcome = cl.outcome
      /\ op' = Idle /\ op' \in Operations /\ op'.dest = <<>> /\ ~Running'
      /\ got' = got /\ Serving'
  BY <1>1, <1>2, BpeekLeaves
<1>7. Filled'
  BY <1>1, <1>2, FilledKept DEF Bounds
<1>4. IbufTypes' /\ Bounds'
  BY <1>1, <1>2, <1>3, <1>7, IdleBounds DEF IbufTypes, Bounds
<1>5. Recorded'
  <2>1. op.dest = <<>> /\ op'.dest = op.dest
    BY <1>1, <1>2, <1>3 DEF Bounds
  <2>2. (cl.phase \in Reading <=> cl'.phase \in Reading)
    BY <1>3
  <2> QED
    BY <1>1, <1>2, <1>3, <2>1, <2>2, RecordedKept
<1> QED
  BY <1>2, <1>3, <1>4, <1>5 DEF ReaderInv

LEMMA AreadBeginKeeps == ASSUME ReaderInv, AreadBegin PROVE ReaderInv'
<1>1. /\ Running /\ b.isarmor = "yes" /\ b.size = 0 /\ ~b.eof /\ ~op.aread
      /\ op' = [op EXCEPT !.aread = TRUE, !.fill = 0]
      /\ UNCHANGED <<in, fpos, b, buf, abuf, rec, got, cl>>
  BY DEF AreadBegin, Empty, Checked
<1>2. /\ cl.phase # "stop" /\ cl.outcome = "none" /\ IbufTypes /\ Bounds /\ Called /\ Recorded
      /\ Serving
  BY <1>1, InCall
<1>3. /\ op' \in Operations /\ op'.name = op.name /\ op'.want = op.want /\ op'.dest = op.dest
      /\ op'.fill = 0 /\ op'.aread
  BY <1>1, <1>2 DEF IbufTypes, Operations
<1>4. b.cur = 0 /\ BufSize \in Nat \ {0} /\ Len(buf) \in Nat
  BY SMTT(30), <1>1, <1>2, Numbers DEF Bounds
<1>5. cl.phase # "peekedread"
  BY <1>1, <1>4, NotPeeked
<1>6. IbufTypes' /\ Bounds' /\ Running' /\ Called' /\ Serving'
  <2>1. 0 <= BufSize /\ 0 < BufSize /\ 0 <= Len(buf)
    BY <1>4
  <2>2. Filled'
    BY <1>1, <1>2, FilledKept DEF Bounds
  <2> QED
    BY <1>1, <1>2, <1>3, <1>4, <1>5, <2>1, <2>2, GoesOn DEF IbufTypes, Bounds
<1>7. Recorded'
  BY <1>1, <1>2, <1>3, RecordedKept
<1> QED
  BY <1>1, <1>2, <1>6, <1>7 DEF ReaderInv

LEMMA RecycleKeeps == ASSUME ReaderInv, Recycle PROVE ReaderInv'
<1> DEFINE f == [b EXCEPT !.cur = 0, !.size = 0]
<1>1. /\ Running /\ b.isarmor # "unchecked" /\ ~op.aread /\ b.cur = b.size /\ b.size > 0
      /\ \/ b.recording /\ RecAppend(b.size, f)
         \/ ~b.recording /\ b' = f /\ UNCHANGED rec
      /\ UNCHANGED <<in, fpos, buf, abuf, op, got, cl>>
  BY DEF Recycle, Checked
<1>2. /\ cl.phase # "stop" /\ cl.outcome = "none" /\ IbufTypes /\ Bounds /\ Called /\ Recorded
      /\ Serving
  BY <1>1, InCall
<1>3. /\ f \in Scalars /\ f.cur = 0 /\ f.size = 0 /\ f.acur = b.acur /\ f.isarmor = b.isarmor
      /\ f.recording = b.recording /\ f.alloc = b.alloc /\ f.recfail = b.recfail
  BY <1>2 DEF IbufTypes, Scalars
<1> HIDE DEF f
<1>4. b' = f \/ b' = [f EXCEPT !.alloc = TRUE] \/ b' = [f EXCEPT !.recfail = TRUE]
  BY <1>1 DEF RecAppend
<1>5. /\ b' \in Scalars /\ b'.cur = 0 /\ b'.size = 0 /\ b'.acur = b.acur /\ b'.isarmor = b.isarmor
      /\ b'.recording = b.recording
  <2>1. CASE b' = f
    BY <1>3, <2>1
  <2>2. CASE b' = [f EXCEPT !.alloc = TRUE]
    BY <1>3, <2>2 DEF Scalars
  <2>3. CASE b' = [f EXCEPT !.recfail = TRUE]
    BY <1>3, <2>3 DEF Scalars
  <2> QED
    BY <1>4, <2>1, <2>2, <2>3
<1>6. /\ b.cur \in Nat /\ b.size \in Nat /\ buf \in Seq(Char) /\ rec \in Seq(Char)
      /\ Before(buf, b.cur) \in Seq(Char) /\ Len(buf) \in Nat /\ Len(abuf) \in Nat
  <2>1. b.cur \in Nat /\ b.size \in Nat /\ Len(buf) \in Nat /\ Len(abuf) \in Nat
    BY <1>2, Numbers
  <2>2. b.cur \in 0..Len(buf)
    BY <1>1, <1>2, <2>1 DEF Bounds, Filled
  <2>3. buf \in Seq(Char) /\ rec \in Seq(Char)
    BY <1>2 DEF IbufTypes
  <2>4. Before(buf, b.cur) \in Seq(Char)
    BY <2>2, <2>3, Cut
  <2> QED
    BY <2>1, <2>3, <2>4
<1>7. b.recording => b'.recfail \/ (rec' = rec \o Before(buf, b.cur) /\ b'.alloc)
  <2>1. ASSUME b.recording PROVE b'.recfail \/ (rec' = rec \o Before(buf, b.cur) /\ b'.alloc)
    <3>1. RecAppend(b.size, f)
      BY <1>1, <2>1
    <3>2. CASE ~b.recfail /\ rec' = rec \o SubSeq(buf, 1, b.size) /\ b' = [f EXCEPT !.alloc = TRUE]
      BY <1>1, <1>3, <3>2 DEF Before, Scalars
    <3>3. CASE b' = [f EXCEPT !.recfail = TRUE]
      BY <1>3, <3>3 DEF Scalars
    <3> QED
      BY <3>1, <3>2, <3>3, <1>3 DEF RecAppend
  <2> QED
    BY <2>1
<1>8. rec' \in Seq(Char)
  <2>1. CASE rec' = rec \o Before(buf, b.cur)
    BY <1>6, <2>1, Joined
  <2>2. CASE rec' = rec
    BY <1>6, <2>2
  <2> QED
    BY <1>1, <2>1, <2>2 DEF RecAppend, Before
<1>9. cl.phase # "peekedread"
  BY <1>1, <1>6, NotPeeked
<1>12. Filled'
  BY <1>1, <1>2, <1>5, <1>6, FilledTo DEF Bounds
<1>10. IbufTypes' /\ Bounds' /\ Running' /\ Called' /\ Serving'
  BY <1>1, <1>2, <1>5, <1>6, <1>8, <1>9, <1>12, GoesOn DEF IbufTypes, Bounds
<1>11. Recorded'
  <2>1. Before(buf', b'.cur) = <<>>
    BY <1>5, SubSeqEmpty DEF Before
  <2>2. b.recording /\ ~b'.recfail =>
              /\ rec' \o Before(buf', b'.cur) = got' \o op'.dest
              /\ ~b'.alloc => rec' = <<>>
              /\ ~b'.alloc /\ b'.isarmor = "no" => b'.size <= ProbeLen /\ (b'.size = 0 => b'.eof)
    <3>1. ASSUME b.recording, ~b'.recfail
          PROVE  rec' \o Before(buf', b'.cur) = got' \o op'.dest /\ b'.alloc
      <4>1. rec' = rec \o Before(buf, b.cur) /\ b'.alloc
        BY <1>7, <3>1
      <4>2. ~b.recfail
        <5>1. CASE b' = [f EXCEPT !.recfail = TRUE]
          BY <1>3, <3>1, <5>1 DEF Scalars
        <5>2. CASE b' = [f EXCEPT !.alloc = TRUE]
          BY <1>3, <3>1, <5>2 DEF Scalars
        <5>3. CASE b' = f
          BY <1>3, <3>1, <5>3
        <5> QED
          BY <1>4, <5>1, <5>2, <5>3
      <4>3. rec \o Before(buf, b.cur) = got \o op.dest
        BY <1>2, <3>1, <4>2 DEF Recorded
      <4>4. rec' \o <<>> = rec'
        BY <1>8
      <4> QED
        BY <1>1, <2>1, <4>1, <4>3, <4>4
    <3> QED
      BY <3>1
  <2>3. ~b.recording => rec' = rec /\ b'.alloc = b.alloc /\ b'.recfail = b.recfail
    BY <1>1, <1>3
  <2>4. got' = got /\ got' \in Seq(Char) /\ UNCHANGED <<in, cl>>
    BY <1>1, <1>2 DEF IbufTypes
  <2> QED
    BY <1>1, <1>2, <1>5, <2>2, <2>3, <2>4, RecordKeeps
<1> QED
  BY <1>1, <1>2, <1>10, <1>11 DEF ReaderInv

LEMMA FillKeeps == ASSUME ReaderInv, Fill PROVE ReaderInv'
<1>1. /\ Running /\ b.isarmor = "no" /\ b.size = 0 /\ ~b.eof /\ ~op.aread /\ Rest > 0
      /\ UNCHANGED <<in, abuf, rec, op, got, cl>>
  BY DEF Fill, Empty, Checked
<1>2. PICK k \in 1..Least(BufSize, Rest) :
         /\ buf' = Text(k) \o SubSeq(buf, k + 1, Len(buf))
         /\ fpos' = fpos + k
         /\ b' = [b EXCEPT !.size = k]
  BY DEF Fill
<1>3. /\ cl.phase # "stop" /\ cl.outcome = "none" /\ IbufTypes /\ Bounds /\ Called /\ Recorded
      /\ Serving
  BY <1>1, InCall
<1>4. /\ b.cur = 0 /\ BufSize \in Nat /\ fpos \in Nat /\ Len(in.file) \in Nat /\ Len(buf) \in Nat
      /\ buf \in Seq(Char) /\ Len(buf) <= BufSize /\ fpos <= Len(in.file) /\ rec \in Seq(Char)
  <2>1. b.cur \in Nat /\ b.cur <= 0 /\ rec \in Seq(Char) /\ buf \in Seq(Char)
    BY <1>1, <1>3, Numbers DEF IbufTypes, Bounds
  <2>2. Len(buf) <= BufSize /\ fpos <= Len(in.file)
    BY <1>3 DEF Bounds
  <2> QED
    BY SMTT(30), <1>3, <2>1, <2>2, Numbers
<1>5. k \in Nat /\ k <= Rest /\ k <= BufSize
  <2>1. Rest \in Nat
    BY <1>1, <1>4 DEF Rest
  <2> QED
    BY <1>2, <1>4, <2>1, LeastIs
<1>6. /\ Text(k) \in Seq(Char) /\ Len(Text(k)) = k /\ fpos + k \in Nat /\ fpos + k <= Len(in.file)
  BY <1>3, <1>4, <1>5, TextIs
<1>7. buf' \in Seq(Char) /\ Len(buf') \in Nat /\ k <= Len(buf') /\ Len(buf') <= BufSize
  <2> DEFINE t == Text(k)
  <2>1. t \in Seq(Char) /\ k = Len(t) /\ buf' = t \o After(buf, k)
    BY <1>2, <1>6 DEF After
  <2> HIDE DEF t
  <2>2. t \o After(buf, k) \in Seq(Char) /\ Len(t \o After(buf, k)) = IF k >= Len(buf) THEN k ELSE Len(buf)
    BY <1>4, <2>1, Stored
  <2>3. buf' \in Seq(Char) /\ Len(buf') = IF k >= Len(buf) THEN k ELSE Len(buf)
    BY <2>1, <2>2
  <2> QED
    BY <1>4, <1>5, <2>3
<1>8. /\ b' \in Scalars /\ b'.cur = 0 /\ b'.size = k /\ b'.acur = b.acur /\ b'.isarmor = "no"
      /\ b'.recording = b.recording /\ b'.alloc = b.alloc /\ b'.recfail = b.recfail
  BY <1>1, <1>2, <1>3, <1>4, <1>5 DEF IbufTypes, Scalars
<1>9. cl.phase # "peekedread"
  BY <1>1, <1>4, NotPeeked
<1>10. IbufTypes' /\ Bounds' /\ Running' /\ Called' /\ Serving'
  <2>1. /\ abuf' \in Seq(Char) /\ b'.acur <= Len(abuf') /\ Len(abuf') <= BlockLen /\ op' \in Operations
        /\ op.fill <= BufSize
    BY <1>1, <1>3, <1>8 DEF IbufTypes, Bounds
  <2>2. /\ op.name = "bread" => Len(op.dest) < op.want
        /\ op.name = "bpeek" => op.dest = <<>>
    BY <1>3 DEF Bounds
  <2>3. 0 <= k /\ fpos' \in Nat /\ fpos' <= Len(in.file)
    BY <1>2, <1>5, <1>6
  <2>4. Filled'
    BY <1>5, <1>7, <1>8, <2>3, FilledTo
  <2> QED
    BY <1>1, <1>4, <1>5, <1>7, <1>8, <1>9, <2>1, <2>2, <2>3, <2>4, GoesOn
<1>11. Recorded'
  <2>1. Before(buf', b'.cur) = <<>> /\ Before(buf, b.cur) = <<>>
    BY <1>4, <1>8, SubSeqEmpty DEF Before
  <2>2. b.recording /\ ~b'.recfail =>
              /\ rec' \o Before(buf', b'.cur) = got' \o op'.dest
              /\ ~b'.alloc => rec' = <<>>
              /\ ~b'.alloc /\ b'.isarmor = "no" => b'.size <= ProbeLen /\ (b'.size = 0 => b'.eof)
    BY <1>1, <1>3, <1>8, <2>1 DEF Recorded
  <2>3. got' = got /\ got' \in Seq(Char) /\ UNCHANGED <<in, cl>>
    BY <1>1, <1>3 DEF IbufTypes
  <2> QED
    BY <1>1, <1>3, <1>8, <2>2, <2>3, RecordKeeps
<1> QED
  BY <1>1, <1>3, <1>10, <1>11 DEF ReaderInv

LEMMA BeforeGrows ==
    ASSUME NEW s \in Seq(Char), NEW k \in Nat, NEW j \in Nat, k <= j, j <= Len(s)
    PROVE  Before(s, j) = Before(s, k) \o SubSeq(s, k + 1, j)
<1> DEFINE o == 0
<1>1. o \in Nat /\ o <= k /\ o + 1 = 1
  OBVIOUS
<1> HIDE DEF o
<1>2. SubSeq(s, o + 1, k) \o SubSeq(s, k + 1, j) = SubSeq(s, o + 1, j)
  BY <1>1, SliceJoin
<1> QED
  BY <1>1, <1>2 DEF Before

\* The copy that leaves the buffer.
Overread == Stale /\ Stop("overread") /\ op' = Idle /\ UNCHANGED <<b, got>>

LEMMA CopyIs ==
    ASSUME ReaderInv, Copy, ~Overread
    PROVE  \E c \in Nat \ {0}, s \in Seq(Char) :
              /\ b.cur + c <= b.size /\ b.cur + c <= Len(buf)
              /\ s = SubSeq(buf, b.cur + 1, b.cur + c) /\ Len(s) = c
              /\ op.dest \o s \in Seq(Char) /\ Len(op.dest \o s) = Len(op.dest) + c
              /\ Before(buf, b.cur + c) = Before(buf, b.cur) \o s
              /\ Before(buf, b.cur) \in Seq(Char)
              /\ b' = [b EXCEPT !.cur = b.cur + c]
              /\ \/ Len(op.dest) + c = op.want /\ BreadReturns(op.dest \o s)
                 \/ /\ Len(op.dest) + c < op.want /\ cl.phase # "peekedread"
                    /\ op' = [op EXCEPT !.dest = op.dest \o s] /\ UNCHANGED <<got, cl>>
<1> DEFINE left0 == op.want - Len(op.dest)
           c == Least(b.size - b.cur, left0)
           s == SubSeq(buf, b.cur + 1, b.cur + c)
<1>0. /\ Running /\ op.name = "bread" /\ b.cur < b.size
      /\ \/ /\ b.cur + c <= Len(buf)
            /\ b' = [b EXCEPT !.cur = @ + c]
            /\ IF c = left0 THEN BreadReturns(op.dest \o s)
               ELSE op' = [op EXCEPT !.dest = op.dest \o s] /\ UNCHANGED <<got, cl>>
         \/ /\ b.cur + c > Len(buf)
            /\ Stop("overread") /\ op' = Idle /\ UNCHANGED <<b, got>>
  BY DEF Copy, Checked
<1>2. IbufTypes /\ Bounds /\ Called
  BY <1>0, InCall
<1>3. /\ b.cur \in Nat /\ b.size \in Nat /\ op.want \in Nat /\ Len(op.dest) \in Nat /\ Len(buf) \in Nat
      /\ (Stale \/ b.size <= Len(buf)) /\ Len(op.dest) < op.want /\ buf \in Seq(Char) /\ op.dest \in Seq(Char)
      /\ b \in Scalars
  BY <1>0, <1>2, Numbers DEF IbufTypes, Bounds, Filled
<1>4. left0 \in Nat \ {0} /\ b.size - b.cur \in Nat \ {0} /\ Len(op.dest) + left0 = op.want
  BY SMTT(30), <1>0, <1>3
<1>5. c \in Nat \ {0} /\ c <= b.size - b.cur /\ c <= left0
  BY <1>4, LeastIs
<1> HIDE DEF c
<1>15. b.cur + c \in Nat /\ b.cur + c <= b.size /\ (b.cur + c) - b.cur = c /\ b.cur <= b.cur + c
  BY SMTT(30), <1>3, <1>4, <1>5
<1>16. b.cur + c <= Len(buf)
  <2>1. ASSUME b.cur + c > Len(buf) PROVE FALSE
    <3>1. Stale
      BY <1>3, <1>15, <2>1
    <3>2. Stop("overread") /\ op' = Idle /\ UNCHANGED <<b, got>>
      BY <1>0, <1>3, <1>15, <2>1
    <3> QED
      BY <3>1, <3>2 DEF Overread
  <2> QED
    BY <1>3, <1>15, <2>1
<1>1. /\ Running /\ op.name = "bread" /\ b.cur < b.size /\ b' = [b EXCEPT !.cur = @ + c]
      /\ IF c = left0 THEN BreadReturns(op.dest \o s)
         ELSE op' = [op EXCEPT !.dest = op.dest \o s] /\ UNCHANGED <<got, cl>>
  <2>1. ~(b.cur + c > Len(buf))
    BY <1>3, <1>15, <1>16
  <2> QED
    BY <1>0, <2>1
<1>6. /\ b.cur + c \in Nat /\ b.cur + c <= b.size /\ b.cur + c <= Len(buf) /\ (b.cur + c) - b.cur = c
      /\ b.cur <= b.cur + c
  BY <1>15, <1>16
<1>7. s \in Seq(Char) /\ Len(s) = c
  <2> DEFINE j == b.cur + c
  <2>1. j \in Nat /\ b.cur <= j /\ j <= Len(buf) /\ j - b.cur = c
    BY <1>6
  <2> HIDE DEF j
  <2>2. SubSeq(buf, b.cur + 1, j) \in Seq(Char) /\ Len(SubSeq(buf, b.cur + 1, j)) = j - b.cur
    BY <1>3, <2>1, Slice
  <2> QED
    BY <2>1, <2>2 DEF j
<1>8. Before(buf, b.cur + c) = Before(buf, b.cur) \o s
  <2> DEFINE j == b.cur + c
  <2>1. b.cur \in Nat /\ j \in Nat /\ b.cur <= j /\ j <= Len(buf) /\ buf \in Seq(Char)
    BY <1>3, <1>6
  <2> HIDE DEF j
  <2>2. Before(buf, j) = Before(buf, b.cur) \o SubSeq(buf, b.cur + 1, j)
    BY <2>1, BeforeGrows
  <2> QED
    BY <2>2 DEF j
<1>13. op.dest \o s \in Seq(Char) /\ Len(op.dest \o s) = Len(op.dest) + c
  <2> HIDE DEF s
  <2> QED
    BY <1>3, <1>7, ConcatProperties
<1>9. Before(buf, b.cur) \in Seq(Char)
  <2>1. b.cur \in 0..Len(buf)
    BY <1>3, <1>6
  <2> QED
    BY <1>3, <2>1, Cut
<1>10. b' = [b EXCEPT !.cur = b.cur + c]
  BY <1>1, <1>3 DEF Scalars
<1>14. Len(op.dest) + c < op.want <=> c < left0
  BY <1>3, <1>5
<1> HIDE DEF s, left0
<1>11. CASE c = left0
  <2>1. Len(op.dest) + c = op.want /\ BreadReturns(op.dest \o s)
    BY <1>1, <1>4, <1>11
  <2> QED
    BY <1>5, <1>6, <1>7, <1>8, <1>9, <1>10, <1>13, <2>1 DEF s
<1>12. CASE c # left0
  <2>1. Len(op.dest) + c < op.want /\ op' = [op EXCEPT !.dest = op.dest \o s] /\ UNCHANGED <<got, cl>>
    <3>1. c < left0
      BY <1>4, <1>5, <1>12
    <3> QED
      BY <1>1, <1>12, <1>14, <3>1
  <2>3. cl.phase # "peekedread"
    <3>1. CASE op.want = 1
      BY <1>3, <1>5, <2>1, <3>1
    <3>2. CASE op.want # 1
      BY <1>1, <1>2, <3>2 DEF Called
    <3> QED
      BY <3>1, <3>2
  <2> QED
    BY <1>5, <1>6, <1>7, <1>8, <1>9, <1>10, <1>13, <2>1, <2>3 DEF s
<1> QED
  BY <1>11, <1>12

LEMMA CopyKeeps == ASSUME ReaderInv, Copy PROVE ReaderInv'
<1>1. /\ Running /\ op.name = "bread" /\ b.cur < b.size /\ b.isarmor # "unchecked" /\ ~op.aread
      /\ UNCHANGED <<in, fpos, buf, abuf, rec>>
  BY DEF Copy, Checked
<1>13. CASE Overread
  <2>1. Running /\ IbufTypes /\ Bounds
    BY <1>1, InCall
  <2>2. Filled' /\ Stale'
    BY <1>1, <1>13, <2>1, FilledKept DEF Overread, Bounds
  <2>3. "overread" \in Outcomes \ {"none", "badmac"} /\ Stop("overread") /\ op' = Idle /\ UNCHANGED <<b, got>>
    BY <1>13 DEF Outcomes, Overread
  <2>4. /\ fpos \in Nat /\ fpos <= Len(in.file) /\ b \in Scalars /\ b.cur <= b.size
        /\ abuf \in Seq(Char) /\ b.acur <= Len(abuf) /\ Len(abuf) <= BlockLen
    BY <2>1 DEF IbufTypes, Bounds
  <2> QED
    BY <1>1, <2>1, <2>2, <2>3, <2>4, ErrorKeeps
<1> SUFFICES ASSUME ~Overread PROVE ReaderInv'
  BY <1>13
<1>2. PICK c \in Nat \ {0}, s \in Seq(Char) :
              /\ b.cur + c <= b.size /\ b.cur + c <= Len(buf)
              /\ s = SubSeq(buf, b.cur + 1, b.cur + c) /\ Len(s) = c
              /\ op.dest \o s \in Seq(Char) /\ Len(op.dest \o s) = Len(op.dest) + c
              /\ Before(buf, b.cur + c) = Before(buf, b.cur) \o s
              /\ Before(buf, b.cur) \in Seq(Char)
              /\ b' = [b EXCEPT !.cur = b.cur + c]
              /\ \/ Len(op.dest) + c = op.want /\ BreadReturns(op.dest \o s)
                 \/ /\ Len(op.dest) + c < op.want /\ cl.phase # "peekedread"
                    /\ op' = [op EXCEPT !.dest = op.dest \o s] /\ UNCHANGED <<got, cl>>
  BY CopyIs
<1> DEFINE d == op.dest \o s
<1>3. /\ cl.phase # "stop" /\ cl.outcome = "none" /\ IbufTypes /\ Bounds /\ Called /\ Recorded
      /\ Serving
  BY <1>1, InCall
<1>4. /\ b.cur \in Nat /\ b.size \in Nat /\ op.want \in Nat /\ Len(op.dest) \in Nat /\ Len(buf) \in Nat
      /\ op.dest \in Seq(Char) /\ got \in Seq(Char) /\ rec \in Seq(Char) /\ buf \in Seq(Char)
  BY <1>3, Numbers DEF IbufTypes
<1>5. d \in Seq(Char) /\ Len(d) = Len(op.dest) + c
  BY <1>2
<1>6. /\ b' \in Scalars /\ b'.cur = b.cur + c /\ b'.size = b.size /\ b'.acur = b.acur
      /\ b'.isarmor = b.isarmor /\ b'.recording = b.recording /\ b'.alloc = b.alloc
      /\ b'.recfail = b.recfail /\ b'.eof = b.eof
  <2>1. b.cur + c \in Nat /\ b \in Scalars
    BY <1>3, <1>4 DEF IbufTypes
  <2>2. b' = [b EXCEPT !.cur = b.cur + c]
    BY <1>2
  <2> DEFINE j == b.cur + c
  <2>3. j \in Nat /\ b' = [b EXCEPT !.cur = j]
    BY <2>1, <2>2
  <2> HIDE DEF j
  <2>4. /\ b' \in Scalars /\ b'.cur = j /\ b'.size = b.size /\ b'.acur = b.acur
        /\ b'.isarmor = b.isarmor /\ b'.recording = b.recording /\ b'.alloc = b.alloc
        /\ b'.recfail = b.recfail /\ b'.eof = b.eof
    BY <2>1, <2>3 DEF Scalars
  <2> QED
    BY <2>4 DEF j
<1>7. b.recording /\ ~b.recfail => rec \o Before(buf, b.cur + c) = got \o d
  <2>1. ASSUME b.recording, ~b.recfail PROVE rec \o Before(buf, b.cur + c) = got \o d
    <3> DEFINE p == Before(buf, b.cur)
               g == op.dest
    <3>1. rec \o p = got \o g
      BY <1>3, <2>1 DEF Recorded
    <3>2. p \in Seq(Char) /\ g \in Seq(Char)
      BY <1>2, <1>4
    <3> HIDE DEF p, g
    <3>3. Cat(rec, Cat(p, s)) = Cat(Cat(rec, p), s) /\ Cat(got, Cat(g, s)) = Cat(Cat(got, g), s)
      BY <1>4, <3>2, CatRegroup
    <3>4. Cat(rec, p) = Cat(got, g)
      BY <3>1 DEF Cat
    <3>5. Cat(rec, Cat(p, s)) = Cat(got, Cat(g, s))
      BY <3>3, <3>4
    <3>6. rec \o (p \o s) = got \o (g \o s)
      BY ONLY <3>5 DEF Cat
    <3> QED
      BY <1>2, <3>6 DEF p, g
  <2> QED
    BY <2>1
<1>14. Filled'
  <2>1. b'.cur <= Len(buf') /\ (Stale' <=> Stale)
    BY <1>1, <1>2, <1>6 DEF Stale
  <2> QED
    BY <1>1, <1>3, <1>6, <2>1 DEF Bounds, Filled
<1>8. /\ b'.cur <= b'.size /\ Len(buf) <= BufSize /\ abuf \in Seq(Char)
      /\ b'.acur <= Len(abuf) /\ Len(abuf) <= BlockLen /\ fpos \in Nat /\ fpos <= Len(in.file)
      /\ op.fill <= BufSize
  BY <1>2, <1>3, <1>6 DEF IbufTypes, Bounds
<1>9. Before(buf', b'.cur) = Before(buf, b.cur + c)
  BY <1>1, <1>6 DEF Before
<1>10. rec' = rec /\ UNCHANGED in
  BY <1>1
<1>11. CASE Len(op.dest) + c = op.want /\ BreadReturns(d)
  <2>1. /\ cl' \in Callers /\ cl'.phase = cl.phase /\ cl'.hdr = cl.hdr /\ cl'.mac = cl.mac
        /\ cl'.outcome = cl.outcome
        /\ op' = Idle /\ op' \in Operations /\ op'.dest = <<>> /\ ~Running'
        /\ got' = got \o d /\ got' \in Seq(Char) /\ Serving'
    <3>1. Len(d) = op.want /\ BreadReturns(d) /\ Len(d) <= op.want /\ ~(Len(d) < op.want)
      BY <1>4, <1>5, <1>11
    <3> HIDE DEF d
    <3> QED
      BY <1>1, <1>3, <1>5, <3>1, BreadLeaves
  <2>2. got' \o op'.dest = got \o d
    BY <2>1
  <2>3. \E e \in Seq(Char) : got' = got \o e
    BY <1>5, <2>1
  <2> HIDE DEF d
  <2>4. IbufTypes' /\ Bounds'
    BY <1>1, <1>3, <1>4, <1>6, <1>8, <1>14, <2>1, IdleBounds
  <2>5. Recorded'
    <3>1. b.recording /\ ~b'.recfail =>
              /\ rec' \o Before(buf', b'.cur) = got' \o op'.dest
              /\ ~b'.alloc => rec' = <<>>
              /\ ~b'.alloc /\ b'.isarmor = "no" => b'.size <= ProbeLen /\ (b'.size = 0 => b'.eof)
      BY <1>3, <1>6, <1>7, <1>9, <1>10, <2>2 DEF Recorded
    <3> QED
      BY <1>1, <1>3, <1>6, <1>10, <2>1, <2>3, <3>1, RecordKeeps
  <2> QED
    BY <1>3, <2>1, <2>4, <2>5 DEF ReaderInv
<1>12. CASE /\ Len(op.dest) + c < op.want /\ cl.phase # "peekedread"
            /\ op' = [op EXCEPT !.dest = d] /\ UNCHANGED <<got, cl>>
  <2>1. Len(d) < op.want
    BY <1>5, <1>12
  <2> HIDE DEF d
  <2>2. /\ op' \in Operations /\ op'.name = "bread" /\ op'.want = op.want /\ op'.dest = d
        /\ op'.fill = op.fill /\ ~op'.aread
    BY <1>1, <1>3, <1>5, <1>12 DEF IbufTypes, Operations
  <2>3. IbufTypes' /\ Bounds' /\ Running' /\ Called' /\ Serving'
    BY <1>1, <1>4, <1>6, <1>8, <1>12, <1>14, <2>1, <2>2, GoesOn
  <2>4. got' = got /\ UNCHANGED cl /\ got' \o op'.dest = got \o d
    BY <1>12, <2>2
  <2>5. Recorded'
    <3>1. b.recording /\ ~b'.recfail =>
              /\ rec' \o Before(buf', b'.cur) = got' \o op'.dest
              /\ ~b'.alloc => rec' = <<>>
              /\ ~b'.alloc /\ b'.isarmor = "no" => b'.size <= ProbeLen /\ (b'.size = 0 => b'.eof)
      BY <1>3, <1>6, <1>7, <1>9, <1>10, <2>4 DEF Recorded
    <3> QED
      BY <1>1, <1>3, <1>4, <1>6, <1>10, <2>4, <3>1, RecordKeeps
  <2> QED
    BY <1>3, <2>3, <2>4, <2>5 DEF ReaderInv
<1> QED
  BY <1>2, <1>11, <1>12

\* While aread runs.
LEMMA InAread ==
    ASSUME ReaderInv, op.aread
    PROVE  /\ Running /\ b.isarmor = "yes" /\ b.cur = 0 /\ b.size = 0 /\ ~b.eof
           /\ op.fill < BufSize /\ op.fill <= Len(buf) /\ cl.phase # "peekedread"
<1>1. /\ Running /\ b.isarmor = "yes" /\ b.cur = 0 /\ b.size = 0 /\ ~b.eof
      /\ op.fill < BufSize /\ op.fill <= Len(buf)
  BY DEF ReaderInv, Bounds
<1>2. cl.phase # "peekedread"
  BY <1>1, NotPeeked
<1> QED
  BY <1>1, <1>2

\* aread moves nothing that is recorded yet.
LEMMA AreadRecords ==
    ASSUME ReaderInv, op.aread, b'.cur = 0, UNCHANGED <<in, rec>>, got' \in Seq(Char),
           b'.isarmor = b.isarmor, b'.recording = b.recording, b'.alloc = b.alloc,
           b'.recfail = b.recfail, cl'.phase = cl.phase, cl'.mac = cl.mac, cl'.hdr = cl.hdr,
           got' \o op'.dest = got \o op.dest,
           got' = got \/ (\E d \in Seq(Char) : got' = got \o d)
    PROVE  Recorded'
<1>1. Running /\ b.cur = 0 /\ b.isarmor = "yes"
  BY InAread
<1>2. IbufTypes /\ Called /\ Recorded
  BY <1>1, InCall
<1>3. Before(buf', b'.cur) = <<>> /\ Before(buf, b.cur) = <<>>
  BY <1>1, SubSeqEmpty DEF Before
<1>4. b.recording /\ ~b'.recfail =>
              /\ rec' \o Before(buf', b'.cur) = got' \o op'.dest
              /\ ~b'.alloc => rec' = <<>>
              /\ ~b'.alloc /\ b'.isarmor = "no" => b'.size <= ProbeLen /\ (b'.size = 0 => b'.eof)
  BY <1>1, <1>2, <1>3 DEF Recorded
<1> QED
  BY <1>1, <1>2, <1>4, RecordKeeps

\* bread stops at a refusal of the armor; bpeek goes on with a size of its own,
\* and a parser with old bytes.
LEMMA ArmorErrorIs ==
    ASSUME ReaderInv, op.aread, NEW f, ArmorError(f)
    PROVE  /\ op' = Idle /\ UNCHANGED got
           /\ \/ op.name = "bread" /\ Stop("badarmor") /\ b' = f
              \/ /\ op.name = "bpeek" /\ b' = [f EXCEPT !.size = MinusTwo]
                 /\ \E h \in HeaderEnd :
                       /\ cl' = [cl EXCEPT !.eof = FALSE, !.hdr = h]
                       /\ IF cl.phase = "peeked" THEN Len(got) < h ELSE h = cl.hdr
<1>1. IbufTypes
  BY InAread, InCall
<1>2. op' = Idle /\ UNCHANGED got
  BY DEF ArmorError
<1>3. CASE op.name = "bpeek"
  <2>1. b' = [f EXCEPT !.size = MinusTwo]
    BY <1>3 DEF ArmorError
  <2>2. PICK h \in IF cl.phase = "peeked" THEN StaleEnds ELSE {cl.hdr} :
           cl' = [cl EXCEPT !.eof = FALSE, !.hdr = h]
    BY <1>3 DEF ArmorError
  <2>3. CASE cl.phase = "peeked"
    <3>1. h \in StaleEnds
      BY <2>2, <2>3
    <3>2. h \in HeaderEnd /\ Len(got) < h
      BY <3>1, <1>1, Numbers DEF StaleEnds, HeaderEnd
    <3> QED
      BY <1>2, <1>3, <2>1, <2>2, <2>3, <3>2
  <2>4. CASE cl.phase # "peeked"
    <3>1. h = cl.hdr /\ h \in HeaderEnd
      BY <1>1, <2>2, <2>4 DEF IbufTypes, Callers
    <3> QED
      BY <1>2, <1>3, <2>1, <2>2, <2>4, <3>1
  <2> QED
    BY <2>3, <2>4
<1>4. CASE op.name # "bpeek"
  BY <1>2, <1>4 DEF ArmorError
<1> QED
  BY <1>3, <1>4

LEMMA ArmorErrorKeeps ==
    ASSUME ReaderInv, op.aread, in' = in, fpos' \in Nat, fpos' <= Len(in.file),
           UNCHANGED <<buf, rec>>, abuf' \in Seq(Char), Len(abuf') <= BlockLen,
           NEW f \in Scalars, ArmorError(f), f.acur <= Len(abuf'),
           f.cur = 0, f.size = 0, f.isarmor = "yes", ~f.eof,
           f.recording = b.recording, f.alloc = b.alloc, f.recfail = b.recfail
    PROVE  ReaderInv'
<1>1. /\ Running /\ b.isarmor = "yes" /\ b.cur = 0 /\ b.size = 0 /\ ~b.eof
      /\ op.fill < BufSize /\ op.fill <= Len(buf) /\ cl.phase # "peekedread"
  BY InAread
<1>2. /\ cl.phase # "stop" /\ cl.outcome = "none" /\ IbufTypes /\ Bounds /\ Called /\ Recorded
      /\ Serving
  BY <1>1, InCall
<1>3. /\ buf \in Seq(Char) /\ Len(buf) \in Nat /\ Len(buf) <= BufSize /\ BufSize \in Nat
      /\ rec \in Seq(Char) /\ got \in Seq(Char) /\ Len(got) \in Nat /\ cl \in Callers
  BY <1>2, Numbers DEF IbufTypes, Bounds
<1>4. op' = Idle /\ UNCHANGED got
  BY ArmorErrorIs
<1>5. CASE op.name = "bread" /\ Stop("badarmor") /\ b' = f
  <2>1. Filled' /\ b' \in Scalars /\ b'.cur <= b'.size /\ b'.isarmor = "yes"
    BY <1>3, <1>5, FilledTo
  <2>2. "badarmor" \in Outcomes \ {"none", "badmac"}
    BY DEF Outcomes
  <2> QED
    BY <1>1, <1>4, <1>5, <2>1, <2>2, ErrorKeeps
<1>6. CASE /\ op.name = "bpeek" /\ b' = [f EXCEPT !.size = MinusTwo]
           /\ \E h \in HeaderEnd :
                 /\ cl' = [cl EXCEPT !.eof = FALSE, !.hdr = h]
                 /\ IF cl.phase = "peeked" THEN Len(got) < h ELSE h = cl.hdr
  <2>1. PICK h \in HeaderEnd : /\ cl' = [cl EXCEPT !.eof = FALSE, !.hdr = h]
                               /\ IF cl.phase = "peeked" THEN Len(got) < h ELSE h = cl.hdr
    BY <1>6
  <2>2. /\ cl' \in Callers /\ cl'.phase = cl.phase /\ cl'.hdr = h /\ ~cl'.eof /\ cl'.outcome = "none"
        /\ cl'.short = cl.short
    BY <1>2, <1>3, <2>1 DEF Callers
  <2>3. MinusTwo \in Nat /\ 0 < MinusTwo
    BY <1>3 DEF MinusTwo
  <2>4. /\ b' \in Scalars /\ b'.cur = 0 /\ b'.size = MinusTwo /\ b'.acur = f.acur
        /\ b'.isarmor = "yes" /\ ~b'.eof /\ b'.recording = b.recording /\ b'.alloc = b.alloc
        /\ b'.recfail = b.recfail
    BY <1>6, <2>3 DEF Scalars
  <2>5. Filled'
    <3>1. Stale'
      BY <2>4 DEF Stale, MinusTwo
    <3>2. b'.cur <= Len(buf')
      BY <1>3, <2>4
    <3> QED
      BY <2>4, <3>1, <3>2 DEF Filled
  <2>6. IbufTypes' /\ Bounds'
    <3>1. b'.cur <= b'.size
      BY <2>3, <2>4
    <3> QED
      BY <1>2, <1>3, <1>4, <2>2, <2>4, <2>5, <3>1, IdleBounds
  <2>7. ~Running' /\ op'.dest = <<>> /\ op.dest = <<>>
    BY <1>2, <1>4, <1>6 DEF Idle, Running, Bounds
  <2>8. ~cl.short /\ ((cl.phase = "peeked" /\ Len(got) < cl.hdr) \/ cl.phase = "chunkend")
    BY <1>1, <1>2, <1>6 DEF Called
  <2>9. Serving'
    <3>1. b'.cur < b'.size
      BY <2>3, <2>4
    <3>2. AtRest'
      BY <1>4, <2>1, <2>2, <2>8, <3>1 DEF AtRest
    <3>3. in.mode = "decrypt" /\ cl.phase \in {"chunk", "ateof", "chunkend"} => Len(got') >= cl'.hdr
      BY <1>2, <1>4, <2>1, <2>2 DEF Serving
    <3> QED
      BY <2>2, <2>7, <3>2, <3>3 DEF Serving
  <2>10. Recorded'
    <3>1. Before(buf', b'.cur) = Before(buf, b.cur)
      BY <1>1, <2>4 DEF Before
    <3>2. cl.phase \notin {"mac", "check"}
      BY <2>8
    <3>3. b'.recording <=> cl'.phase \in Reading
      BY <1>2, <2>2, <2>4 DEF Recorded
    <3>4. b'.recording /\ ~b'.recfail =>
             /\ rec' \o Before(buf', b'.cur) = got' \o op'.dest
             /\ ~b'.alloc => rec' = <<>>
      BY <1>2, <1>4, <2>4, <2>7, <3>1 DEF Recorded
    <3> QED
      BY <1>2, <2>2, <2>4, <3>2, <3>3, <3>4 DEF Recorded, Before
  <2> QED
    BY <1>2, <2>2, <2>6, <2>9, <2>10 DEF ReaderInv
<1> QED
  BY <1>5, <1>6, ArmorErrorIs

LEMMA AreadEndKeeps == ASSUME ReaderInv, AreadEnd PROVE ReaderInv'
<1>1. /\ op.aread /\ b.acur = Len(abuf) /\ Rest = 0 /\ abuf' = <<>> /\ UNCHANGED <<in, fpos, buf, rec>>
  BY DEF AreadEnd
<1>2. /\ Running /\ b.isarmor = "yes" /\ b.cur = 0 /\ b.size = 0 /\ ~b.eof
      /\ op.fill < BufSize /\ op.fill <= Len(buf) /\ cl.phase # "peekedread"
  BY <1>1, InAread
<1>3. /\ cl.phase # "stop" /\ cl.outcome = "none" /\ IbufTypes /\ Bounds
  BY <1>2, InCall
<1>4. /\ b \in Scalars /\ op \in Operations /\ op.fill \in Nat /\ Len(buf) \in Nat /\ buf \in Seq(Char)
      /\ fpos \in Nat /\ fpos <= Len(in.file) /\ Len(buf) <= BufSize /\ BlockLen \in Nat
      /\ rec \in Seq(Char) /\ got \in Seq(Char) /\ cl \in Callers
  BY <1>3, Numbers DEF IbufTypes, Bounds
<1>5. abuf' \in Seq(Char) /\ Len(abuf') = 0 /\ 0 <= BlockLen
  BY <1>1, <1>4, NullLen
<1>6. CASE ~b.ended
  <2> DEFINE f == [b EXCEPT !.acur = 0]
  <2>1. ArmorError(f)
    BY <1>6 DEF AreadEnd
  <2>2. /\ f \in Scalars /\ f.cur = 0 /\ f.size = 0 /\ f.acur = 0 /\ f.isarmor = "yes" /\ ~f.eof
        /\ f.recording = b.recording /\ f.alloc = b.alloc /\ f.recfail = b.recfail
    BY <1>2, <1>4 DEF Scalars
  <2> HIDE DEF f
  <2>3. f.acur <= Len(abuf') /\ Len(abuf') <= BlockLen
    BY <1>4, <1>5, <2>2
  <2> QED
    BY <1>1, <1>2, <1>4, <1>5, <2>1, <2>2, <2>3, ArmorErrorKeeps
<1>7. CASE b.ended
  <2>1. /\ b' = [b EXCEPT !.acur = 0, !.size = op.fill, !.eof = op.fill = 0]
        /\ IF op.fill = 0 THEN ReturnsAtEnd
           ELSE op' = [op EXCEPT !.aread = FALSE] /\ UNCHANGED <<got, cl>>
    BY <1>7 DEF AreadEnd
  <2>2. /\ b' \in Scalars /\ b'.cur = 0 /\ b'.size = op.fill /\ b'.acur = 0 /\ b'.isarmor = "yes"
        /\ b'.recording = b.recording /\ b'.alloc = b.alloc /\ b'.recfail = b.recfail
        /\ b'.eof = (op.fill = 0)
    <3> DEFINE e == op.fill = 0
    <3>1. e \in BOOLEAN /\ b' = [b EXCEPT !.acur = 0, !.size = op.fill, !.eof = e]
      BY <2>1
    <3> HIDE DEF e
    <3>2. /\ b' \in Scalars /\ b'.cur = 0 /\ b'.size = op.fill /\ b'.acur = 0 /\ b'.isarmor = "yes"
          /\ b'.recording = b.recording /\ b'.alloc = b.alloc /\ b'.recfail = b.recfail
          /\ b'.eof = e
      BY <1>2, <1>4, <3>1 DEF Scalars
    <3> QED
      BY <3>2 DEF e
  <2>6. Filled'
    BY <1>1, <1>2, <1>4, <2>2, FilledTo
  <2>3. /\ b'.cur <= b'.size /\ Filled' /\ Len(buf') <= BufSize /\ b'.acur <= Len(abuf')
        /\ Len(abuf') <= BlockLen /\ fpos' \in Nat /\ fpos' <= Len(in.file) /\ buf' \in Seq(Char)
        /\ rec' \in Seq(Char)
    BY <1>1, <1>2, <1>4, <1>5, <2>2, <2>6
  <2>4. CASE op.fill = 0
    <3>1. ReturnsAtEnd /\ b'.eof /\ b'.cur = b'.size
      BY <2>1, <2>2, <2>4
    <3>2. /\ cl' \in Callers /\ cl'.phase = cl.phase /\ cl'.hdr = cl.hdr /\ cl'.mac = cl.mac
          /\ cl'.outcome = cl.outcome
          /\ op' = Idle /\ op' \in Operations /\ op'.dest = <<>> /\ ~Running'
          /\ got' = got \o op.dest /\ got' \in Seq(Char) /\ op.dest \in Seq(Char) /\ Serving'
      BY <1>1, <1>2, <3>1, EndLeaves
    <3>3. IbufTypes' /\ Bounds'
      BY <1>1, <1>3, <1>5, <2>2, <2>3, <3>2, IdleBounds
    <3>4. got' \o op'.dest = got \o op.dest
      BY <3>2
    <3>5. \E d \in Seq(Char) : got' = got \o d
      BY <3>2
    <3>6. Recorded'
      BY <1>1, <1>2, <2>2, <3>2, <3>4, <3>5, AreadRecords
    <3> QED
      BY <1>3, <3>2, <3>3, <3>6 DEF ReaderInv
  <2>5. CASE op.fill # 0
    <3>1. op' = [op EXCEPT !.aread = FALSE] /\ UNCHANGED <<got, cl>>
      BY <2>1, <2>5
    <3>2. /\ op' \in Operations /\ op'.name = op.name /\ op'.want = op.want /\ op'.dest = op.dest
          /\ op'.fill = op.fill /\ ~op'.aread
      BY <1>4, <3>1 DEF Operations
    <3>3. IbufTypes' /\ Bounds' /\ Running' /\ Called' /\ Serving'
      <4>1. /\ op.name = "bread" => Len(op.dest) < op.want
            /\ op.name = "bpeek" => op.dest = <<>>
            /\ op.fill <= BufSize
        BY <1>3 DEF Bounds
      <4> QED
        BY <1>1, <1>2, <1>5, <2>2, <2>3, <3>1, <3>2, <4>1, GoesOn
    <3>4. Recorded'
      BY <1>1, <1>2, <1>4, <2>2, <3>1, <3>2, AreadRecords
    <3> QED
      BY <1>3, <3>1, <3>3, <3>4 DEF ReaderInv
  <2> QED
    BY <2>4, <2>5
<1> QED
  BY <1>6, <1>7

\* A block that holds the END line is long enough for it.
LEMMA EndFits ==
    ASSUME NEW s, Len(s) < EndLen PROVE EndCheck(s) # "full"
<1>1. EndCheck(s) = "bad"
  BY DEF EndCheck
<1> QED
  BY <1>1

LEMMA AreadBlockKeeps == ASSUME ReaderInv, AreadBlock PROVE ReaderInv'
<1> DEFINE k == Least(BlockLen, Rest)
           raw == Text(k)
           end == EndCheck(raw)
           n == Len(raw) - (IF end = "full" THEN EndLen ELSE 0)
           body == SubSeq(raw, 1, n)
<1>1. /\ op.aread /\ b.acur = Len(abuf) /\ Rest > 0 /\ fpos' = fpos + Len(raw)
      /\ UNCHANGED <<in, buf, rec>>
      /\ \/ ArmorError(b) /\ UNCHANGED abuf
         \/ /\ abuf' \in Decodings(body)
            /\ b' = [b EXCEPT !.acur = 0, !.ended = end = "full"]
            /\ UNCHANGED <<op, got, cl>>
  BY DEF AreadBlock
<1>2. /\ Running /\ b.isarmor = "yes" /\ b.cur = 0 /\ b.size = 0 /\ ~b.eof
      /\ op.fill < BufSize /\ op.fill <= Len(buf) /\ cl.phase # "peekedread"
  BY <1>1, InAread
<1>3. /\ cl.phase # "stop" /\ cl.outcome = "none" /\ IbufTypes /\ Bounds
  BY <1>2, InCall
<1>4. /\ b \in Scalars /\ op \in Operations /\ op.fill \in Nat /\ Len(buf) \in Nat /\ buf \in Seq(Char)
      /\ fpos \in Nat /\ fpos <= Len(in.file) /\ Len(buf) <= BufSize /\ BlockLen \in Nat
      /\ rec \in Seq(Char) /\ got \in Seq(Char) /\ cl \in Callers /\ abuf \in Seq(Char)
      /\ Len(abuf) <= BlockLen /\ b.acur <= Len(abuf) /\ op.fill <= BufSize /\ Len(in.file) \in Nat
  BY <1>3, Numbers DEF IbufTypes, Bounds
<1>5. k \in Nat /\ k <= BlockLen /\ k <= Rest
  <2>1. Rest \in Nat
    BY <1>4 DEF Rest
  <2> QED
    BY <1>4, <2>1, LeastIs
<1>6. raw \in Seq(Char) /\ Len(raw) = k /\ fpos + k \in Nat /\ fpos + k <= Len(in.file)
  BY <1>3, <1>4, <1>5, TextIs
<1>7. body \in Seq(Char) /\ Len(body) \in Nat /\ Len(body) <= k
  <2>1. CASE end = "full"
    <3>1. EndLen <= k
      <4> HIDE DEF raw
      <4>1. ~(Len(raw) < EndLen)
        BY <2>1, EndFits
      <4> QED
        BY <1>5, <1>6, <4>1, Lengths
    <3>2. n \in 0..Len(raw)
      BY <1>5, <1>6, <2>1, <3>1, Lengths
    <3> HIDE DEF n, raw
    <3>3. Before(raw, n) \in Seq(Char) /\ Len(Before(raw, n)) = n
      BY <1>6, <3>2, Cut
    <3> QED
      BY <1>6, <3>2, <3>3 DEF Before
  <2>2. CASE end # "full"
    <3>1. n \in 0..Len(raw)
      BY <1>5, <1>6, <2>2
    <3> HIDE DEF n, raw
    <3>3. Before(raw, n) \in Seq(Char) /\ Len(Before(raw, n)) = n
      BY <1>6, <3>1, Cut
    <3> QED
      BY <1>6, <3>1, <3>3 DEF Before
  <2> QED
    BY <2>1, <2>2
<1>8. fpos' \in Nat /\ fpos' <= Len(in.file)
  BY <1>1, <1>6
<1> HIDE DEF body, end, raw, k
<1>9. CASE ArmorError(b) /\ UNCHANGED abuf
  BY <1>1, <1>2, <1>4, <1>8, <1>9, ArmorErrorKeeps
<1>10. CASE /\ abuf' \in Decodings(body)
            /\ b' = [b EXCEPT !.acur = 0, !.ended = end = "full"]
            /\ UNCHANGED <<op, got, cl>>
  <2>1. abuf' \in Seq(Char) /\ Len(abuf') \in Nat /\ Len(abuf') <= BlockLen
    <3>1. PICK d \in Decodings(body) : abuf' = d
      BY <1>10
    <3>2. d \in Seq(Char) /\ Len(d) \in Nat /\ Len(d) <= Len(body)
      BY <1>7, DecodingFits
    <3> QED
      BY <1>4, <1>5, <1>7, <3>1, <3>2
  <2>2. /\ b' \in Scalars /\ b'.cur = 0 /\ b'.size = 0 /\ b'.acur = 0 /\ b'.isarmor = "yes"
        /\ b'.recording = b.recording /\ b'.alloc = b.alloc /\ b'.recfail = b.recfail
        /\ b'.eof = b.eof
    <3> DEFINE e == end = "full"
    <3>1. e \in BOOLEAN /\ b' = [b EXCEPT !.acur = 0, !.ended = e]
      BY <1>10
    <3> HIDE DEF e
    <3> QED
      BY <1>2, <1>4, <3>1 DEF Scalars
  <2>3. IbufTypes' /\ Bounds' /\ Running' /\ Called' /\ Serving'
    <3>1. /\ op.name = "bread" => Len(op.dest) < op.want
          /\ op.name = "bpeek" => op.dest = <<>>
          /\ op.fill <= BufSize
      BY <1>3 DEF Bounds
    <3>3. Filled'
      BY <1>1, <1>2, <1>4, <2>2, FilledTo
    <3>2. /\ b'.cur <= b'.size /\ Len(buf') <= BufSize /\ b'.acur <= Len(abuf')
          /\ Len(abuf') <= BlockLen /\ buf' \in Seq(Char) /\ rec' \in Seq(Char)
      BY <1>1, <1>4, <2>1, <2>2
    <3> QED
      BY <1>1, <1>2, <1>4, <1>8, <1>10, <2>1, <2>2, <3>1, <3>2, <3>3, GoesOn
  <2>4. Recorded'
    BY <1>1, <1>2, <1>4, <1>10, <2>2, AreadRecords
  <2> QED
    BY <1>3, <1>10, <2>3, <2>4 DEF ReaderInv
<1> QED
  BY <1>1, <1>9, <1>10

\* What aread moves in one go: some bytes, no more than fit.
LEMMA AreadCopyIs ==
    ASSUME ReaderInv, AreadCopy
    PROVE  \E c \in Nat \ {0} :
              /\ op.fill + c \in Nat /\ op.fill + c <= BufSize
              /\ b.acur + c \in Nat /\ b.acur + c <= Len(abuf)
              /\ buf' = (Before(buf, op.fill) \o SubSeq(abuf, b.acur + 1, b.acur + c))
                           \o After(buf, op.fill + c)
              /\ \/ /\ op.fill + c = BufSize
                    /\ b' = [b EXCEPT !.acur = b.acur + c, !.size = BufSize]
                    /\ op' = [op EXCEPT !.fill = op.fill + c, !.aread = FALSE]
                 \/ /\ op.fill + c < BufSize
                    /\ b' = [b EXCEPT !.acur = b.acur + c]
                    /\ op' = [op EXCEPT !.fill = op.fill + c, !.aread = TRUE]
<1> DEFINE x == Len(abuf) - b.acur
           y == BufSize - op.fill
           c == Least(x, y)
           full == op.fill + c = BufSize
<1>1. op.aread /\ b.acur < Len(abuf)
  BY DEF AreadCopy
<1>2. /\ buf' = SubSeq(buf, 1, op.fill) \o SubSeq(abuf, b.acur + 1, b.acur + c)
                  \o SubSeq(buf, op.fill + c + 1, Len(buf))
      /\ b' = [b EXCEPT !.acur = @ + c, !.size = IF full THEN BufSize ELSE @]
      /\ op' = [op EXCEPT !.fill = @ + c, !.aread = ~full]
  BY DEF AreadCopy
<1>3. op.fill < BufSize /\ Running
  BY <1>1, InAread
<1>4. IbufTypes
  BY <1>3, InCall
<1>5. b.acur \in Nat /\ Len(abuf) \in Nat /\ op.fill \in Nat /\ BufSize \in Nat
  BY <1>4, Numbers
<1>6. x \in Nat \ {0} /\ y \in Nat \ {0} /\ b.acur + x = Len(abuf) /\ op.fill + y = BufSize
  BY <1>1, <1>3, <1>5
<1> HIDE DEF x, y
<1>7. c \in Nat \ {0} /\ c <= x /\ c <= y
  BY <1>6, LeastIs
<1> HIDE DEF c
<1>8. /\ op.fill + c \in Nat /\ op.fill + c <= BufSize
      /\ b.acur + c \in Nat /\ b.acur + c <= Len(abuf)
  <2>1. c \in Nat /\ x \in Nat /\ y \in Nat /\ c <= x /\ c <= y
    BY <1>6, <1>7
  <2>2. op.fill + c \in Nat /\ op.fill + c <= op.fill + y
    BY <1>5, <2>1
  <2>3. b.acur + c \in Nat /\ b.acur + c <= b.acur + x
    BY <1>5, <2>1
  <2> QED
    BY <1>6, <2>2, <2>3
<1>9. buf' = (Before(buf, op.fill) \o SubSeq(abuf, b.acur + 1, b.acur + c))
                \o After(buf, op.fill + c)
  BY ONLY <1>2 DEF Before, After
<1>10. CASE full
  <2>1. /\ b' = [b EXCEPT !.acur = b.acur + c, !.size = BufSize]
        /\ op' = [op EXCEPT !.fill = op.fill + c, !.aread = FALSE]
    BY <1>2, <1>10
  <2> QED
    BY <1>7, <1>8, <1>9, <1>10, <2>1
<1>11. CASE ~full
  <2>1. b' = [b EXCEPT !.acur = b.acur + c]
    <3>1. b' = [b EXCEPT !.acur = b.acur + c, !.size = b.size]
      BY <1>2, <1>11
    <3> QED
      BY <1>4, <3>1 DEF IbufTypes, Scalars
  <2>2. op' = [op EXCEPT !.fill = op.fill + c, !.aread = TRUE]
    BY <1>2, <1>11
  <2>3. op.fill + c < BufSize
    BY <1>5, <1>8, <1>11
  <2> QED
    BY <1>7, <1>8, <1>9, <2>1, <2>2, <2>3
<1> QED
  BY <1>10, <1>11

LEMMA AreadCopyKeeps == ASSUME ReaderInv, AreadCopy PROVE ReaderInv'
<1>1. op.aread /\ UNCHANGED <<in, fpos, abuf, rec, got, cl>>
  BY DEF AreadCopy
<1>2. PICK c \in Nat \ {0} :
         /\ op.fill + c \in Nat /\ op.fill + c <= BufSize
         /\ b.acur + c \in Nat /\ b.acur + c <= Len(abuf)
         /\ buf' = (Before(buf, op.fill) \o SubSeq(abuf, b.acur + 1, b.acur + c))
                      \o After(buf, op.fill + c)
         /\ \/ /\ op.fill + c = BufSize
               /\ b' = [b EXCEPT !.acur = b.acur + c, !.size = BufSize]
               /\ op' = [op EXCEPT !.fill = op.fill + c, !.aread = FALSE]
            \/ /\ op.fill + c < BufSize
               /\ b' = [b EXCEPT !.acur = b.acur + c]
               /\ op' = [op EXCEPT !.fill = op.fill + c, !.aread = TRUE]
  BY AreadCopyIs
<1>3. /\ Running /\ b.isarmor = "yes" /\ b.cur = 0 /\ b.size = 0 /\ ~b.eof
      /\ op.fill < BufSize /\ op.fill <= Len(buf) /\ cl.phase # "peekedread"
  BY <1>1, InAread
<1>4. cl.phase # "stop" /\ cl.outcome = "none" /\ IbufTypes /\ Bounds
  BY <1>3, InCall
<1>5. /\ b \in Scalars /\ op \in Operations /\ op.fill \in Nat /\ Len(buf) \in Nat /\ buf \in Seq(Char)
      /\ fpos \in Nat /\ fpos <= Len(in.file) /\ Len(buf) <= BufSize /\ BufSize \in Nat
      /\ rec \in Seq(Char) /\ got \in Seq(Char) /\ abuf \in Seq(Char) /\ b.acur \in Nat
      /\ Len(abuf) \in Nat /\ Len(abuf) <= BlockLen
  BY <1>4, Numbers DEF IbufTypes, Bounds
<1>6. buf' \in Seq(Char) /\ Len(buf') \in Nat /\ op.fill + c <= Len(buf') /\ Len(buf') <= BufSize
  <2> DEFINE j == b.acur + c
             k == op.fill + c
             u == Before(buf, op.fill)
             s == SubSeq(abuf, b.acur + 1, j)
             t == u \o s
  <2>1. u \in Seq(Char) /\ Len(u) = op.fill
    BY <1>3, <1>5, Cut
  <2>2. j \in Nat /\ b.acur <= j /\ j <= Len(abuf) /\ j - b.acur = c
    <3>1. b.acur + c \in Nat /\ b.acur + c <= Len(abuf)
      BY <1>2
    <3>2. b.acur \in Nat /\ Len(abuf) \in Nat
      BY <1>5
    <3> QED
      BY <3>1, <3>2
  <2>3. buf' = t \o After(buf, k) /\ k \in Nat /\ k <= BufSize /\ k = op.fill + c
    BY <1>2
  <2> HIDE DEF j
  <2>4. s \in Seq(Char) /\ Len(s) = c
    BY <1>5, <2>2, Slice
  <2> HIDE DEF u, s, k
  <2>5. t \in Seq(Char) /\ Len(t) = op.fill + c
    BY <1>2, <1>5, <2>1, <2>4, Glue
  <2>6. k = Len(t)
    BY <2>3, <2>5
  <2> HIDE DEF t
  <2>7. /\ t \o After(buf, k) \in Seq(Char)
        /\ Len(t \o After(buf, k)) = IF k >= Len(buf) THEN k ELSE Len(buf)
    <3>1. t \in Seq(Char) /\ buf \in Seq(Char)
      BY <1>5, <2>5
    <3> QED
      BY <2>6, <3>1, Stored
  <2>8. buf' \in Seq(Char) /\ Len(buf') = IF k >= Len(buf) THEN k ELSE Len(buf)
    BY <2>3, <2>7
  <2> QED
    BY SMTT(30), <1>5, <2>3, <2>8
<1>7. /\ op' \in Operations /\ op'.name = op.name /\ op'.want = op.want /\ op'.dest = op.dest
      /\ op'.fill = op.fill + c /\ (op'.aread => op.fill + c < BufSize)
  BY <1>2, <1>5 DEF Operations
<1>8. /\ b' \in Scalars /\ b'.cur = 0 /\ b'.acur = b.acur + c /\ b'.isarmor = "yes" /\ ~b'.eof
      /\ b'.recording = b.recording /\ b'.alloc = b.alloc /\ b'.recfail = b.recfail
  BY <1>2, <1>3, <1>5 DEF Scalars
<1>9. b'.size \in Nat /\ b'.size <= Len(buf') /\ (op'.aread => b'.size = 0)
  <2>1. CASE /\ op.fill + c = BufSize
             /\ b' = [b EXCEPT !.acur = b.acur + c, !.size = BufSize]
             /\ op' = [op EXCEPT !.fill = op.fill + c, !.aread = FALSE]
    <3>1. b'.size = BufSize /\ ~op'.aread
      BY <1>5, <2>1 DEF Scalars, Operations
    <3> QED
      BY <1>5, <1>6, <2>1, <3>1
  <2>2. CASE /\ op.fill + c < BufSize
             /\ b' = [b EXCEPT !.acur = b.acur + c]
    <3>1. b'.size = 0
      BY <1>3, <1>5, <2>2 DEF Scalars
    <3> QED
      BY <1>6, <3>1
  <2> QED
    BY <1>2, <2>1, <2>2
<1>10. IbufTypes' /\ Bounds' /\ Running' /\ Called' /\ Serving'
  <2>1. /\ op.name = "bread" => Len(op.dest) < op.want
        /\ op.name = "bpeek" => op.dest = <<>>
    BY <1>4 DEF Bounds
  <2>2. /\ b'.cur <= b'.size /\ b'.acur <= Len(abuf') /\ Len(abuf') <= BlockLen
        /\ abuf' \in Seq(Char) /\ rec' \in Seq(Char) /\ fpos' \in Nat /\ fpos' <= Len(in.file)
        /\ op'.fill <= BufSize
        /\ op.name = "bread" => Len(op'.dest) < op.want
        /\ op.name = "bpeek" => op'.dest = <<>>
    BY <1>1, <1>2, <1>5, <1>7, <1>8, <1>9, <2>1
  <2>3. op'.aread => /\ b'.isarmor = "yes" /\ b'.cur = 0 /\ b'.size = 0 /\ ~b'.eof
                     /\ op'.fill < BufSize /\ op'.fill <= Len(buf')
    BY <1>6, <1>7, <1>8, <1>9
  <2>4. b'.isarmor = b.isarmor /\ b.isarmor # "unchecked"
    BY <1>3, <1>8
  <2>5. Filled'
    BY <1>5, <1>6, <1>8, <1>9, <2>2, FilledTo
  <2> QED
    BY <1>1, <1>3, <1>5, <1>6, <1>7, <1>8, <1>9, <2>2, <2>3, <2>4, <2>5, GoesOn
<1>11. Recorded'
  <2>1. got' \o op'.dest = got \o op.dest
    BY <1>1, <1>7
  <2>2. b'.isarmor = b.isarmor
    BY <1>3, <1>8
  <2> QED
    BY <1>1, <1>5, <1>8, <2>1, <2>2, AreadRecords
<1> QED
  BY <1>1, <1>4, <1>10, <1>11 DEF ReaderInv

LEMMA BufferStepKeeps == ASSUME ReaderInv, BufferStep PROVE ReaderInv'
  BY ProbeKeeps, RecycleKeeps, FillKeeps, FillEndKeeps, AtEndKeeps, CopyKeeps, PeekKeeps,
     AreadBeginKeeps, AreadEndKeeps, AreadBlockKeeps, AreadCopyKeeps, ReadFailsKeeps
  DEF BufferStep

-----------------------------------------------------------------------------
(* The text is opened; the other steps of the whole. *)

LEMMA OpenTextOpens == ASSUME ReaderInv, ObufInv, OpenText PROVE ReaderInv'
<1>1. /\ cl.phase = "waiting" /\ cl' = [cl EXCEPT !.phase = "header"]
      /\ UNCHANGED <<fpos, b, buf, abuf, rec, op, got>>
  BY DEF OpenText
<1>2. cl.phase # "stop" /\ IbufTypes /\ Bounds /\ Serving /\ Recorded
  BY <1>1 DEF ReaderInv
<1>3. ~Running /\ AtRest
  <2>1. ~Running
    BY <1>1, <1>2 DEF Serving, Called, Running, IbufTypes, Operations
  <2> QED
    BY <1>2, <2>1 DEF Serving
<1>4. b.isarmor = "unchecked" /\ Blank /\ ~cl.short
  BY <1>1, <1>2, <1>3 DEF AtRest, Bounds
<1>5. in' \in Inputs /\ in'.mode = "decrypt"
  <2>1. PICK more \in BOOLEAN :
           in' = [kind |-> IF ~isarmor \/ Len(fd) < ProbeLen THEN "plain"
                           ELSE IF fd = Armored(wr.given) /\ ~more THEN "armored"
                           ELSE "damaged",
                  n |-> wr.given, mode |-> "decrypt",
                  file |-> IF more THEN Append(fd, NL) ELSE fd]
    BY DEF OpenText
  <2>2. fd \in Seq(Char) /\ wr.given \in Nat
    BY DEF ObufInv, ObufTypes
  <2>3. Append(fd, NL) \in Seq(Char)
    BY <2>2, NewlineIs, AppendProperties
  <2> DEFINE f == IF more THEN Append(fd, NL) ELSE fd
             k == IF ~isarmor \/ Len(fd) < ProbeLen THEN "plain"
                  ELSE IF fd = Armored(wr.given) /\ ~more THEN "armored"
                  ELSE "damaged"
  <2>4. f \in Seq(Char)
    BY <2>2, <2>3
  <2>5. k \in {"plain", "armored", "damaged"}
    OBVIOUS
  <2>6. in' = [kind |-> k, n |-> wr.given, mode |-> "decrypt", file |-> f]
    BY <2>1
  <2> HIDE DEF f, k
  <2> QED
    BY <2>2, <2>4, <2>5, <2>6 DEF Inputs
<1>6. cl' \in Callers /\ cl'.phase = "header" /\ ~cl'.short /\ cl'.outcome = cl.outcome
      /\ cl'.mac = cl.mac /\ cl'.hdr = cl.hdr
  <2>1. cl \in Callers
    BY <1>2 DEF IbufTypes
  <2> QED
    BY <1>1, <1>4, <2>1 DEF Callers, Stages
<1>7. IbufTypes'
  BY <1>1, <1>2, <1>5, <1>6 DEF IbufTypes
<1>8. Bounds'
  <2>1. fpos' <= Len(in'.file)
    <3>1. in'.file \in Seq(Char)
      BY <1>5 DEF Inputs
    <3>2. Len(in'.file) \in Nat
      BY <3>1, LenProperties
    <3> QED
      BY <1>1, <1>4, <3>2 DEF Blank
  <2>2. ~Running' /\ Idle' = Idle /\ BlockLen' = BlockLen /\ Blank'
    BY <1>1, <1>3, <1>4 DEF Running, Idle, BlockLen, Blank
  <2>3. Filled'
    BY <1>1, <1>2, FilledKept DEF Bounds
  <2> QED
    BY <1>1, <1>2, <1>3, <1>4, <1>6, <2>1, <2>2, <2>3 DEF Bounds
<1>9. Serving'
  <2>1. ~Running' /\ cl'.hdr \in Nat /\ Len(got') = 0
    <3>1. cl.hdr \in Nat
      BY <1>2, Numbers
    <3> QED
      BY <1>1, <1>3, <1>4, <1>6, <3>1, NullLen DEF Running, Blank
  <2> QED
    BY <1>6, <2>1 DEF Serving, AtRest
<1>10. Recorded'
  <2>1. Before(buf, b.cur)' = Before(buf, b.cur)
    BY <1>1 DEF Before
  <2>2. cl.phase \in Reading /\ cl'.phase \in Reading
    BY <1>1, <1>6 DEF Reading
  <2> QED
    BY <1>1, <1>2, <1>5, <1>6, <2>1, <2>2 DEF Recorded
<1> QED
  BY <1>6, <1>7, <1>8, <1>9, <1>10 DEF ReaderInv

LEMMA ReaderStays == ASSUME ReaderInv, UNCHANGED ibufvars PROVE ReaderInv'
<1>1. UNCHANGED <<in, fpos, b, buf, abuf, rec, op, got, cl>>
  BY DEF ibufvars
<1>2. IbufTypes' <=> IbufTypes
  BY <1>1 DEF IbufTypes
<1>3. Running' <=> Running
  BY <1>1 DEF Running
<1>4. Blank' <=> Blank
  BY <1>1 DEF Blank
<1>10. (Filled' <=> Filled) /\ (Stale' <=> Stale)
  BY <1>1 DEF Filled, Stale, MinusTwo
<1>5. Bounds' <=> Bounds
  BY <1>1, <1>3, <1>4, <1>10 DEF Bounds, BlockLen, Idle
<1>6. (Called' <=> Called) /\ (AtRest' <=> AtRest)
  BY <1>1 DEF Called, AtRest
<1>7. Serving' <=> Serving
  BY <1>1, <1>3, <1>6 DEF Serving
<1>8. Recorded' <=> Recorded
  BY <1>1 DEF Recorded, Before
<1>9. MacCoversHeader' <=> MacCoversHeader
  BY <1>1, <1>10 DEF MacCoversHeader
<1> QED
  BY <1>1, <1>2, <1>5, <1>7, <1>8, <1>9, <1>10 DEF ReaderInv

LEMMA ReaderSteps == ASSUME ReaderInv, ObufInv, [Next]_vars PROVE ReaderInv'
<1>1. CASE ObufNext /\ UNCHANGED ibufvars
  BY <1>1, ReaderStays
<1>2. CASE OpenText
  BY <1>2, OpenTextOpens
<1>3. CASE IbufNext /\ UNCHANGED obufvars
  BY <1>3, BufferStepKeeps, CallerStepKeeps DEF IbufNext
<1>4. CASE Done \/ UNCHANGED vars
  <2>1. UNCHANGED ibufvars
    BY <1>4 DEF Done, vars, ibufvars
  <2> QED
    BY <2>1, ReaderStays
<1> QED
  BY <1>1, <1>2, <1>3, <1>4 DEF Next

LEMMA ReaderInvariance == Spec => []ReaderInv
<1>1. Init => ReaderInv
  BY ReaderStart DEF Init
<1>2. ReaderInv /\ ObufInv /\ [Next]_vars => ReaderInv'
  BY ReaderSteps
<1> QED
  BY <1>1, <1>2, WriterInvariance, PTL DEF Spec

LEMMA InvIbufTypeOK == ASSUME ReaderInv PROVE IbufTypeOK
<1>1. IbufTypes /\ Bounds
  BY DEF ReaderInv
<1>2. /\ b.cur \in Nat /\ b.size \in Nat /\ b.acur \in Nat /\ op.fill \in Nat /\ fpos \in Nat
      /\ Len(buf) \in Nat /\ Len(abuf) \in Nat /\ Len(in.file) \in Nat /\ BufSize \in Nat
      /\ Len(op.dest) \in Nat /\ op.want \in Nat /\ cl.outcome \in Outcomes
  BY <1>1, Numbers DEF IbufTypes, Callers
<1>3. Len(op.dest) <= op.want
  <2>1. CASE op.name = "bread"
    BY <1>1, <1>2, <2>1 DEF Bounds
  <2>2. CASE op.name # "bread"
    <3>1. op.name \in {"idle", "bread", "bpeek"}
      BY <1>1 DEF IbufTypes, Operations
    <3>2. op.dest = <<>>
      BY <1>1, <2>2, <3>1 DEF Bounds, Running, Idle
    <3> QED
      BY <1>2, <3>2, NullLen
  <2> QED
    BY <2>1, <2>2
<1>4. /\ fpos <= Len(in.file) /\ b.cur <= b.size /\ Filled /\ Len(buf) <= BufSize
      /\ b.acur <= Len(abuf) /\ Len(abuf) <= BlockLen /\ op.fill <= BufSize
      /\ (cl.phase = "stop") = (cl.outcome # "none")
  BY <1>1 DEF Bounds
<1>6. b.cur <= Len(buf) /\ (Stale \/ b.size <= Len(buf))
  BY <1>4 DEF Filled
<1>7. b.size \in 0..BufSize \cup {MinusTwo}
  BY <1>2, <1>4, <1>6 DEF Stale
<1>8. cl.outcome = "overread" => Stale
  BY <1>4 DEF ReaderInv
<1>5. /\ fpos \in 0..Len(in.file) /\ b.cur \in 0..b.size
      /\ b.acur \in 0..Len(abuf) /\ op.fill \in 0..BufSize
  BY <1>2, <1>4
<1> QED
  BY <1>2, <1>3, <1>4, <1>5, <1>6, <1>7, <1>8 DEF IbufTypeOK

\* The cursors of both buffers stay within their arrays, whatever the sizes of
\* the buffers, blocks and lines and however short the reads and writes are, but
\* where bpeek() has stored aread's -2 for a size: only there does b->size leave
\* the buffer, and only there can a copy read past it (bread, bpeek, aread,
\* bwrite, awrite).
THEOREM TypesHold == Spec => []TypeOK
<1>1. ReaderInv /\ ObufInv => TypeOK
  BY InvIbufTypeOK, InvObufTypeOK DEF TypeOK
<1> QED
  BY <1>1, ReaderInvariance, WriterInvariance, PTL

\* While the header is recorded, the record and the consumed part of the buffer
\* are what the parser was given, across every refill and every peek
\* (recappend in bread and bpeek).
THEOREM RecordsWhatIsRead == Spec => []RecordIsWhatWasRead
<1>1. ReaderInv => RecordIsWhatWasRead
  <2> SUFFICES ASSUME ReaderInv, b.recording, ~b.recfail, cl.phase # "stop"
               PROVE  rec \o SubSeq(buf, 1, b.cur) = got \o op.dest
    BY DEF RecordIsWhatWasRead
  <2>1. Recorded
    BY DEF ReaderInv
  <2>2. rec \o Before(buf, b.cur) = got \o op.dest
    BY <2>1 DEF Recorded
  <2> QED
    BY ONLY <2>2 DEF Before
<1> QED
  BY <1>1, ReaderInvariance, PTL

\* The data of the MAC is the header, but where memory ran out, the armored
\* header was never copied out of the buffer, or the parser went on with old bytes
\* after a refusal that bpeek() dropped (recstop, validmac).
THEOREM MacIsOfTheHeader == Spec => []MacCoversHeader
<1>1. ReaderInv => MacCoversHeader
  <2> SUFFICES ASSUME ReaderInv PROVE MacCoversHeader
    OBVIOUS
  <2>1. CASE cl.phase = "stop"
    BY <2>1 DEF ReaderInv
  <2>2. CASE cl.phase # "stop"
    <3>1. cl.outcome = "none"
      BY <2>2 DEF ReaderInv, Bounds
    <3> QED
      BY <3>1 DEF MacCoversHeader
  <2> QED
    BY <2>1, <2>2
<1> QED
  BY <1>1, ReaderInvariance, PTL

LEMMA PeekedStep ==
    ASSUME ReaderInv, [Next]_vars, cl.phase = "peekedread", ~UNCHANGED ibufvars
    PROVE  cl'.outcome \in {"none", "overread"} /\ ~cl'.short
<1>1. IbufTypes /\ Bounds /\ Serving
  BY DEF ReaderInv
<1>2. IbufNext
  <2>1. ~Done /\ ~OpenText
    BY DEF Done, OpenText
  <2>2. ~UNCHANGED vars
    BY DEF vars, ibufvars
  <2> QED
    BY <2>1, <2>2 DEF Next
<1>3. CASE Running
  <2>1. op.name = "bread" /\ ~op.aread /\ b.isarmor # "unchecked" /\ b.cur < b.size
    BY <1>1, <1>3 DEF Serving, Called, Running, IbufTypes, Operations
  <2>2. b.cur # b.size /\ b.size # 0
    BY SMTT(30), <1>1, <2>1, Numbers
  <2>3. Copy
    <3>1. ~CallerStep
      BY <1>3 DEF CallerStep, HeaderRead, HeaderPeek, ReadPeeked, PeekedRead, HeaderEnds, RecStop,
                  GetMac, CheckMac, GetNonce, NonceRead, ReadChunk, AtEof, MoreChunks, LastChunk,
                  InHeader, At
    <3>2. ~Probe /\ ~Recycle /\ ~Fill /\ ~FillEnd /\ ~AtEnd /\ ~Peek
      BY <2>1, <2>2 DEF Probe, Recycle, Fill, FillEnd, AtEnd, Peek, Empty, Checked
    <3>3. ~AreadBegin /\ ~AreadEnd /\ ~AreadBlock /\ ~AreadCopy /\ ~ReadFails
      BY <2>1, <2>2 DEF AreadBegin, AreadEnd, AreadBlock, AreadCopy, ReadFails, Empty
    <3> QED
      BY <1>2, <3>1, <3>2, <3>3 DEF IbufNext, BufferStep
  <2>7. ~cl.short /\ cl.outcome = "none"
    BY <1>3, InCall DEF Called
  <2>8. CASE Overread
    <3>1. cl' = [cl EXCEPT !.phase = "stop", !.outcome = "overread"]
      BY <2>8 DEF Overread, Stop
    <3> QED
      BY <1>1, <2>7, <3>1 DEF IbufTypes, Callers
  <2> SUFFICES ASSUME ~Overread PROVE cl'.outcome = "none" /\ ~cl'.short
    BY <2>8
  <2>4. PICK c \in Nat \ {0}, s \in Seq(Char) :
           /\ Len(op.dest \o s) = Len(op.dest) + c
           /\ Len(op.dest) + c = op.want /\ BreadReturns(op.dest \o s)
    BY <2>3, CopyIs
  <2>5. ~(Len(op.dest \o s) < op.want)
    BY <1>1, <2>4, Numbers
  <2> DEFINE e == Len(op.dest \o s) < op.want
  <2>6. cl' = [cl EXCEPT !.short = e] /\ ~e
    BY <2>4, <2>5 DEF BreadReturns
  <2> HIDE DEF e
  <2> QED
    BY <1>1, <2>6, <2>7 DEF IbufTypes, Callers
<1>4. CASE ~Running
  <2>1. ~cl.short /\ cl.outcome = "none"
    BY <1>1, <1>4 DEF Serving, AtRest, Bounds
  <2>2. PeekedRead
    <3>1. ~BufferStep
      <4>1. ~op.aread
        BY <1>1, <1>4 DEF Bounds
      <4> QED
        BY <1>4, <4>1 DEF BufferStep, Probe, Recycle, Fill, FillEnd, AtEnd, Copy, Peek, Empty, Checked,
                          AreadBegin, AreadEnd, AreadBlock, AreadCopy, ReadFails
    <3>2. ~HeaderRead /\ ~HeaderPeek /\ ~ReadPeeked /\ ~HeaderEnds /\ ~RecStop
      BY <2>1 DEF HeaderRead, HeaderPeek, ReadPeeked, HeaderEnds, RecStop, InHeader, At
    <3>3. ~GetMac /\ ~CheckMac /\ ~GetNonce /\ ~NonceRead /\ ~ReadChunk /\ ~AtEof /\ ~MoreChunks /\ ~LastChunk
      BY DEF GetMac, CheckMac, GetNonce, NonceRead, ReadChunk, AtEof, MoreChunks, LastChunk, At
    <3> QED
      BY <1>2, <3>1, <3>2, <3>3 DEF IbufNext, CallerStep
  <2>3. cl' = [cl EXCEPT !.phase = "header"]
    BY <2>2 DEF PeekedRead
  <2> QED
    BY <1>1, <2>1, <2>3 DEF IbufTypes, Callers
<1> QED
  BY <1>3, <1>4

\* The read after a successful bpeek() finds its byte: it neither fails nor comes
\* back empty, though after a refusal that bpeek() dropped the byte is an old one
\* or beyond the buffer (getarg and skiparg of parse.c, which ignore the result of
\* readc()).
THEOREM PeekedByteIsRead == Spec => PeekedByteIsThere
<1>1. ReaderInv /\ [Next]_vars =>
         [cl.phase = "peekedread" => cl'.outcome \in {"none", "overread"} /\ ~cl'.short]_ibufvars
  BY PeekedStep
<1> QED
  BY <1>1, ReaderInvariance, PTL DEF Spec, PeekedByteIsThere

-----------------------------------------------------------------------------
(* What a block of an armored text holds. *)

LEMMA EncodedIs ==
    ASSUME NEW m \in Nat
    PROVE  /\ Encode(Bytes(m)) \in Seq(Char) /\ Len(Encode(Bytes(m))) = TextLen(m) /\ TextLen(m) \in Nat
           /\ \A j \in 1..TextLen(m) :
                 /\ IsNL(j, m) => Encode(Bytes(m))[j] = NL
                 /\ ~IsNL(j, m) => Encode(Bytes(m))[j] = <<"byte", Place(j)>>
<1> DEFINE w == Bytes(m)
<1>1. w \in Seq(Char) /\ Len(w) = m /\ \A x \in 1..m : w[x] = <<"byte", x>>
  BY BytesIs
<1> HIDE DEF w
<1>2. /\ Encode(w) \in Seq(Char) /\ Len(Encode(w)) = TextLen(m) /\ TextLen(m) \in Nat
      /\ \A j \in 1..TextLen(m) :
            /\ IsNL(j, m) => Encode(w)[j] = NL
            /\ ~IsNL(j, m) => Encode(w)[j] = w[Place(j)] /\ Place(j) \in 1..m
  BY <1>1, EncodeIs
<1> QED
  BY <1>1, <1>2 DEF w

\* Each character of the text adds one byte, or is a newline.
LEMMA EncodedStep ==
    ASSUME NEW m \in Nat, NEW j \in 1..TextLen(m)
    PROVE  /\ Cnt(j, m) \in Nat /\ Cnt(j - 1, m) \in Nat
           /\ \/ Cnt(j, m) = Cnt(j - 1, m) + 1 /\ Encode(Bytes(m))[j] = <<"byte", Cnt(j, m)>>
              \/ Cnt(j, m) = Cnt(j - 1, m) /\ Encode(Bytes(m))[j][1] # "byte"
<1> DEFINE e == Encode(Bytes(m))
           T == TextLen(m)
<1>1. \A i \in 1..T : /\ IsNL(i, m) => e[i] = NL
                      /\ ~IsNL(i, m) => e[i] = <<"byte", Place(i)>>
  BY EncodedIs
<1>2. /\ Cnt(j, m) \in Nat /\ Cnt(j - 1, m) \in Nat
      /\ IsNL(j, m) => Cnt(j, m) = Cnt(j - 1, m)
      /\ ~IsNL(j, m) => Cnt(j, m) = Cnt(j - 1, m) + 1 /\ Place(j) = Cnt(j, m)
  BY CntStep
<1>3. NL[1] # "byte"
  BY DEF NL
<1> HIDE DEF e
<1>4. CASE IsNL(j, m)
  BY <1>1, <1>2, <1>3, <1>4 DEF e
<1>5. CASE ~IsNL(j, m)
  BY <1>1, <1>2, <1>5 DEF e
<1> QED
  BY <1>4, <1>5

LEMMA CntNat ==
    ASSUME NEW m \in Nat, NEW j \in 0..TextLen(m)
    PROVE  Cnt(j, m) \in Nat /\ Cnt(j, m) <= m
<1>1. TextLen(m) \in Nat /\ Cnt(0, m) = 0
  BY CntAtEnd
<1>2. Cnt(j, m) \in Nat
  <2>1. CASE j = 0
    BY <1>1, <2>1
  <2>2. CASE j # 0
    <3>1. j \in 1..TextLen(m)
      BY <1>1, <2>2
    <3> QED
      BY <3>1, CntStep
  <2> QED
    BY <2>1, <2>2
<1>3. Cnt(j, m) = Upto(j) \/ Cnt(j, m) = m
  BY DEF Cnt, Least
<1>4. Cnt(j, m) = IF Upto(j) < m THEN Upto(j) ELSE m
  BY DEF Cnt, Least
<1> HIDE DEF Cnt
<1>5. CASE Upto(j) < m
  <2>1. Cnt(j, m) < m
    BY <1>4, <1>5
  <2> QED
    BY <1>2, <2>1
<1>6. CASE ~(Upto(j) < m)
  BY <1>2, <1>4, <1>6
<1> QED
  BY <1>5, <1>6

\* The first l characters of s are those after place p of the text of m bytes.
Part(s, p, m, l) ==
    /\ l \in 0..Len(s) /\ p + l <= TextLen(m)
    /\ \A j \in 1..l : s[j] = Encode(Bytes(m))[p + j]

NoByteAfter(s, l) == \A j \in (l + 1)..Len(s) : s[j][1] # "byte"

LEMMA PartBytes ==
    ASSUME NEW s \in Seq(Char), NEW p \in Nat, NEW m \in Nat, NEW l, Part(s, p, m, l),
           NoByteAfter(s, l)
    PROVE  /\ OnlyBytes(s) = Run(Cnt(p, m), Cnt(p + l, m))
           /\ Cnt(p, m) \in Nat /\ Cnt(p + l, m) \in Nat
           /\ Cnt(p, m) <= Cnt(p + l, m) /\ Cnt(p + l, m) <= m
<1> DEFINE n == Len(s)
           T == TextLen(m)
           e == Encode(Bytes(m))
           B == [k \in 0..n |-> IF k <= l THEN Cnt(p + k, m) ELSE Cnt(p + l, m)]
<1>1. n \in Nat /\ T \in Nat /\ l \in 0..n /\ p + l <= T /\ \A j \in 1..l : s[j] = e[p + j]
  BY LenProperties, CntAtEnd DEF Part
<1>2. \A j \in (l + 1)..n : s[j][1] # "byte"
  BY DEF NoByteAfter
<1>3. \A j \in 0..T : Cnt(j, m) \in Nat /\ Cnt(j, m) <= m
  BY CntNat
<1>4. \A j \in 1..T : \/ Cnt(j, m) = Cnt(j - 1, m) + 1 /\ e[j] = <<"byte", Cnt(j, m)>>
                      \/ Cnt(j, m) = Cnt(j - 1, m) /\ e[j][1] # "byte"
  BY EncodedStep
<1> HIDE DEF n, T, e
<1>5. \A k \in 0..l : p + k \in 0..T
  BY <1>1
<1>6. \A k \in 0..n : B[k] \in Nat
  <2>1. l \in 0..l
    BY <1>1
  <2>2. ASSUME NEW k \in 0..n PROVE B[k] \in Nat
    <3>1. CASE k <= l
      <4>1. k \in 0..l
        BY <1>1, <3>1
      <4> QED
        BY <1>3, <1>5, <3>1, <4>1
    <3>2. CASE ~(k <= l)
      BY <1>3, <1>5, <2>1, <3>2
    <3> QED
      BY <3>1, <3>2
  <2> QED
    BY <2>2
<1>7. ASSUME NEW k \in 1..n
      PROVE  \/ B[k] = B[k - 1] + 1 /\ s[k] = <<"byte", B[k]>>
             \/ B[k] = B[k - 1] /\ s[k][1] # "byte"
  <2>1. k \in 0..n /\ k - 1 \in 0..n
    BY <1>1
  <2>2. CASE k <= l
    <3> DEFINE j == p + k
    <3>1. k \in 1..l /\ j \in 1..T /\ p + (k - 1) = j - 1 /\ k - 1 <= l
      BY <1>1, <2>2
    <3>2. B[k] = Cnt(j, m) /\ B[k - 1] = Cnt(p + (k - 1), m)
      BY <2>1, <2>2, <3>1
    <3>3. s[k] = e[j]
      BY <1>1, <3>1
    <3> HIDE DEF j, B
    <3>4. B[k - 1] = Cnt(j - 1, m)
      BY <3>1, <3>2
    <3> QED
      BY <1>4, <3>1, <3>2, <3>3, <3>4
  <2>3. CASE ~(k <= l)
    <3>1. k \in (l + 1)..n
      BY <1>1, <2>3
    <3>2. B[k] = Cnt(p + l, m)
      BY <2>1, <2>3
    <3>3. B[k - 1] = Cnt(p + l, m)
      <4>1. CASE k - 1 <= l
        <5>1. k - 1 = l
          BY <1>1, <2>3, <4>1
        <5> QED
          BY <2>1, <4>1, <5>1
      <4>2. CASE ~(k - 1 <= l)
        BY <2>1, <4>2
      <4> QED
        BY <4>1, <4>2
    <3> QED
      BY <1>2, <3>1, <3>2, <3>3
  <2> QED
    BY <2>2, <2>3
<1>8. B[0] = Cnt(p, m) /\ B[n] = Cnt(p + l, m)
  <2>1. 0 \in 0..n /\ n \in 0..n /\ 0 <= l /\ p + 0 = p
    BY <1>1
  <2>2. B[0] = Cnt(p, m)
    BY <2>1
  <2>3. CASE n <= l
    <3>1. n = l
      BY <1>1, <2>3
    <3> QED
      BY <2>1, <2>2, <2>3, <3>1
  <2>4. CASE ~(n <= l)
    BY <2>1, <2>2, <2>4
  <2> QED
    BY <2>3, <2>4
<1>9. 0 \in 0..n /\ n \in 0..n /\ l \in 0..l
  BY <1>1
<1> HIDE DEF B
<1>10. B[0] <= B[Len(s)] /\ OnlyBytes(s) = Run(B[0], B[Len(s)])
  BY <1>6, <1>7, Counted DEF n
<1>11. Cnt(p + l, m) <= m
  BY <1>3, <1>5, <1>9
<1>12. B[0] \in Nat /\ B[n] \in Nat /\ n = Len(s)
  BY <1>6, <1>9 DEF n
<1> QED
  BY <1>8, <1>10, <1>11, <1>12

LEMMA BlockSize ==
    /\ BlockLen \in Nat \ {0} /\ EndLen \in Nat \ {0} /\ EndLen <= BlockLen
    /\ BlockLen = BlockLines * W /\ BlockLines \in Nat \ {0} /\ W \in Nat \ {0}
<1> DEFINE x == BlockLines - 1
           y == x * W
<1>1. BlockLines \in Nat \ {0} /\ W \in Nat \ {0} /\ BlockLen = BlockLines * W /\ EndLen \in Nat \ {0}
      /\ EndLen <= W
  BY Lengths DEF BlockLen, W
<1>2. x \in Nat /\ BlockLines = x + 1
  BY <1>1
<1> HIDE DEF x
<1>3. y \in Nat /\ (x + 1) * W = y + W
  BY <1>1, <1>2, Multiples
<1> HIDE DEF y
<1> QED
  BY <1>1, <1>2, <1>3

\* Two texts that agree.
LEMMA EndIs ==
    ASSUME NEW s \in Seq(Char)
    PROVE  /\ EndCheck(s) = "full" => /\ EndLen <= Len(s)
                                      /\ \A x \in 1..EndLen : s[Len(s) - EndLen + x] = <<"end", x>>
           /\ (/\ EndLen <= Len(s)
               /\ \A x \in 1..EndLen : s[Len(s) - EndLen + x] = <<"end", x>>) => EndCheck(s) = "full"
           /\ EndCheck(s) \in {"bad", "full", "none"}
           /\ (/\ EndLen <= Len(s)
               /\ s[Len(s) - EndLen + 1][1] # "end") => EndCheck(s) = "none"
<1> DEFINE n == Len(s)
           i == n - EndLen
           t == SubSeq(s, i + 1, n)
<1>1. n \in Nat /\ EndLen \in Nat \ {0}
  BY LenProperties, Lengths
<1>2. EndLine \in Seq(Char) /\ Len(EndLine) = EndLen /\ \A x \in 1..EndLen : EndLine[x] = <<"end", x>>
  BY <1>1, Lines DEF EndLine
<1>3. ASSUME EndLen <= n
      PROVE  t \in Seq(Char) /\ Len(t) = EndLen /\ \A x \in 1..EndLen : t[x] = s[i + x]
  <2>1. i \in Nat /\ i <= n /\ n <= Len(s) /\ n - i = EndLen
    BY <1>1, <1>3
  <2> HIDE DEF i, n
  <2> QED
    BY <1>1, <2>1, Slice
<1>4. EndCheck(s) = IF n < EndLen THEN "bad"
                    ELSE IF t = EndLine THEN "full"
                    ELSE IF s[i + 1] = EndLine[1] THEN "bad"
                    ELSE "none"
  BY DEF EndCheck
<1> HIDE DEF n, i, t
<1>5. 1 \in 1..EndLen
  BY <1>1
<1>6. EndLen <= n /\ t = EndLine => \A x \in 1..EndLen : s[i + x] = <<"end", x>>
  BY <1>2, <1>3
<1>7. EndLen <= n /\ (\A x \in 1..EndLen : s[i + x] = <<"end", x>>) => t = EndLine
  <2>1. SUFFICES ASSUME EndLen <= n, \A x \in 1..EndLen : s[i + x] = <<"end", x>>
                 PROVE  t = EndLine
    OBVIOUS
  <2>2. t \in Seq(Char) /\ Len(t) = EndLen /\ \A x \in 1..EndLen : t[x] = s[i + x]
    BY <1>3, <2>1
  <2>3. \A x \in 1..Len(t) : t[x] = EndLine[x]
    BY <1>2, <2>1, <2>2
  <2> QED
    BY <1>2, <2>2, <2>3, Same
<1>8. ~(n < EndLen) <=> EndLen <= n
  BY <1>1
<1>9. EndLen <= n /\ s[i + 1][1] # "end" => EndCheck(s) = "none"
  <2>1. SUFFICES ASSUME EndLen <= n, s[i + 1][1] # "end" PROVE EndCheck(s) = "none"
    OBVIOUS
  <2>2. s[i + 1] # EndLine[1]
    BY <1>2, <1>5, <2>1
  <2>3. t # EndLine
    BY <1>2, <1>5, <1>6, <2>1, <2>2
  <2> QED
    BY <1>4, <1>8, <2>1, <2>2, <2>3
<1>10. EndCheck(s) = "full" <=> EndLen <= n /\ t = EndLine
  BY <1>4, <1>8
<1>11. EndCheck(s) \in {"bad", "full", "none"}
  BY <1>4
<1> QED
  BY <1>6, <1>7, <1>9, <1>10, <1>11 DEF n, i

LEMMA MultipleOf == ASSUME NEW z \in Nat PROVE (z * W) % W = 0
<1> DEFINE c == 0
           x == z * W
<1>1. W \in Nat \ {0} /\ c \in Nat /\ c < W /\ x \in Nat
  BY Lengths, Multiples
<1>2. x = z * W + c
  BY <1>1
<1>3. c = 0
  OBVIOUS
<1> HIDE DEF c, x
<1>4. x % W = c
  BY <1>1, <1>2, QuotientIs
<1> QED
  BY <1>3, <1>4 DEF x

\* A piece of the text, from the beginning of a line to the end of a line or of the
\* text, holds no END line and decodes.
LEMMA PartDecodes ==
    ASSUME NEW s \in Seq(Char), NEW p \in Nat, NEW m \in Nat, Part(s, p, m, Len(s)),
           NEW q \in Nat, p = q * W,
           s = <<>> \/ p + Len(s) = TextLen(m) \/ (\E z \in Nat : Len(s) = z * W)
    PROVE  /\ ~MayRefuse(s) /\ Decodings(s) = {OnlyBytes(s)}
           /\ EndLen <= Len(s) => EndCheck(s) = "none"
<1> DEFINE n == Len(s)
           T == TextLen(m)
           e == Encode(Bytes(m))
<1>1. n \in Nat /\ T \in Nat /\ p + n <= T /\ \A j \in 1..n : s[j] = e[p + j]
  BY LenProperties, CntAtEnd DEF Part
<1>2. \A j \in 1..T : /\ IsNL(j, m) => e[j] = NL
                      /\ ~IsNL(j, m) => e[j] = <<"byte", Place(j)>>
  BY EncodedIs
<1>3. W \in Nat \ {0} /\ W = LineLen + 1
  BY Lengths
<1> HIDE DEF T, e, n
<1>4. \A j \in 1..n : p + j \in 1..T
  BY <1>1
<1>5. ASSUME NEW j \in 1..n
      PROVE  /\ (p + j) % W = 0 <=> j % W = 0
             /\ p + j = T => j = n
  <2>1. j \in Nat /\ p + j <= T
    BY <1>1
  <2>2. (q * W + j) % W = 0 <=> j % W = 0
    <3>1. j \in Nat \ {0}
      BY <1>1
    <3> DEFINE l == 0
    <3>2. l \in Nat
      OBVIOUS
    <3> HIDE DEF l
    <3> QED
      BY <3>1, <3>2, Shift
  <2> QED
    BY <1>1, <2>1, <2>2
<1>6. LineEnds(s) = {j \in 1..n : j % W = 0}
  BY <1>3 DEF LineEnds, n
<1>7. Clean(s)
  <2>1. ASSUME NEW j \in 1..n
        PROVE  \/ s[j] = NL /\ (j \in LineEnds(s) \/ j = n)
               \/ s[j][1] = "byte" /\ j \notin LineEnds(s)
    <3>1. CASE IsNL(p + j, m)
      <4>1. s[j] = NL
        BY <1>1, <1>2, <1>4, <3>1
      <4>2. (p + j) % W = 0 \/ p + j = T
        BY <3>1 DEF IsNL, T
      <4> QED
        BY <1>5, <1>6, <4>1, <4>2
    <3>2. CASE ~IsNL(p + j, m)
      <4>1. s[j] = <<"byte", Place(p + j)>>
        BY <1>1, <1>2, <1>4, <3>2
      <4>2. ~((p + j) % W = 0)
        BY <3>2 DEF IsNL
      <4>3. s[j][1] = "byte"
        BY <4>1
      <4> QED
        BY <1>5, <1>6, <4>2, <4>3
    <3> QED
      BY <3>1, <3>2
  <2> QED
    BY <2>1 DEF Clean, n
<1>8. s = <<>> \/ Last(s) = NL
  <2>1. SUFFICES ASSUME s # <<>> PROVE Last(s) = NL
    OBVIOUS
  <2>2. n # 0
    BY <2>1, EmptySeq DEF n
  <2>3. n \in 1..n /\ Last(s) = s[n]
    BY <1>1, <2>2 DEF Last, n
  <2>4. IsNL(p + n, m)
    <3>1. CASE p + n = T
      BY <3>1 DEF IsNL, T
    <3>2. CASE \E z \in Nat : n = z * W
      <4>1. PICK z \in Nat : n = z * W
        BY <3>2
      <4>2. n % W = 0
        BY <4>1, MultipleOf
      <4> QED
        BY <1>5, <2>3, <4>2 DEF IsNL
    <3> QED
      BY <2>1, <3>1, <3>2 DEF n, T
  <2> QED
    BY <1>1, <1>2, <1>4, <2>3, <2>4
<1>9. ~MayRefuse(s) /\ Decodings(s) = {OnlyBytes(s)}
  BY <1>7, <1>8 DEF MayRefuse, Decodings
<1>10. EndLen <= Len(s) => EndCheck(s) = "none"
  <2>1. SUFFICES ASSUME EndLen <= n PROVE EndCheck(s) = "none"
    BY DEF n
  <2> DEFINE j == n - EndLen + 1
  <2>2. j \in 1..n
    BY <1>1, <2>1, Lengths
  <2>3. s[j] = NL \/ s[j] = <<"byte", Place(p + j)>>
    <3> HIDE DEF j
    <3> QED
      BY <1>1, <1>2, <1>4, <2>2
  <2>4. s[j][1] # "end"
    <3> HIDE DEF j
    <3> QED
      BY <2>3 DEF NL
  <2> QED
    BY <2>1, <2>4, EndIs DEF n
<1> QED
  BY <1>9, <1>10

LEMMA ArmoredIs ==
    ASSUME NEW m \in Nat
    PROVE  /\ Armored(m) \in Seq(Char) /\ TextLen(m) \in Nat
           /\ Len(Armored(m)) = (ProbeLen + TextLen(m)) + EndLen
           /\ \A j \in 1..ProbeLen : Armored(m)[j] = <<"begin", j>>
           /\ \A j \in 1..TextLen(m) : Armored(m)[ProbeLen + j] = Encode(Bytes(m))[j]
           /\ \A x \in 1..EndLen : Armored(m)[(ProbeLen + TextLen(m)) + x] = <<"end", x>>
<1> DEFINE e == Encode(Bytes(m))
           T == TextLen(m)
           h == BeginLine \o e
           z == h \o EndLine
           R == ProbeLen + T
<1>1. e \in Seq(Char) /\ Len(e) = T /\ T \in Nat
  BY EncodedIs
<1>2. /\ BeginLine \in Seq(Char) /\ Len(BeginLine) = ProbeLen
      /\ EndLine \in Seq(Char) /\ Len(EndLine) = EndLen
  BY Lines
<1>3. \A x \in 1..ProbeLen : BeginLine[x] = <<"begin", x>>
  BY DEF BeginLine
<1>4. \A x \in 1..EndLen : EndLine[x] = <<"end", x>>
  BY DEF EndLine
<1>5. Armored(m) = z
  BY DEF Armored
<1> HIDE DEF e, T
<1>6. /\ h \in Seq(Char) /\ Len(h) = ProbeLen + T /\ ProbeLen \in Nat
      /\ \A i \in 1..(ProbeLen + T) : h[i] = IF i <= ProbeLen THEN BeginLine[i] ELSE e[i - ProbeLen]
  <2> DEFINE g == BeginLine
  <2>1. g \in Seq(Char) /\ Len(g) = ProbeLen /\ e \in Seq(Char) /\ Len(e) = T
    BY <1>1, <1>2
  <2> HIDE DEF g
  <2>2. /\ g \o e \in Seq(Char) /\ Len(g \o e) = ProbeLen + T /\ ProbeLen \in Nat
        /\ \A i \in 1..(ProbeLen + T) : (g \o e)[i] = IF i <= ProbeLen THEN g[i] ELSE e[i - ProbeLen]
    BY <2>1, Glue
  <2> QED
    BY <2>2 DEF g
<1> HIDE DEF h
<1>7. h \in Seq(Char) /\ Len(h) = R /\ R \in Nat /\ R = ProbeLen + T
  BY <1>1, <1>6
<1> HIDE DEF R
<1>8. /\ z \in Seq(Char) /\ Len(z) = R + EndLen /\ EndLen \in Nat
      /\ \A i \in 1..(R + EndLen) : z[i] = IF i <= R THEN h[i] ELSE EndLine[i - R]
  BY <1>2, <1>7, Glue
<1> HIDE DEF z
<1>9. ASSUME NEW j \in 1..ProbeLen PROVE z[j] = <<"begin", j>>
  <2>1. j \in 1..R /\ j \in 1..(R + EndLen) /\ j <= R /\ j <= ProbeLen
    BY <1>1, <1>6, <1>7, <1>8
  <2> QED
    BY <1>3, <1>6, <1>7, <1>8, <2>1
<1>10. ASSUME NEW j \in 1..T PROVE z[ProbeLen + j] = e[j]
  <2> DEFINE i == ProbeLen + j
  <2>1. i \in 1..R /\ i \in 1..(R + EndLen) /\ i <= R /\ ~(i <= ProbeLen) /\ i - ProbeLen = j
    BY <1>1, <1>6, <1>7, <1>8
  <2> HIDE DEF i
  <2>2. z[i] = e[j]
    BY <1>6, <1>7, <1>8, <2>1
  <2> QED
    BY <2>2 DEF i
<1>11. ASSUME NEW x \in 1..EndLen PROVE z[R + x] = <<"end", x>>
  <2> DEFINE i == R + x
  <2>1. i \in 1..(R + EndLen) /\ ~(i <= R) /\ i - R = x
    BY <1>7, <1>8
  <2> HIDE DEF i
  <2>2. z[i] = <<"end", x>>
    BY <1>4, <1>8, <2>1
  <2> QED
    BY <2>2 DEF i
<1> QED
  BY <1>1, <1>5, <1>7, <1>8, <1>9, <1>10, <1>11 DEF e, T

\* f is the armored text of m bytes, cut after the BEGIN line or not, with a newline
\* after it or not.
FileIs(f, m) ==
    \E k \in ProbeLen..Len(Armored(m)) :
        /\ Len(f) = k \/ (Len(f) = k + 1 /\ f[k + 1] = NL)
        /\ \A j \in 1..k : f[j] = Armored(m)[j]

\* What the character at place x of a block can be.
Shows(f, m, p, r, s, x) ==
    \/ p + x <= TextLen(m) /\ s[x] = Encode(Bytes(m))[p + x]
    \/ /\ TextLen(m) < p + x /\ p + x <= TextLen(m) + EndLen
       /\ s[x] = <<"end", (p + x) - TextLen(m)>>
    \/ x = r /\ (ProbeLen + p) + r = Len(f) /\ s[x] = NL

Block(f, m, p, r, s) ==
    /\ s \in Seq(Char) /\ Len(s) = r
    /\ \A x \in 1..r : Shows(f, m, p, r, s, x) /\ s[x] = f[(ProbeLen + p) + x]

LEMMA BlockShows ==
    ASSUME NEW f \in Seq(Char), NEW m \in Nat, FileIs(f, m), NEW p \in Nat, NEW r \in Nat,
           (ProbeLen + p) + r <= Len(f),
           NEW s, s = SubSeq(f, (ProbeLen + p) + 1, (ProbeLen + p) + r)
    PROVE  Block(f, m, p, r, s)
<1> DEFINE A == Armored(m)
           T == TextLen(m)
           e == Encode(Bytes(m))
           i == ProbeLen + p
           j == i + r
<1>1. PICK k \in ProbeLen..Len(A) :
         /\ Len(f) = k \/ (Len(f) = k + 1 /\ f[k + 1] = NL)
         /\ \A y \in 1..k : f[y] = A[y]
  BY DEF FileIs
<1>2. /\ T \in Nat /\ Len(A) = (ProbeLen + T) + EndLen
      /\ \A y \in 1..T : A[ProbeLen + y] = e[y]
      /\ \A x \in 1..EndLen : A[(ProbeLen + T) + x] = <<"end", x>>
  BY ArmoredIs
<1>3. ProbeLen \in Nat /\ EndLen \in Nat /\ Len(f) \in Nat
  BY Lengths, LenProperties
<1> HIDE DEF A, T, e
<1>4. k \in Nat /\ k <= (ProbeLen + T) + EndLen
  BY <1>1, <1>2, <1>3
<1>5. i \in Nat /\ j \in Nat /\ i <= j /\ j <= Len(f) /\ j - i = r
  BY <1>3
<1>6. s = SubSeq(f, i + 1, j)
  OBVIOUS
<1> HIDE DEF i, j
<1>7. s \in Seq(Char) /\ Len(s) = r /\ \A x \in 1..r : s[x] = f[i + x]
  <2>1. /\ SubSeq(f, i + 1, j) \in Seq(Char) /\ Len(SubSeq(f, i + 1, j)) = j - i
        /\ \A x \in 1..(j - i) : SubSeq(f, i + 1, j)[x] = f[i + x]
    BY <1>5, Slice
  <2> QED
    BY <1>5, <1>6, <2>1
<1>8. ASSUME NEW x \in 1..r PROVE Shows(f, m, p, r, s, x)
  <2> DEFINE y == p + x
             g == i + x
  <2>1. y \in Nat \ {0} /\ g \in Nat \ {0} /\ g = ProbeLen + y /\ g <= Len(f)
    BY <1>3, <1>5 DEF i, j
  <2>2. s[x] = f[g]
    BY <1>7
  <2>3. CASE g <= k /\ y <= T
    <3>1. y \in 1..T /\ g \in 1..k
      BY <1>2, <1>4, <2>1, <2>3
    <3> HIDE DEF y, g
    <3>2. s[x] = e[y]
      BY <1>1, <1>2, <2>1, <2>2, <3>1
    <3> QED
      BY <2>3, <3>2 DEF Shows, y, T, e
  <2>4. CASE g <= k /\ ~(y <= T)
    <3> DEFINE u == y - T
    <3> HIDE DEF y, g
    <3>0. /\ T \in Nat /\ ProbeLen \in Nat /\ EndLen \in Nat /\ k \in Nat /\ k <= (ProbeLen + T) + EndLen
          /\ y \in Nat /\ g \in Nat \ {0} /\ g = ProbeLen + y /\ g <= k /\ T < y
      BY <1>2, <1>3, <1>4, <2>1, <2>4
    <3>1. u \in 1..EndLen /\ g \in 1..k /\ g = (ProbeLen + T) + u /\ T < y /\ y <= T + EndLen
      BY ONLY <3>0
    <3> HIDE DEF u
    <3>2. s[x] = <<"end", u>>
      BY <1>1, <1>2, <2>2, <3>1
    <3>3. T < y /\ y <= T + EndLen /\ s[x] = <<"end", y - T>>
      BY <3>1, <3>2 DEF u
    <3> QED
      BY ONLY <3>3 DEF Shows, y, T
  <2>5. CASE ~(g <= k)
    <3>1. g = k + 1 /\ Len(f) = k + 1 /\ f[k + 1] = NL
      BY <1>1, <1>4, <2>1, <2>5
    <3>2. x = r /\ (ProbeLen + p) + r = Len(f)
      BY <1>3, <1>5, <2>1, <3>1 DEF i, j
    <3>3. s[x] = NL
      BY <2>2, <3>1
    <3> QED
      BY <3>2, <3>3 DEF Shows
  <2> QED
    BY <2>3, <2>4, <2>5
<1> QED
  BY <1>7, <1>8 DEF i, Block

LEMMA Partly ==
    ASSUME NEW s \in Seq(Char), NEW p \in Nat, NEW m \in Nat, NEW l, Part(s, p, m, l),
           NEW k \in 0..l
    PROVE  /\ Part(s, p, m, k)
           /\ Before(s, k) \in Seq(Char) /\ Len(Before(s, k)) = k
           /\ Part(Before(s, k), p, m, k)
<1>1. Len(s) \in Nat /\ TextLen(m) \in Nat /\ l \in 0..Len(s) /\ p + l <= TextLen(m)
      /\ \A j \in 1..l : s[j] = Encode(Bytes(m))[p + j]
  BY LenProperties, CntAtEnd DEF Part
<1>2. k \in 0..Len(s) /\ p + k <= TextLen(m) /\ \A j \in 1..k : j \in 1..l
  BY <1>1
<1>3. /\ Before(s, k) \in Seq(Char) /\ Len(Before(s, k)) = k
      /\ \A i \in 1..k : Before(s, k)[i] = s[i]
  BY <1>2, Cut
<1>4. k \in 0..k
  BY <1>1
<1> DEFINE t == Before(s, k)
<1>5. Len(t) = k /\ \A i \in 1..k : t[i] = s[i]
  BY <1>3
<1> HIDE DEF t
<1>6. Part(t, p, m, k)
  BY <1>1, <1>2, <1>4, <1>5 DEF Part
<1> QED
  BY <1>1, <1>2, <1>3, <1>6 DEF Part, t

LEMMA NewlineOrByte ==
    ASSUME NEW c, c = NL \/ c[1] = "byte"
    PROVE  \A y : c # <<"end", y>>
<1>1. \A y : <<"end", y>>[1] = "end"
  OBVIOUS
<1>2. NL[1] # "end"
  BY DEF NL
<1>3. c[1] # "end"
  BY <1>2
<1> QED
  BY <1>1, <1>3

LEMMA Regrouped == ASSUME NEW x \in Nat, NEW y \in Nat, NEW z \in Nat PROVE x * (y * z) = (x * y) * z
  OBVIOUS

\* A block that decodes as it is brings the next bytes of the text.
LEMMA BlockNone ==
    ASSUME NEW f \in Seq(Char), NEW m \in Nat, FileIs(f, m), NEW p \in Nat, p <= TextLen(m),
           NEW r \in Nat \ {0}, (ProbeLen + p) + r <= Len(f),
           NEW s, Block(f, m, p, r, s), NEW d \in Decodings(s)
    PROVE  \E g \in Nat : /\ Cnt(p, m) <= g /\ g <= m /\ d = Run(Cnt(p, m), g) /\ Cnt(p, m) \in Nat
                          /\ (ProbeLen + p) + r < Len(f) /\ r = BlockLen
                                => p + r <= TextLen(m) /\ g = Cnt(p + r, m)
<1> DEFINE e == Encode(Bytes(m))
           T == TextLen(m)
           last == (ProbeLen + p) + r = Len(f)
<1>1. /\ s \in Seq(Char) /\ Len(s) = r /\ \A x \in 1..r : Shows(f, m, p, r, s, x)
  BY DEF Block
<1>2. Clean(s)
  BY DEF Decodings
<1>3. T \in Nat /\ r \in Nat \ {0} /\ p \in Nat /\ p <= T
  BY CntAtEnd
<1>4. ASSUME NEW x \in 1..r
      PROVE  \/ p + x <= T /\ s[x] = e[p + x]
             \/ x = r /\ last /\ s[x] = NL
  <2>1. s[x] = NL \/ s[x][1] = "byte"
    BY <1>1, <1>2 DEF Clean
  <2>2. s[x] # <<"end", (p + x) - T>>
    BY <2>1, NewlineOrByte
  <2>3. Shows(f, m, p, r, s, x)
    BY <1>1
  <2> QED
    BY <2>2, <2>3 DEF Shows
<1> HIDE DEF e, T, last
<1>5. r \in 1..r
  BY <1>3
<1>6. CASE p + r <= T /\ s[r] = e[p + r]
  <2>1. \A x \in 1..r : p + x <= T /\ s[x] = e[p + x]
    BY <1>4, <1>6
  <2>2. Part(s, p, m, r)
    <3>1. r \in 0..Len(s)
      BY <1>1, <1>3
    <3> QED
      BY <1>6, <2>1, <3>1 DEF Part, T, e
  <2>3. /\ OnlyBytes(s) = Run(Cnt(p, m), Cnt(p + r, m))
        /\ Cnt(p, m) \in Nat /\ Cnt(p + r, m) \in Nat
        /\ Cnt(p, m) <= Cnt(p + r, m) /\ Cnt(p + r, m) <= m
    <3>1. NoByteAfter(s, r) /\ s \in Seq(Char)
      BY <1>1, <1>3 DEF NoByteAfter
    <3> QED
      BY <2>2, <3>1, PartBytes
  <2>4. CASE d = OnlyBytes(s)
    BY <1>6, <2>3, <2>4 DEF T
  <2>5. CASE d # OnlyBytes(s)
    <3> DEFINE k == r - 1
    <3>1. s # <<>> /\ Last(s) # NL /\ d = OnlyBytes(Front(s))
      BY <1>2, <2>5 DEF Decodings
    <3>2. k \in 0..r /\ k \in Nat
      BY <1>3
    <3>3. Front(s) = Before(s, k)
      BY <1>1 DEF Front, Before
    <3> HIDE DEF k
    <3>4. /\ Before(s, k) \in Seq(Char) /\ Len(Before(s, k)) = k
          /\ Part(Before(s, k), p, m, k)
      <4>1. s \in Seq(Char) /\ k \in 0..r
        BY <1>1, <3>2
      <4> QED
        BY <2>2, <4>1, Partly
    <3> DEFINE t == Before(s, k)
    <3>5. t \in Seq(Char) /\ Len(t) = k /\ Part(t, p, m, k) /\ d = OnlyBytes(t)
      BY <3>1, <3>3, <3>4
    <3> HIDE DEF t
    <3>6. NoByteAfter(t, k)
      BY <3>2, <3>5 DEF NoByteAfter
    <3>7. /\ OnlyBytes(t) = Run(Cnt(p, m), Cnt(p + k, m))
          /\ Cnt(p, m) \in Nat /\ Cnt(p + k, m) \in Nat
          /\ Cnt(p, m) <= Cnt(p + k, m) /\ Cnt(p + k, m) <= m
      BY <3>5, <3>6, PartBytes
    <3>8. r # BlockLen
      <4>1. SUFFICES ASSUME r = BlockLen PROVE FALSE
        OBVIOUS
      <4>2. r % W = 0
        BY <4>1, BlockSize, MultipleOf
      <4>3. r \in LineEnds(s)
        <5>1. r % (LineLen + 1) = 0
          BY <4>2, Lengths
        <5> QED
          BY <1>1, <1>5, <5>1 DEF LineEnds
      <4>4. s[r] = NL
        BY <1>1, <1>2, <1>5, <4>3 DEF Clean
      <4>5. Last(s) = s[r]
        BY <1>1 DEF Last
      <4> QED
        BY <3>1, <4>4, <4>5
    <3> QED
      BY <3>5, <3>7, <3>8
  <2> QED
    BY <2>4, <2>5
<1>7. CASE ~(p + r <= T /\ s[r] = e[p + r])
  <2> DEFINE l == r - 1
  <2>1. last /\ s[r] = NL
    BY <1>4, <1>5, <1>7
  <2>2. l \in 0..r /\ l \in Nat /\ l # r /\ r = l + 1
    BY <1>3
  <2> HIDE DEF l
  <2>3. ASSUME NEW x \in 1..l PROVE p + x <= T /\ s[x] = e[p + x]
    <3>1. x \in 1..r /\ x # r
      BY <2>2
    <3> QED
      BY <1>4, <3>1
  <2>4. p + l <= T
    <3>1. CASE l = 0
      BY <1>3, <3>1
    <3>2. CASE l # 0
      <4>1. l \in 1..l
        BY <2>2, <3>2
      <4> QED
        BY <2>3, <4>1
    <3> QED
      BY <3>1, <3>2
  <2>5. Part(s, p, m, l)
    BY <1>1, <2>2, <2>3, <2>4 DEF Part, T, e
  <2>6. NoByteAfter(s, l) /\ s \in Seq(Char)
    <3>1. ASSUME NEW j \in (l + 1)..Len(s) PROVE s[j][1] # "byte"
      <4>1. j = r
        BY <1>1, <2>2
      <4> QED
        BY <2>1, <4>1 DEF NL
    <3> QED
      BY <1>1, <3>1 DEF NoByteAfter
  <2>7. /\ OnlyBytes(s) = Run(Cnt(p, m), Cnt(p + l, m))
        /\ Cnt(p, m) \in Nat /\ Cnt(p + l, m) \in Nat
        /\ Cnt(p, m) <= Cnt(p + l, m) /\ Cnt(p + l, m) <= m
    BY <2>5, <2>6, PartBytes
  <2>8. d = OnlyBytes(s)
    <3>1. Last(s) = NL
      BY <1>1, <2>1 DEF Last
    <3> QED
      BY <1>2, <3>1 DEF Decodings
  <2>9. ~((ProbeLen + p) + r < Len(f))
    <3>1. Len(f) \in Nat
      BY LenProperties
    <3> QED
      BY <2>1, <3>1 DEF last
  <2> QED
    BY <2>7, <2>8, <2>9
<1> QED
  BY <1>6, <1>7

\* A block that ends in the END line at the end of the text is the end of the one text
\* of m bytes, and brings the last of them.
LEMMA BlockFull ==
    ASSUME NEW f \in Seq(Char), NEW m \in Nat, FileIs(f, m), NEW p \in Nat, p <= TextLen(m),
           NEW q \in Nat, p = q * W,
           NEW r \in Nat \ {0}, (ProbeLen + p) + r = Len(f),
           NEW s, Block(f, m, p, r, s), EndCheck(s) = "full"
    PROVE  /\ f = Armored(m) /\ Cnt(p, m) \in Nat /\ Cnt(p, m) <= m
           /\ Decodings(Before(s, r - EndLen)) = {Run(Cnt(p, m), m)}
<1> DEFINE e == Encode(Bytes(m))
           T == TextLen(m)
           A == Armored(m)
<1>1. /\ s \in Seq(Char) /\ Len(s) = r /\ \A x \in 1..r : Shows(f, m, p, r, s, x)
      /\ \A x \in 1..r : s[x] = f[(ProbeLen + p) + x]
  BY DEF Block
<1>2. EndLen <= r /\ \A x \in 1..EndLen : s[r - EndLen + x] = <<"end", x>>
  BY <1>1, EndIs
<1>3. T \in Nat /\ r \in Nat \ {0} /\ p \in Nat /\ p <= T /\ EndLen \in Nat \ {0} /\ ProbeLen \in Nat
  BY CntAtEnd, Lengths
<1>4. s[r] = <<"end", EndLen>>
  <2>1. EndLen \in 1..EndLen /\ r - EndLen + EndLen = r
    BY <1>3
  <2> QED
    BY <1>2, <2>1
<1>5. ASSUME NEW y \in 1..T PROVE e[y][1] # "end"
  <2>1. /\ IsNL(y, m) => e[y] = NL
        /\ ~IsNL(y, m) => e[y] = <<"byte", Place(y)>>
    BY EncodedIs
  <2> HIDE DEF e
  <2> QED
    BY <2>1 DEF NL
<1> HIDE DEF e, T
<1>6. T < p + r /\ (p + r) - T = EndLen
  <2>1. r \in 1..r /\ p + r \in Nat
    BY <1>3
  <2>2. Shows(f, m, p, r, s, r)
    BY <1>1, <2>1
  <2>3. ~(p + r <= T /\ s[r] = e[p + r])
    <3>1. SUFFICES ASSUME p + r <= T, s[r] = e[p + r] PROVE FALSE
      OBVIOUS
    <3>2. p + r \in 1..T
      BY <1>3, <3>1
    <3> QED
      BY <1>4, <1>5, <3>1, <3>2
  <2>4. s[r] # NL
    BY <1>4 DEF NL
  <2>5. T < p + r /\ s[r] = <<"end", (p + r) - T>>
    BY <2>2, <2>3, <2>4 DEF Shows, T, e
  <2> QED
    BY <1>4, <2>5
<1> DEFINE l == r - EndLen
<1>7. l \in 0..r /\ l \in Nat /\ p + l = T /\ l < r
  <2>1. EndLen <= r
    BY <1>2
  <2>2. T \in Nat /\ r \in Nat /\ p \in Nat /\ EndLen \in Nat /\ EndLen # 0
    BY <1>3
  <2> QED
    BY ONLY <1>6, <2>1, <2>2
<1>8. f = A
  <2>1. PICK k \in ProbeLen..Len(A) :
           /\ Len(f) = k \/ (Len(f) = k + 1 /\ f[k + 1] = NL)
           /\ \A y \in 1..k : f[y] = A[y]
    BY DEF FileIs
  <2>2. A \in Seq(Char) /\ Len(A) = (ProbeLen + T) + EndLen
    BY ArmoredIs DEF T
  <2> HIDE DEF A
  <2>3. Len(f) = Len(A) /\ Len(A) \in Nat
    BY SMTT(30), <1>3, <1>6, <2>2
  <2>4. f[Len(f)] = <<"end", EndLen>>
    <3>1. r \in 1..r
      BY <1>3
    <3> QED
      BY <1>1, <1>4, <3>1
  <2>5. Len(f) = k
    <3>1. <<"end", EndLen>> # NL
      BY DEF NL
    <3> QED
      BY <2>1, <2>4, <3>1
  <2> QED
    BY <2>1, <2>2, <2>3, <2>5, Same
<1>9. Part(s, p, m, l)
  <2>1. ASSUME NEW x \in 1..l PROVE s[x] = e[p + x]
    <3>1. x \in 1..r /\ x # r /\ ~(T < p + x)
      BY <1>3, <1>7
    <3>2. Shows(f, m, p, r, s, x)
      BY <1>1, <3>1
    <3> QED
      BY <3>1, <3>2 DEF Shows, T, e
  <2>2. p + l <= T
    BY <1>3, <1>7
  <2> QED
    BY <1>1, <1>7, <2>1, <2>2 DEF Part, T, e
<1> DEFINE t == Before(s, l)
<1>10. t \in Seq(Char) /\ Len(t) = l /\ Part(t, p, m, l)
  <2>1. l \in 0..l /\ s \in Seq(Char)
    BY <1>1, <1>7
  <2> HIDE DEF l
  <2> QED
    BY <1>9, <2>1, Partly
<1> HIDE DEF l, t
<1>11. Decodings(t) = {OnlyBytes(t)}
  <2>1. Part(t, p, m, Len(t)) /\ p + Len(t) = TextLen(m)
    BY <1>7, <1>10 DEF T
  <2> QED
    BY <1>10, <2>1, PartDecodes
<1>12. /\ OnlyBytes(t) = Run(Cnt(p, m), Cnt(p + l, m))
       /\ Cnt(p, m) \in Nat /\ Cnt(p, m) <= Cnt(p + l, m)
  <2>1. NoByteAfter(t, l) /\ t \in Seq(Char) /\ Part(t, p, m, l)
    BY <1>7, <1>10 DEF NoByteAfter
  <2> QED
    BY <2>1, PartBytes
<1>13. Cnt(p + l, m) = m
  BY <1>7, CntAtEnd DEF T
<1> QED
  BY <1>8, <1>11, <1>12, <1>13 DEF t, l

\* In the text of m bytes whose END line lies in one block, every block decodes, and
\* the last one ends in the END line.
LEMMA WholeBlock ==
    ASSUME NEW m \in Nat, ~Straddles(m), NEW f, f = Armored(m),
           NEW i \in Nat, NEW p, p = i * BlockLen, p <= TextLen(m),
           NEW r, r = Least(BlockLen, Len(f) - (ProbeLen + p)),
           NEW s, Block(f, m, p, r, s)
    PROVE  \/ /\ EndCheck(s) = "none" /\ ~MayRefuse(s)
              /\ (ProbeLen + p) + r < Len(f)
           \/ /\ EndCheck(s) = "full" /\ ~MayRefuse(Before(s, r - EndLen))
              /\ (ProbeLen + p) + r = Len(f)
<1> DEFINE e == Encode(Bytes(m))
           T == TextLen(m)
           q == i * BlockLines
           A == Armored(m)
<1>1. /\ f \in Seq(Char) /\ Len(f) = (ProbeLen + T) + EndLen /\ T \in Nat
      /\ \A j \in 1..T : f[ProbeLen + j] = e[j]
      /\ \A x \in 1..EndLen : f[(ProbeLen + T) + x] = <<"end", x>>
  <2> HIDE DEF T, e, A
  <2>1. f = A
    BY DEF A
  <2>2. /\ A \in Seq(Char) /\ Len(A) = (ProbeLen + T) + EndLen /\ T \in Nat
        /\ \A j \in 1..T : A[ProbeLen + j] = e[j]
        /\ \A x \in 1..EndLen : A[(ProbeLen + T) + x] = <<"end", x>>
    BY ArmoredIs DEF A, T, e
  <2> QED
    BY ONLY <2>1, <2>2
<1>2. /\ BlockLen \in Nat \ {0} /\ EndLen \in Nat \ {0} /\ ProbeLen \in Nat
      /\ BlockLen = BlockLines * W /\ BlockLines \in Nat /\ W \in Nat
  BY BlockSize, Lengths
<1>3. q \in Nat /\ p = q * W /\ p \in Nat
  <2>1. q \in Nat /\ p \in Nat
    BY <1>2, Multiples
  <2>2. i * (BlockLines * W) = q * W
    BY <1>2, Regrouped
  <2> QED
    BY <1>2, <2>1, <2>2
<1>4. s \in Seq(Char) /\ Len(s) = r /\ \A x \in 1..r : s[x] = f[(ProbeLen + p) + x]
  BY DEF Block
<1> DEFINE c == T - p
<1>5. c \in Nat /\ p + c = T /\ Len(f) - (ProbeLen + p) = c + EndLen /\ r = Least(BlockLen, c + EndLen)
  <2> HIDE DEF T, q
  <2>1. p <= T
    BY DEF T
  <2>2. r = Least(BlockLen, Len(f) - (ProbeLen + p))
    OBVIOUS
  <2>3. c \in Nat /\ p + c = T /\ Len(f) - (ProbeLen + p) = c + EndLen
    BY ONLY <1>1, <1>2, <1>3, <2>1
  <2> QED
    BY <2>2, <2>3
<1> HIDE DEF c, T, e, q
<1>6. r \in Nat /\ r <= BlockLen /\ r <= c + EndLen /\ (BlockLen < c + EndLen => r = BlockLen)
      /\ (~(BlockLen < c + EndLen) => r = c + EndLen)
  BY ONLY <1>2, <1>5 DEF Least
<1>7. ASSUME NEW x \in 1..r, x <= c PROVE s[x] = e[p + x]
  <2>1. p + x \in 1..T /\ (ProbeLen + p) + x = ProbeLen + (p + x)
    BY ONLY <1>2, <1>3, <1>5, <1>6, <1>7
  <2> DEFINE j == p + x
  <2>2. j \in 1..T /\ (ProbeLen + p) + x = ProbeLen + j
    BY <2>1
  <2> HIDE DEF j
  <2>3. s[x] = e[j]
    BY ONLY <1>1, <1>4, <1>7, <2>2
  <2> QED
    BY <2>3 DEF j
<1>8. CASE BlockLen <= c
  <2>1. r = BlockLen /\ r <= c /\ r \in 0..Len(s) /\ p + r <= T /\ (ProbeLen + p) + r < Len(f)
        /\ EndLen <= r
    <3>1. EndLen <= BlockLen
      BY BlockSize
    <3>2. r = BlockLen /\ r <= c
      BY ONLY <1>2, <1>5, <1>6, <1>8
    <3>3. p + r <= T
      BY ONLY <1>3, <1>5, <1>6, <3>2
    <3>4. (ProbeLen + p) + r < (ProbeLen + T) + EndLen
      BY ONLY <1>1, <1>2, <1>3, <1>6, <3>3
    <3> QED
      BY <1>1, <1>4, <1>6, <3>1, <3>2, <3>3, <3>4
  <2>2. Part(s, p, m, Len(s))
    <3>1. \A x \in 1..r : s[x] = e[p + x]
      <4>1. ASSUME NEW x \in 1..r PROVE x <= c
        BY ONLY <1>5, <1>6, <2>1, <4>1
      <4> QED
        BY <1>7, <4>1
    <3>2. r \in 0..r
      BY <1>4, <2>1
    <3> QED
      BY <1>4, <2>1, <3>1, <3>2 DEF Part, T, e
  <2>3. \E z \in Nat : Len(s) = z * W
    BY <1>2, <1>4, <2>1
  <2>4. ~MayRefuse(s) /\ EndCheck(s) = "none"
    <3>1. s \in Seq(Char) /\ EndLen <= Len(s)
      BY <1>4, <2>1
    <3>2. ~MayRefuse(s) /\ (EndLen <= Len(s) => EndCheck(s) = "none")
      BY <1>3, <2>2, <2>3, <3>1, PartDecodes
    <3> QED
      BY <3>1, <3>2
  <2> QED
    BY <2>1, <2>4
<1>9. CASE ~(BlockLen <= c)
  <2>1. c < BlockLen
    BY ONLY <1>2, <1>5, <1>9
  <2>2. T % BlockLen = c
    <3> DEFINE l == BlockLen
    <3>1. l \in Nat \ {0} /\ c < l /\ T = i * l + c /\ c \in Nat /\ T \in Nat
      BY <1>1, <1>2, <1>5, <2>1
    <3> HIDE DEF l
    <3>2. T % l = c
      BY <3>1, QuotientIs
    <3> QED
      BY <3>2 DEF l
  <2>3. c + EndLen <= BlockLen
    <3>1. ~(c + EndLen > BlockLen)
      BY <2>2 DEF Straddles, T
    <3> QED
      BY ONLY <1>2, <1>5, <3>1
  <2>4. r = c + EndLen /\ (ProbeLen + p) + r = Len(f) /\ EndLen <= r /\ r - EndLen = c
    <3>1. r = c + EndLen
      BY ONLY <1>2, <1>5, <1>6, <2>3
    <3>2. (ProbeLen + p) + (c + EndLen) = (ProbeLen + T) + EndLen
      BY ONLY <1>1, <1>2, <1>3, <1>5
    <3>3. EndLen <= c + EndLen /\ (c + EndLen) - EndLen = c
      BY ONLY <1>2, <1>5
    <3> QED
      BY <1>1, <3>1, <3>2, <3>3
  <2>5. ASSUME NEW x \in 1..EndLen PROVE s[c + x] = <<"end", x>>
    <3> DEFINE y == c + x
    <3>1. y \in 1..r /\ (ProbeLen + p) + y = (ProbeLen + T) + x
      BY ONLY <1>2, <1>1, <1>3, <1>5, <2>4, <2>5
    <3> HIDE DEF y
    <3>2. s[y] = <<"end", x>>
      BY ONLY <1>1, <1>4, <2>5, <3>1
    <3> QED
      BY <3>2 DEF y
  <2>6. EndCheck(s) = "full"
    <3>1. \A x \in 1..EndLen : s[Len(s) - EndLen + x] = <<"end", x>>
      BY <1>4, <2>4, <2>5
    <3>2. s \in Seq(Char) /\ EndLen <= Len(s)
      BY <1>4, <2>4
    <3> QED
      BY <3>1, <3>2, EndIs
  <2> DEFINE t == Before(s, c)
  <2>7. t \in Seq(Char) /\ Len(t) = c /\ Part(t, p, m, c)
    <3>1. c \in 0..Len(s)
      BY <1>2, <1>4, <1>5, <2>4
    <3>2. Part(s, p, m, c)
      <4>1. \A x \in 1..c : x \in 1..r /\ x <= c
        BY ONLY <1>2, <1>5, <2>4
      <4>2. \A x \in 1..c : s[x] = e[p + x]
        BY <1>7, <4>1
      <4>3. p + c <= T
        BY ONLY <1>1, <1>5
      <4> QED
        BY <3>1, <4>2, <4>3 DEF Part, T, e
    <3>3. c \in 0..c /\ s \in Seq(Char)
      BY <1>4, <1>5
    <3> QED
      BY <1>3, <3>2, <3>3, Partly
  <2> HIDE DEF t
  <2>8. ~MayRefuse(t)
    <3>1. Part(t, p, m, Len(t)) /\ p + Len(t) = TextLen(m)
      BY <1>5, <2>7 DEF T
    <3>2. t \in Seq(Char)
      BY <2>7
    <3> QED
      BY <1>3, <3>1, <3>2, PartDecodes
  <2> QED
    BY <2>4, <2>6, <2>8 DEF t
<1> QED
  BY <1>8, <1>9

-----------------------------------------------------------------------------
(* What the reader has taken out of the text and not handed out yet.  The sequence of *)
(* what was handed out, what an operation has collected, what the buffer and what the *)
(* last block still hold only ever grows, by what a read() brings.                    *)

Pending == IF op.aread THEN SubSeq(buf, 1, op.fill) ELSE SubSeq(buf, b.cur + 1, b.size)
Given == Cat(got, op.dest)
Ahead == Cat(Pending, After(abuf, b.acur))
Flow == Cat(Given, Ahead)
Pos == fpos - ProbeLen

InputIs ==
    /\ in.kind = "plain" => ~(ProbeLen <= Len(in.file) /\ Before(in.file, ProbeLen) = BeginLine)
    /\ in.kind # "plain" => /\ FileIs(in.file, in.n)
                            /\ (in.kind = "armored" <=> in.file = Armored(in.n))

PlainInv ==
    b.isarmor = "no" =>
        /\ in.kind = "plain" /\ Flow = Before(in.file, fpos) /\ abuf = <<>>
        /\ b.eof => fpos = Len(in.file)
        /\ b.eof /\ b.cur < b.size => Len(in.file) < ProbeLen

\* The first d bytes have been decoded.
ReadTo(d) == /\ Flow = Bytes(d)
             /\ fpos < Len(in.file) => d = Cnt(Pos, in.n)
             /\ b.ended => d = in.n
\* What is not read yet begins with a line.
OnBlock == fpos < Len(in.file) => Pos <= TextLen(in.n) /\ \E i \in Nat : Pos = i * BlockLen
ArmorInv ==
    b.isarmor = "yes" =>
        /\ in.kind # "plain" /\ ProbeLen <= fpos
        /\ \E d \in 0..in.n : ReadTo(d)
        /\ OnBlock
        /\ b.ended => in.kind = "armored" /\ fpos = Len(in.file)
        /\ b.eof => b.ended /\ b.size = 0 /\ abuf = <<>>
        /\ in.kind = "armored" /\ ~Straddles(in.n) => fpos < Len(in.file) \/ b.ended

Ended ==
    /\ InOrder /\ EndIsEnd /\ ArmorRefusedForCause
    /\ cl.outcome = "ok" /\ in.mode = "decrypt" => cl.hdr <= Len(got)
    /\ cl.outcome = "badheader" /\ ~Stale =>
          /\ Len(got) < cl.hdr + MacLen + NonceLen
          /\ ~LooksArmored => got = Content

\* What the reader may refuse armor for.
Refusable == in.kind = "damaged" \/ Straddles(in.n) \/ LooksArmored

\* Once bpeek() has dropped a refusal nothing is known of the content.
ContentInv ==
    /\ InputIs
    /\ cl.phase # "stop" /\ ~Stale => PlainInv /\ ArmorInv
    /\ cl.phase = "stop" => Ended
    /\ Stale => Refusable

LEMMA FlowTypes ==
    ASSUME IbufTypes, Bounds, ~Stale
    PROVE  /\ Pending \in Seq(Char) /\ After(abuf, b.acur) \in Seq(Char)
           /\ Given \in Seq(Char) /\ Ahead \in Seq(Char) /\ Flow \in Seq(Char)
           /\ got \in Seq(Char) /\ op.dest \in Seq(Char)
<1>1. /\ got \in Seq(Char) /\ op.dest \in Seq(Char) /\ buf \in Seq(Char) /\ abuf \in Seq(Char)
      /\ b.cur \in Nat /\ b.size \in Nat /\ b.acur \in Nat /\ op.fill \in Nat /\ Len(buf) \in Nat
  BY Numbers DEF IbufTypes
<1>2. b.cur <= b.size /\ b.size <= Len(buf) /\ (op.aread => op.fill <= Len(buf))
  BY DEF Bounds, Filled
<1>3. Pending \in Seq(Char)
  <2>1. CASE op.aread
    <3>1. op.fill \in 0..Len(buf)
      BY <1>1, <1>2, <2>1
    <3>2. Before(buf, op.fill) \in Seq(Char)
      BY <1>1, <3>1, Cut
    <3> QED
      BY <2>1, <3>2 DEF Pending, Before
  <2>2. CASE ~op.aread
    <3>1. SubSeq(buf, b.cur + 1, b.size) \in Seq(Char)
      BY <1>1, <1>2, Slice
    <3> QED
      BY <2>2, <3>1 DEF Pending
  <2> QED
    BY <2>1, <2>2
<1>4. After(abuf, b.acur) \in Seq(Char)
  BY <1>1, AfterAny
<1>5. Given \in Seq(Char)
  BY <1>1, CatJoined DEF Given
<1>6. Ahead \in Seq(Char)
  BY <1>3, <1>4, CatJoined DEF Ahead
<1> QED
  BY <1>1, <1>3, <1>4, <1>5, <1>6, CatJoined DEF Flow

\* A step that reads nothing.
LEMMA FlowKept ==
    ASSUME PlainInv, ArmorInv, UNCHANGED <<in, fpos>>, Flow' = Flow,
           b'.isarmor = b.isarmor, b'.ended = b.ended,
           b.isarmor = "no" => /\ abuf' = <<>>
                               /\ b'.eof => fpos = Len(in.file)
                               /\ b'.eof /\ b'.cur < b'.size => Len(in.file) < ProbeLen,
           b.isarmor = "yes" => (b'.eof => b'.ended /\ b'.size = 0 /\ abuf' = <<>>)
    PROVE  PlainInv' /\ ArmorInv'
<1>1. PlainInv'
  BY DEF PlainInv, Before
<1>2. ArmorInv'
  <2>1. SUFFICES ASSUME b.isarmor = "yes" PROVE ArmorInv'
    BY DEF ArmorInv
  <2>2. Pos' = Pos /\ BlockLen' = BlockLen /\ Straddles(in.n)' = Straddles(in.n)
    BY DEF Pos, BlockLen, Straddles, TextLen
  <2>3. \A d : ReadTo(d) => ReadTo(d)'
    BY <2>2 DEF ReadTo, Cnt, Upto, Least, Bytes, W
  <2>4. OnBlock => OnBlock'
    BY <2>2 DEF OnBlock, TextLen
  <2>5. \E d \in 0..in.n : ReadTo(d)
    BY <2>1 DEF ArmorInv
  <2>6. \E d \in 0..in'.n : ReadTo(d)'
    BY <2>3, <2>5
  <2> QED
    BY <2>1, <2>2, <2>4, <2>6 DEF ArmorInv
<1> QED
  BY <1>1, <1>2

\* Nothing is between the calls of bread and bpeek.
LEMMA FlowAtRest ==
    ASSUME ReaderInv, PlainInv, ArmorInv, UNCHANGED <<in, fpos, buf, abuf, got>>,
           b'.isarmor = b.isarmor, b'.eof = b.eof, b'.cur = b.cur, b'.size = b.size,
           b'.acur = b.acur, b'.ended = b.ended,
           op.dest = <<>>, ~op.aread, op'.dest = <<>>, ~op'.aread
    PROVE  Flow' = Flow /\ PlainInv' /\ ArmorInv'
<1>1. Pending' = Pending
  BY DEF Pending
<1>2. Given' = Given
  BY DEF Given, Cat
<1>3. Ahead' = Ahead
  BY <1>1 DEF Ahead, Cat, After
<1>4. Flow' = Flow
  BY <1>2, <1>3 DEF Flow, Cat
<1>5. PlainInv' /\ ArmorInv'
  <2>1. b.isarmor = "no" => /\ abuf' = <<>>
                            /\ b'.eof => fpos = Len(in.file)
                            /\ b'.eof /\ b'.cur < b'.size => Len(in.file) < ProbeLen
    BY DEF PlainInv
  <2>2. b.isarmor = "yes" => (b'.eof => b'.ended /\ b'.size = 0 /\ abuf' = <<>>)
    BY DEF ArmorInv
  <2> QED
    BY <1>4, <2>1, <2>2, FlowKept
<1> QED
  BY <1>4, <1>5

\* Between calls nothing moves; the caller stops for one of these reasons.
LEMMA CallerIs ==
    ASSUME ReaderInv, CallerStep
    PROVE  /\ cl.phase # "stop" /\ AtRest /\ ~Running /\ op = Idle
           /\ UNCHANGED <<in, fpos, buf, abuf, got>>
           /\ b'.isarmor = b.isarmor /\ b'.eof = b.eof /\ b'.cur = b.cur /\ b'.size = b.size
           /\ b'.acur = b.acur /\ b'.ended = b.ended
           /\ op'.dest = <<>> /\ ~op'.aread
           /\ cl'.hdr = cl.hdr
           /\ cl'.phase = "stop" =>
                 /\ cl'.outcome \in {"ok", "badheader", "badmac", "nomemory"}
                 /\ cl'.outcome = "badheader" /\ ~Stale => /\ b.eof /\ b.cur = b.size
                                                            /\ Len(got) < cl.hdr + MacLen + NonceLen
                 /\ cl'.outcome = "ok" => /\ b.eof /\ (b.cur = b.size \/ Len(got) >= Chunk)
                                          /\ in.mode = "decrypt" => cl.hdr <= Len(got)
<1> DEFINE Quiet == /\ UNCHANGED <<in, fpos, buf, abuf, got>>
                    /\ b'.isarmor = b.isarmor /\ b'.eof = b.eof /\ b'.cur = b.cur /\ b'.size = b.size
                    /\ b'.acur = b.acur /\ b'.ended = b.ended
                    /\ op'.dest = <<>> /\ ~op'.aread
                    /\ cl'.hdr = cl.hdr
           Stopping == cl'.phase = "stop" =>
                 /\ cl'.outcome \in {"ok", "badheader", "badmac", "nomemory"}
                 /\ cl'.outcome = "badheader" /\ ~Stale => /\ b.eof /\ b.cur = b.size
                                                            /\ Len(got) < cl.hdr + MacLen + NonceLen
                 /\ cl'.outcome = "ok" => /\ b.eof /\ (b.cur = b.size \/ Len(got) >= Chunk)
                                          /\ in.mode = "decrypt" => cl.hdr <= Len(got)
<1>1. IbufTypes /\ Bounds
  BY DEF ReaderInv
<1>2. cl \in Callers /\ b \in Scalars
  BY <1>1 DEF IbufTypes
<1>3. ~Running /\ cl.phase # "stop"
  BY DEF CallerStep, HeaderRead, HeaderPeek, ReadPeeked, PeekedRead, HeaderEnds, RecStop, GetMac,
         CheckMac, GetNonce, NonceRead, ReadChunk, AtEof, MoreChunks, LastChunk, InHeader, At
<1>4. AtRest /\ op = Idle
  BY <1>3 DEF ReaderInv, Serving, Bounds
<1>5. op.dest = <<>> /\ ~op.aread
  BY <1>4 DEF Idle
<1>6. ASSUME NEW name, NEW n, NEW phase, Call(name, n, phase), phase # "stop" PROVE Quiet /\ Stopping
  <2>1. /\ op' = [Idle EXCEPT !.name = name, !.want = n]
        /\ cl' = [cl EXCEPT !.phase = phase] /\ UNCHANGED <<in, fpos, b, buf, abuf, rec, got>>
    BY <1>6 DEF Call
  <2>2. op'.dest = <<>> /\ ~op'.aread
    BY <2>1 DEF Idle
  <2>3. cl'.phase = phase /\ cl'.hdr = cl.hdr
    BY <1>2, <2>1 DEF Callers
  <2> QED
    BY <1>6, <2>1, <2>2, <2>3
<1>7. ASSUME NEW o, Stop(o), UNCHANGED <<in, fpos, b, buf, abuf, rec, op, got>>,
             o \in {"ok", "badheader", "badmac", "nomemory"},
             o = "badheader" /\ ~Stale => b.eof /\ b.cur = b.size /\ Len(got) < cl.hdr + MacLen + NonceLen,
             o = "ok" => /\ b.eof /\ (b.cur = b.size \/ Len(got) >= Chunk)
                         /\ in.mode = "decrypt" => cl.hdr <= Len(got)
      PROVE  Quiet /\ Stopping
  <2>1. cl'.outcome = o /\ cl'.hdr = cl.hdr
    BY <1>2, <1>7 DEF Stop, Callers
  <2> QED
    BY <1>5, <1>7, <2>1
<1>8. ASSUME NEW phase, UNCHANGED <<in, fpos, b, buf, abuf, op, got>>, phase # "stop",
             cl'.phase = phase, cl'.hdr = cl.hdr
      PROVE  Quiet /\ Stopping
  BY <1>5, <1>8
<1> SUFFICES Quiet /\ Stopping
  BY <1>3, <1>4
<1> HIDE DEF Quiet, Stopping
<1>9. CASE HeaderRead
  BY <1>6, <1>9 DEF HeaderRead
<1>10. CASE HeaderPeek
  BY <1>6, <1>10 DEF HeaderPeek
<1>11. CASE ReadPeeked
  BY <1>6, <1>11 DEF ReadPeeked
<1>12. CASE PeekedRead
  <2>1. cl'.phase = "header" /\ cl'.hdr = cl.hdr
    BY <1>2, <1>12 DEF PeekedRead, Callers
  <2> QED
    BY <1>8, <1>12, <2>1 DEF PeekedRead
<1>13. CASE HeaderEnds
  <2>1. /\ Stop("badheader") /\ UNCHANGED <<in, fpos, b, buf, abuf, rec, op, got>>
        /\ \/ cl.short /\ cl.phase \in {"header", "mac", "check", "nonce"}
           \/ cl.phase = "peeked" /\ cl.eof
           \/ Stale
    BY <1>13 DEF HeaderEnds, At
  <2>2. ~Stale => b.eof /\ b.cur = b.size
    BY <1>4, <2>1 DEF AtRest
  <2>3. ~Stale => Len(got) < cl.hdr + MacLen + NonceLen
    <3>1. /\ MacLen \in Nat \ {0} /\ NonceLen \in Nat \ {0} /\ Len(got) \in Nat /\ cl.hdr \in Nat
      BY <1>1, Numbers, Parameters
    <3>2. ~Stale => Len(got) < cl.hdr \/ Len(got) < cl.hdr + MacLen
      BY <1>4, <2>1 DEF AtRest
    <3> QED
      BY <3>1, <3>2
  <2> QED
    BY <1>7, <2>1, <2>2, <2>3
<1>14. CASE RecStop
  <2>1. UNCHANGED <<in, fpos, buf, abuf, op, got>>
    BY <1>14 DEF RecStop
  <2>2. /\ b'.isarmor = b.isarmor /\ b'.eof = b.eof /\ b'.cur = b.cur /\ b'.size = b.size
        /\ b'.acur = b.acur /\ b'.ended = b.ended
    BY <1>2, <1>14 DEF RecStop, RecAppend, Scalars
  <2>3. \/ Stop("nomemory")
        \/ \E x : cl' = [cl EXCEPT !.phase = "mac", !.mac = x]
    BY <1>14 DEF RecStop
  <2>4. /\ cl'.hdr = cl.hdr
        /\ \/ cl'.phase = "stop" /\ cl'.outcome = "nomemory"
           \/ cl'.phase = "mac"
    BY <1>2, <2>3 DEF Stop, Callers
  <2> QED
    BY <1>5, <2>1, <2>2, <2>4 DEF Quiet, Stopping
<1>15. CASE GetMac
  BY <1>6, <1>15 DEF GetMac
<1>16. CASE CheckMac
  <2>1. UNCHANGED <<in, fpos, b, buf, abuf, rec, op, got>>
    BY <1>16 DEF CheckMac
  <2>2. cl' = [cl EXCEPT !.phase = "nonce"] \/ Stop("badmac")
    BY <1>16 DEF CheckMac
  <2>3. CASE cl' = [cl EXCEPT !.phase = "nonce"]
    <3>1. cl'.phase = "nonce" /\ cl'.hdr = cl.hdr
      BY <1>2, <2>3 DEF Callers
    <3> QED
      BY <1>8, <2>1, <3>1
  <2>4. CASE Stop("badmac")
    BY <1>7, <2>1, <2>4
  <2> QED
    BY <2>2, <2>3, <2>4
<1>17. CASE GetNonce
  BY <1>6, <1>17 DEF GetNonce
<1>18. CASE NonceRead
  <2>1. cl.phase = "nonceread" /\ UNCHANGED <<in, fpos, b, buf, abuf, rec, op, got>>
    BY <1>18 DEF NonceRead
  <2>2. (cl.short /\ Stop("badheader")) \/ cl' = [cl EXCEPT !.phase = "chunk"]
    BY <1>18 DEF NonceRead
  <2>3. CASE cl' = [cl EXCEPT !.phase = "chunk"]
    <3>1. cl'.phase = "chunk" /\ cl'.hdr = cl.hdr
      BY <1>2, <2>3 DEF Callers
    <3> QED
      BY <1>8, <2>1, <3>1
  <2>4. CASE cl.short /\ Stop("badheader")
    <3>1. b.eof /\ b.cur = b.size /\ Len(got) < cl.hdr + MacLen + NonceLen
      BY <1>4, <2>1, <2>4 DEF AtRest
    <3> QED
      BY <1>7, <2>1, <2>4, <3>1
  <2> QED
    BY <2>2, <2>3, <2>4
<1>19. CASE ReadChunk
  BY <1>6, <1>19 DEF ReadChunk
<1>20. CASE AtEof
  <2>1. op'.dest = <<>> /\ ~op'.aread
    BY <1>20 DEF AtEof, Idle
  <2>2. cl'.phase = "chunkend" /\ cl'.hdr = cl.hdr
    BY <1>2, <1>20 DEF AtEof, Callers
  <2> QED
    BY <1>20, <2>1, <2>2 DEF AtEof, Quiet, Stopping
<1>21. CASE MoreChunks
  <2>1. cl'.phase = "chunk" /\ cl'.hdr = cl.hdr
    BY <1>2, <1>21 DEF MoreChunks, Callers
  <2> QED
    BY <1>8, <1>21, <2>1 DEF MoreChunks
<1>22. CASE LastChunk
  <2>1. /\ Stop("ok") /\ UNCHANGED <<in, fpos, b, buf, abuf, rec, op, got>>
        /\ \/ cl.phase = "ateof" /\ b.eof
           \/ cl.phase = "chunkend" /\ cl.eof
    BY <1>22 DEF LastChunk
  <2>2. b.eof /\ (b.cur = b.size \/ Len(got) >= Chunk)
    BY <1>4, <2>1 DEF AtRest
  <2>3. in.mode = "decrypt" => cl.hdr <= Len(got)
    <3>1. in.mode = "decrypt" => Len(got) >= cl.hdr
      BY <1>3, <2>1 DEF ReaderInv, Serving
    <3>2. Len(got) \in Nat /\ cl.hdr \in Nat
      BY <1>1, Numbers
    <3> QED
      BY <3>1, <3>2
  <2> QED
    BY <1>7, <2>1, <2>2, <2>3
<1> QED
  BY <1>9, <1>10, <1>11, <1>12, <1>13, <1>14, <1>15, <1>16, <1>17, <1>18, <1>19, <1>20, <1>21, <1>22
     DEF CallerStep

\* What was handed out begins what the reader has taken out.
LEMMA GotBegins ==
    ASSUME IbufTypes, Bounds, ~Stale, NEW u \in Seq(Char)
    PROVE  IsPrefix(got, Cat(Flow, u))
<1>1. got \in Seq(Char) /\ op.dest \in Seq(Char) /\ Ahead \in Seq(Char)
  BY FlowTypes
<1> DEFINE x == Cat(op.dest, Ahead)
           y == Cat(x, u)
<1>2. x \in Seq(Char)
  BY <1>1, CatJoined
<1>3. Flow = Cat(got, x)
  BY <1>1, CatRegroup DEF Flow, Given
<1> HIDE DEF x
<1>4. y \in Seq(Char) /\ Cat(Cat(got, x), u) = Cat(got, y)
  BY <1>1, <1>2, CatJoined, CatRegroup
<1> HIDE DEF y
<1>5. IsPrefix(got, got \o y)
  BY <1>1, <1>4, Begins
<1>6. got \o y = Cat(Flow, u)
  BY <1>3, <1>4 DEF Cat
<1> QED
  BY <1>5, <1>6

LEMMA FlowInContent ==
    ASSUME IbufTypes, Bounds, ~Stale, PlainInv, ArmorInv, b.isarmor # "unchecked", ~LooksArmored
    PROVE  \E u \in Seq(Char) : Content = Cat(Flow, u)
<1>1. b.isarmor \in {"yes", "no"} /\ in.n \in Nat /\ in.mode \in {"decrypt", "encrypt"}
  BY DEF IbufTypes, Scalars, Inputs
<1>2. CASE b.isarmor = "no"
  <2>1. in.kind = "plain" /\ Flow = Before(in.file, fpos)
    BY <1>2 DEF PlainInv
  <2>2. fpos \in 0..Len(in.file) /\ in.file \in Seq(Char)
    BY Numbers DEF Bounds
  <2>3. After(in.file, fpos) \in Seq(Char) /\ Before(in.file, fpos) \o After(in.file, fpos) = in.file
    BY <2>2, Cut
  <2>4. Content = in.file
    BY <2>1 DEF Content
  <2> QED
    BY <2>1, <2>3, <2>4 DEF Cat
<1>3. CASE b.isarmor = "yes"
  <2>1. in.kind # "plain"
    BY <1>3 DEF ArmorInv
  <2>2. PICK d \in 0..in.n : Flow = Bytes(d)
    BY <1>3 DEF ArmorInv, ReadTo
  <2>3. Content = Bytes(in.n)
    BY <1>1, <2>1 DEF Content, LooksArmored
  <2> DEFINE o == 0
             n == in.n
  <2>4. o \in Nat /\ d \in Nat /\ n \in Nat /\ o <= d /\ d <= n
    BY <1>1, <2>2
  <2>5. Bytes(d) = Run(o, d) /\ Bytes(n) = Run(o, n)
    BY <2>4, BytesAreRun
  <2> HIDE DEF o, n
  <2>6. Run(o, d) \o Run(d, n) = Run(o, n) /\ Run(d, n) \in Seq(Char)
    BY <2>4, RunJoin, RunIs
  <2> QED
    BY <2>2, <2>3, <2>5, <2>6 DEF Cat, n
<1> QED
  BY <1>1, <1>2, <1>3

LEMMA InOrderNow ==
    ASSUME ReaderInv, ~Stale, PlainInv, ArmorInv
    PROVE  InOrder
<1>1. IbufTypes /\ Bounds
  BY DEF ReaderInv
<1>2. SUFFICES ASSUME ~LooksArmored PROVE IsPrefix(got, Content)
  BY DEF InOrder
<1>3. CASE b.isarmor = "unchecked"
  <2>1. got = <<>>
    BY <1>1, <1>3 DEF Bounds, Blank
  <2>2. Content \in Seq(Char)
    <3>1. in.file \in Seq(Char) /\ in.n \in Nat
      BY <1>1, Numbers
    <3>2. Bytes(in.n) \in Seq(Char)
      BY <3>1, BytesIs
    <3> QED
      BY <3>1, <3>2 DEF Content
  <2>3. IsPrefix(<<>>, <<>> \o Content)
    BY <2>2, NullLen, Begins
  <2>4. <<>> \o Content = Content
    BY <2>2
  <2> QED
    BY <2>1, <2>3, <2>4
<1>4. CASE b.isarmor # "unchecked"
  <2>1. PICK u \in Seq(Char) : Content = Cat(Flow, u)
    BY <1>1, <1>2, <1>4, FlowInContent
  <2> QED
    BY <1>1, <2>1, GotBegins
<1> QED
  BY <1>3, <1>4

\* When the buffer is used up at the end of the input, all of it was handed out.
LEMMA AtTheEnd ==
    ASSUME ReaderInv, ~Stale, PlainInv, ArmorInv, op.dest = <<>>, ~op.aread, b.eof,
           b.cur = b.size \/ ProbeLen <= Len(got), ~LooksArmored
    PROVE  got = Content /\ in.kind # "damaged"
<1>1. IbufTypes /\ Bounds
  BY DEF ReaderInv
<1>2. b.isarmor \in {"yes", "no"}
  <2>1. b.isarmor # "unchecked"
    BY <1>1 DEF Bounds, Blank
  <2> QED
    BY <1>1, <2>1 DEF IbufTypes, Scalars
<1>3. /\ got \in Seq(Char) /\ Ahead \in Seq(Char) /\ Pending \in Seq(Char) /\ Len(got) \in Nat
      /\ b.cur \in Nat /\ b.size \in Nat /\ b.acur \in Nat /\ ProbeLen \in Nat
      /\ in.n \in Nat /\ in.file \in Seq(Char) /\ Len(in.file) \in Nat
  BY <1>1, FlowTypes, Numbers
<1>4. Flow = got \o Ahead
  <2>1. Given = got
    BY <1>3 DEF Given, Cat
  <2> QED
    BY <2>1 DEF Flow, Cat
<1>5. b.cur = b.size => Pending = <<>>
  <2>1. SUFFICES ASSUME b.cur = b.size PROVE Pending = <<>>
    OBVIOUS
  <2>2. Pending = SubSeq(buf, b.cur + 1, b.size)
    BY DEF Pending
  <2> QED
    BY <1>3, <2>1, <2>2, SubSeqEmpty
<1>6. abuf = <<>> /\ b.cur = b.size => Flow = got
  <2>1. SUFFICES ASSUME abuf = <<>>, b.cur = b.size PROVE Flow = got
    OBVIOUS
  <2>2. After(abuf, b.acur) = <<>>
    <3>1. abuf \in Seq(Char) /\ Len(abuf) = 0 /\ b.acur + 1 > Len(abuf)
      BY <1>3, <2>1, NullLen
    <3> QED
      BY <3>1, SubSeqEmpty DEF After
  <2>3. Ahead = <<>>
    BY <1>5, <2>1, <2>2 DEF Ahead, Cat
  <2> QED
    BY <1>3, <1>4, <2>3
<1>7. CASE b.isarmor = "no"
  <2>1. /\ in.kind = "plain" /\ Flow = Before(in.file, fpos) /\ abuf = <<>>
        /\ fpos = Len(in.file) /\ (b.cur < b.size => Len(in.file) < ProbeLen)
    BY <1>7 DEF PlainInv
  <2>2. Before(in.file, Len(in.file)) = in.file
    <3>1. Len(in.file) \in 0..Len(in.file)
      BY <1>3
    <3>2. /\ Before(in.file, Len(in.file)) \in Seq(Char)
          /\ Len(Before(in.file, Len(in.file))) = Len(in.file)
          /\ \A i \in 1..Len(in.file) : Before(in.file, Len(in.file))[i] = in.file[i]
      BY <1>3, <3>1, Cut
    <3> QED
      BY <1>3, <3>2, Same
  <2>3. Flow = in.file
    BY <2>1, <2>2
  <2>4. b.cur = b.size
    <3>1. SUFFICES ASSUME b.cur # b.size PROVE FALSE
      OBVIOUS
    <3>2. b.cur <= b.size
      BY <1>1 DEF Bounds
    <3>3. Len(in.file) < ProbeLen /\ ProbeLen <= Len(got)
      BY <1>3, <2>1, <3>1, <3>2
    <3>4. Len(in.file) = Len(got) + Len(Ahead) /\ Len(Ahead) \in Nat
      BY <1>3, <1>4, <2>3, ConcatProperties, LenProperties
    <3> QED
      BY <1>3, <3>3, <3>4
  <2>5. Content = in.file
    BY <2>1 DEF Content
  <2> QED
    BY <1>6, <2>1, <2>3, <2>4, <2>5
<1>8. CASE b.isarmor = "yes"
  <2>1. in.kind = "armored" /\ b.size = 0 /\ abuf = <<>> /\ b.ended
    BY <1>8 DEF ArmorInv
  <2>2. Flow = Bytes(in.n)
    BY <1>8, <2>1 DEF ArmorInv, ReadTo
  <2>3. b.cur = b.size
    BY <1>1, <1>3, <2>1 DEF Bounds
  <2>4. Content = Bytes(in.n)
    <3>1. in.mode # "encrypt"
      BY <2>1 DEF LooksArmored
    <3> QED
      BY <2>1, <3>1 DEF Content
  <2> QED
    BY <1>6, <2>1, <2>2, <2>3, <2>4
<1> QED
  BY <1>2, <1>7, <1>8

\* A size that is bpeek()'s stays: the caller goes on with old bytes until the
\* header, its MAC or the buffer ends, never to a good end.
LEMMA StaleStays ==
    ASSUME ContentInv, Stale, in' = in, b'.size = b.size, cl.phase # "stop",
           cl'.phase = "stop" => cl'.outcome # "ok"
    PROVE  ContentInv'
<1>1. InputIs /\ Refusable
  BY DEF ContentInv
<1>2. InputIs'
  BY <1>1 DEF InputIs, FileIs, Before
<1>3. Stale' /\ Refusable'
  BY <1>1 DEF Stale, Refusable, LooksArmored, Straddles, TextLen, BlockLen
<1>4. cl'.phase = "stop" => Ended'
  BY <1>3 DEF Ended, InOrder, EndIsEnd, ArmorRefusedForCause, Refusable
<1> QED
  BY <1>2, <1>3, <1>4 DEF ContentInv

LEMMA CallerContent == ASSUME ReaderInv, ContentInv, CallerStep PROVE ContentInv'
<1>1. /\ cl.phase # "stop" /\ op = Idle
      /\ UNCHANGED <<in, fpos, buf, abuf, got>>
      /\ b'.isarmor = b.isarmor /\ b'.eof = b.eof /\ b'.cur = b.cur /\ b'.size = b.size
      /\ b'.acur = b.acur /\ b'.ended = b.ended
      /\ op'.dest = <<>> /\ ~op'.aread
      /\ cl'.hdr = cl.hdr
  BY CallerIs
<1>2. cl'.phase = "stop" =>
         /\ cl'.outcome \in {"ok", "badheader", "badmac", "nomemory"}
         /\ cl'.outcome = "badheader" /\ ~Stale => /\ b.eof /\ b.cur = b.size
                                                    /\ Len(got) < cl.hdr + MacLen + NonceLen
         /\ cl'.outcome = "ok" => /\ b.eof /\ (b.cur = b.size \/ Len(got) >= Chunk)
                                  /\ in.mode = "decrypt" => cl.hdr <= Len(got)
  BY CallerIs
<1>9. CASE Stale
  <2>1. ~b.eof
    BY <1>9 DEF ReaderInv, Bounds, Filled
  <2> QED
    BY <1>1, <1>2, <1>9, <2>1, StaleStays
<1> SUFFICES ASSUME ~Stale PROVE ContentInv'
  BY <1>9
<1>10. ~Stale'
  BY <1>1 DEF Stale
<1>3. InputIs /\ PlainInv /\ ArmorInv
  BY <1>1 DEF ContentInv
<1>4. op.dest = <<>> /\ ~op.aread
  BY <1>1 DEF Idle
<1>5. PlainInv' /\ ArmorInv'
  BY <1>1, <1>3, <1>4, FlowAtRest
<1>6. InputIs'
  BY <1>1, <1>3 DEF InputIs, FileIs, Before
<1>7. Content' = Content /\ LooksArmored' = LooksArmored
  BY <1>1 DEF Content, LooksArmored
<1>8. ASSUME cl'.phase = "stop" PROVE Ended'
  <2>1. InOrder'
    <3>1. InOrder
      BY <1>3, InOrderNow
    <3> QED
      BY <1>1, <1>7, <1>10, <3>1 DEF InOrder, IsPrefix
  <2>2. cl'.outcome \in {"ok", "badheader"} /\ ~LooksArmored => got = Content /\ in.kind # "damaged"
    <3>1. SUFFICES ASSUME cl'.outcome \in {"ok", "badheader"}, ~LooksArmored
                   PROVE  got = Content /\ in.kind # "damaged"
      OBVIOUS
    <3>2. b.eof /\ (b.cur = b.size \/ Len(got) >= Chunk)
      BY <1>2, <1>8, <3>1
    <3>3. b.cur = b.size \/ ProbeLen <= Len(got)
      <4>1. ProbeLen <= Chunk /\ Chunk \in Nat /\ ProbeLen \in Nat
        BY Parameters, Lengths
      <4>2. Len(got) \in Nat
        BY Numbers DEF ReaderInv
      <4> QED
        BY <3>2, <4>1, <4>2
    <3> QED
      BY <1>3, <1>4, <3>1, <3>2, <3>3, AtTheEnd
  <2>3. EndIsEnd'
    BY <1>1, <1>7, <2>2 DEF EndIsEnd
  <2>4. ArmorRefusedForCause'
    BY <1>2, <1>8, <1>10 DEF ArmorRefusedForCause
  <2>5. cl'.outcome = "badheader" =>
          /\ Len(got') < cl'.hdr + MacLen + NonceLen
          /\ ~LooksArmored' => got' = Content'
    BY <1>1, <1>2, <1>7, <1>8, <2>2
  <2>6. cl'.outcome = "ok" /\ in'.mode = "decrypt" => cl'.hdr <= Len(got')
    BY <1>1, <1>2, <1>8
  <2> QED
    BY <2>1, <2>3, <2>4, <2>5, <2>6 DEF Ended
<1> QED
  BY <1>5, <1>6, <1>8, <1>10 DEF ContentInv

\* A buffer step that moves bytes without reading.
LEMMA MovedKeeps ==
    ASSUME ReaderInv, ContentInv, ~Stale, ~Stale', cl.phase # "stop", UNCHANGED <<in, fpos>>, cl'.phase # "stop",
           Flow' = Flow, b'.isarmor = b.isarmor, b'.ended = b.ended,
           b.isarmor = "no" => /\ abuf' = <<>>
                               /\ b'.eof => fpos = Len(in.file)
                               /\ b'.eof /\ b'.cur < b'.size => Len(in.file) < ProbeLen,
           b.isarmor = "yes" => (b'.eof => b'.ended /\ b'.size = 0 /\ abuf' = <<>>)
    PROVE  ContentInv'
<1>1. InputIs /\ PlainInv /\ ArmorInv
  BY DEF ContentInv
<1>2. PlainInv' /\ ArmorInv'
  BY <1>1, FlowKept
<1>3. InputIs'
  BY <1>1 DEF InputIs, FileIs, Before
<1> QED
  BY <1>2, <1>3 DEF ContentInv

LEMMA GivenKept ==
    ASSUME got' \o op'.dest = got \o op.dest, Ahead' = Ahead
    PROVE  Flow' = Flow
  BY DEF Flow, Given, Cat

LEMMA PeekContent == ASSUME ReaderInv, ContentInv, ~Stale, Peek PROVE ContentInv'
<1>1. /\ Running /\ ~op.aread /\ op.name = "bpeek" /\ op' = Idle /\ cl'.phase = cl.phase
      /\ UNCHANGED <<in, fpos, b, buf, abuf, rec, got>>
  <2>1. IbufTypes
    BY DEF ReaderInv
  <2> QED
    BY <2>1 DEF Peek, Checked, BpeekReturns, IbufTypes, Callers
<1>2. cl.phase # "stop" /\ IbufTypes /\ Bounds
  BY <1>1, InCall
<1>3. op.dest = <<>> /\ op'.dest = <<>> /\ ~op'.aread
  BY <1>1, <1>2 DEF Bounds, Idle
<1>4. PlainInv /\ ArmorInv /\ InputIs
  BY <1>2 DEF ContentInv
<1>5. PlainInv' /\ ArmorInv'
  BY <1>1, <1>3, <1>4, FlowAtRest
<1>6. InputIs'
  BY <1>1, <1>4 DEF InputIs, FileIs, Before
<1>7. ~Stale'
  BY <1>1 DEF Stale
<1> QED
  BY <1>1, <1>2, <1>5, <1>6, <1>7 DEF ContentInv

LEMMA AtEndContent == ASSUME ReaderInv, ContentInv, ~Stale, AtEnd PROVE ContentInv'
<1>1. /\ Running /\ ~op.aread /\ b.cur = b.size /\ b.eof /\ ReturnsAtEnd
      /\ UNCHANGED <<in, fpos, b, buf, abuf, rec>>
  BY DEF AtEnd, Checked
<1>2. cl.phase # "stop" /\ IbufTypes /\ Bounds
  BY <1>1, InCall
<1>3. b.cur \in Nat /\ b.size \in Nat
  BY <1>2, Numbers
<1>4. /\ cl'.phase = cl.phase /\ op' = Idle /\ op'.dest = <<>>
      /\ got' = got \o op.dest /\ got' \in Seq(Char)
  BY <1>1, <1>3, EndLeaves
<1>5. got' \o op'.dest = got \o op.dest
  BY <1>4
<1>6. ~op'.aread
  BY <1>4 DEF Idle
<1>7. Ahead' = Ahead
  BY <1>1, <1>6 DEF Ahead, Pending, Cat, After
<1>8. Flow' = Flow
  BY <1>5, <1>7, GivenKept
<1>9. PlainInv /\ ArmorInv
  BY <1>2 DEF ContentInv
<1>10. ~Stale'
  BY <1>1 DEF Stale
<1> QED
  BY <1>1, <1>2, <1>4, <1>8, <1>9, <1>10, MovedKeeps DEF PlainInv, ArmorInv

LEMMA FillEndContent == ASSUME ReaderInv, ContentInv, ~Stale, FillEnd PROVE ContentInv'
<1>1. /\ Running /\ b.isarmor = "no" /\ b.size = 0 /\ ReturnsAtEnd /\ b' = [b EXCEPT !.eof = TRUE]
      /\ ~b.eof /\ ~op.aread /\ Rest = 0 /\ UNCHANGED <<in, fpos, buf, abuf, rec>>
  BY DEF FillEnd, Empty, Checked
<1>2. cl.phase # "stop" /\ IbufTypes /\ Bounds
  BY <1>1, InCall
<1>3. /\ b.cur = 0 /\ b'.cur = 0 /\ b'.size = 0 /\ b'.eof /\ b'.acur = b.acur
      /\ b'.isarmor = "no" /\ b'.ended = b.ended
  <2>1. b \in Scalars /\ b.cur <= 0
    BY <1>1, <1>2 DEF IbufTypes, Bounds
  <2>2. b.cur = 0
    BY <2>1 DEF Scalars
  <2> QED
    BY <1>1, <2>1, <2>2 DEF Scalars
<1>4. /\ cl'.phase = cl.phase /\ op' = Idle /\ op'.dest = <<>>
      /\ got' = got \o op.dest /\ got' \in Seq(Char)
  BY <1>1, <1>3, EndLeaves
<1>5. got' \o op'.dest = got \o op.dest
  BY <1>4
<1>6. ~op'.aread
  BY <1>4 DEF Idle
<1>7. Ahead' = Ahead
  <2>1. Pending' = Pending
    BY <1>1, <1>3, <1>6 DEF Pending
  <2> QED
    BY <1>1, <1>3, <2>1 DEF Ahead, Cat, After
<1>8. Flow' = Flow
  BY <1>5, <1>7, GivenKept
<1>9. abuf' = <<>>
  BY <1>1, <1>2 DEF ContentInv, PlainInv
<1>10. fpos = Len(in.file)
  BY <1>1, <1>2, Numbers DEF Rest
<1>11. ~(b'.cur < b'.size)
  BY <1>3
<1>12. ~Stale'
  BY <1>3, Lengths DEF Stale, MinusTwo
<1> QED
  BY <1>1, <1>2, <1>3, <1>4, <1>8, <1>9, <1>10, <1>11, <1>12, MovedKeeps

LEMMA RecycleContent == ASSUME ReaderInv, ContentInv, ~Stale, Recycle PROVE ContentInv'
<1> DEFINE f == [b EXCEPT !.cur = 0, !.size = 0]
<1>1. /\ Running /\ ~op.aread /\ b.cur = b.size
      /\ \/ b.recording /\ RecAppend(b.size, f)
         \/ ~b.recording /\ b' = f /\ UNCHANGED rec
      /\ UNCHANGED <<in, fpos, buf, abuf, op, got, cl>>
  BY DEF Recycle, Checked
<1>2. cl.phase # "stop" /\ IbufTypes /\ Bounds
  BY <1>1, InCall
<1>3. /\ f \in Scalars /\ f.cur = 0 /\ f.size = 0 /\ f.acur = b.acur /\ f.isarmor = b.isarmor
      /\ f.eof = b.eof /\ f.ended = b.ended
  BY <1>2 DEF IbufTypes, Scalars
<1> HIDE DEF f
<1>4. b' = f \/ b' = [f EXCEPT !.alloc = TRUE] \/ b' = [f EXCEPT !.recfail = TRUE]
  BY <1>1 DEF RecAppend
<1>5. /\ b'.cur = 0 /\ b'.size = 0 /\ b'.acur = b.acur /\ b'.isarmor = b.isarmor
      /\ b'.eof = b.eof /\ b'.ended = b.ended
  <2>1. CASE b' = f
    BY <1>3, <2>1
  <2>2. CASE b' = [f EXCEPT !.alloc = TRUE]
    BY <1>3, <2>2 DEF Scalars
  <2>3. CASE b' = [f EXCEPT !.recfail = TRUE]
    BY <1>3, <2>3 DEF Scalars
  <2> QED
    BY <1>4, <2>1, <2>2, <2>3
<1>6. Pending' = Pending
  <2>1. b.cur \in Nat /\ b.size \in Nat
    BY <1>2, Numbers
  <2>2. SubSeq(buf, b.cur + 1, b.size) = <<>>
    BY <1>1, <2>1, SubSeqEmpty
  <2>3. SubSeq(buf', b'.cur + 1, b'.size) = <<>>
    BY <1>5, SubSeqEmpty
  <2> QED
    BY <1>1, <2>2, <2>3 DEF Pending
<1>7. Flow' = Flow
  BY <1>1, <1>5, <1>6 DEF Flow, Given, Ahead, Cat, After
<1>8. PlainInv /\ ArmorInv
  BY <1>2 DEF ContentInv
<1>9. ~(b'.cur < b'.size)
  BY <1>5
<1>10. ~Stale'
  BY <1>5, Lengths DEF Stale, MinusTwo
<1> QED
  BY <1>1, <1>2, <1>5, <1>7, <1>8, <1>9, <1>10, MovedKeeps DEF PlainInv, ArmorInv

LEMMA AreadBeginContent == ASSUME ReaderInv, ContentInv, ~Stale, AreadBegin PROVE ContentInv'
<1>1. /\ Running /\ b.size = 0 /\ ~b.eof /\ ~op.aread
      /\ op' = [op EXCEPT !.aread = TRUE, !.fill = 0]
      /\ UNCHANGED <<in, fpos, b, buf, abuf, rec, got, cl>>
  BY DEF AreadBegin, Empty, Checked
<1>2. cl.phase # "stop" /\ IbufTypes /\ Bounds
  BY <1>1, InCall
<1>3. op'.dest = op.dest /\ op'.fill = 0 /\ op'.aread
  BY <1>1, <1>2 DEF IbufTypes, Operations
<1>4. b.cur = 0
  BY <1>1, <1>2, Numbers DEF Bounds
<1>5. Pending' = Pending
  BY <1>1, <1>3, <1>4 DEF Pending
<1>6. Flow' = Flow
  BY <1>1, <1>3, <1>5 DEF Flow, Given, Ahead, Cat, After
<1>7. PlainInv /\ ArmorInv
  BY <1>2 DEF ContentInv
<1>8. ~Stale'
  BY <1>1 DEF Stale
<1> QED
  BY <1>1, <1>2, <1>6, <1>7, <1>8, MovedKeeps DEF PlainInv, ArmorInv

LEMMA CatSlices ==
    ASSUME NEW s \in Seq(Char), NEW i \in Nat, NEW j \in Nat, NEW l \in Nat, i <= j, j <= l, l <= Len(s)
    PROVE  Cat(SubSeq(s, i + 1, j), SubSeq(s, j + 1, l)) = SubSeq(s, i + 1, l)
  BY SliceJoin DEF Cat

LEMMA CopyContent == ASSUME ReaderInv, ContentInv, ~Stale, Copy PROVE ContentInv'
<1>1. /\ Running /\ op.name = "bread" /\ b.cur < b.size /\ b.isarmor # "unchecked" /\ ~op.aread
      /\ UNCHANGED <<in, fpos, buf, abuf, rec>>
  BY DEF Copy, Checked
<1>2. PICK c \in Nat \ {0}, s \in Seq(Char) :
              /\ b.cur + c <= b.size /\ b.cur + c <= Len(buf)
              /\ s = SubSeq(buf, b.cur + 1, b.cur + c) /\ Len(s) = c
              /\ op.dest \o s \in Seq(Char) /\ Len(op.dest \o s) = Len(op.dest) + c
              /\ Before(buf, b.cur + c) = Before(buf, b.cur) \o s
              /\ Before(buf, b.cur) \in Seq(Char)
              /\ b' = [b EXCEPT !.cur = b.cur + c]
              /\ \/ Len(op.dest) + c = op.want /\ BreadReturns(op.dest \o s)
                 \/ /\ Len(op.dest) + c < op.want /\ cl.phase # "peekedread"
                    /\ op' = [op EXCEPT !.dest = op.dest \o s] /\ UNCHANGED <<got, cl>>
  <2>1. ~Overread
    BY DEF Overread
  <2> QED
    BY <2>1, CopyIs
<1>3. cl.phase # "stop" /\ IbufTypes /\ Bounds
  BY <1>1, InCall
<1>4. /\ b.cur \in Nat /\ b.size \in Nat /\ buf \in Seq(Char) /\ Len(buf) \in Nat /\ b.size <= Len(buf)
      /\ op.dest \in Seq(Char) /\ got \in Seq(Char) /\ Given \in Seq(Char)
      /\ After(abuf, b.acur) \in Seq(Char)
  BY <1>3, Numbers, FlowTypes DEF IbufTypes, Bounds, Filled
<1> DEFINE j == b.cur + c
<1>5. j \in Nat /\ b.cur <= j /\ j <= b.size /\ j <= Len(buf)
  <2>1. c \in Nat /\ b.cur \in Nat /\ b.size \in Nat
    BY <1>4
  <2>2. b.cur + c <= b.size /\ b.cur + c <= Len(buf)
    BY <1>2
  <2> QED
    BY ONLY <2>1, <2>2
<1>6. s = SubSeq(buf, b.cur + 1, j) /\ b' = [b EXCEPT !.cur = j]
  BY <1>2
<1> HIDE DEF j
<1>7. /\ b'.cur = j /\ b'.size = b.size /\ b'.acur = b.acur /\ b'.ended = b.ended
      /\ b'.isarmor = b.isarmor /\ b'.eof = b.eof
  BY <1>3, <1>6 DEF IbufTypes, Scalars
<1> DEFINE d == op.dest \o s
<1>8. cl'.phase = cl.phase /\ ~op'.aread /\ got' \o op'.dest = got \o d
  <2>1. CASE BreadReturns(d)
    <3>1. op' = Idle /\ got' = got \o d /\ \E x : cl' = [cl EXCEPT !.short = x]
      BY <2>1 DEF BreadReturns
    <3>2. cl'.phase = cl.phase
      BY <1>3, <3>1 DEF IbufTypes, Callers
    <3>3. ~op'.aread /\ op'.dest = <<>>
      BY <3>1 DEF Idle
    <3>4. d \in Seq(Char)
      BY <1>2
    <3> HIDE DEF d
    <3>5. got \o d \in Seq(Char)
      BY <1>4, <3>4, Joined
    <3> QED
      BY <3>1, <3>2, <3>3, <3>5
  <2>2. CASE op' = [op EXCEPT !.dest = d] /\ UNCHANGED <<got, cl>>
    <3> HIDE DEF d
    <3> QED
      BY <1>1, <1>3, <2>2 DEF IbufTypes, Operations
  <2> QED
    BY <1>2, <2>1, <2>2
<1>9. Given' = Cat(Given, s)
  <2>1. (got \o op.dest) \o s = got \o d
    <3>1. got \in Seq(Char) /\ op.dest \in Seq(Char) /\ s \in Seq(Char)
      BY <1>4
    <3> QED
      BY ONLY <3>1, Regroup
  <2> QED
    BY <1>8, <2>1 DEF Given, Cat
<1> DEFINE p == SubSeq(buf, j + 1, b.size)
<1>10. p \in Seq(Char)
  BY <1>4, <1>5, Slice
<1>11. Pending' = p
  BY <1>1, <1>7, <1>8 DEF Pending
<1>12. Pending = Cat(s, p)
  <2>1. Cat(SubSeq(buf, b.cur + 1, j), SubSeq(buf, j + 1, b.size)) = SubSeq(buf, b.cur + 1, b.size)
    <3> DEFINE l == b.size
    <3>1. l \in Nat /\ j <= l /\ l <= Len(buf) /\ b.cur \in Nat /\ j \in Nat /\ b.cur <= j
          /\ buf \in Seq(Char)
      BY <1>4, <1>5
    <3> HIDE DEF l
    <3>2. Cat(SubSeq(buf, b.cur + 1, j), SubSeq(buf, j + 1, l)) = SubSeq(buf, b.cur + 1, l)
      BY ONLY SMTT(30), <3>1, CatSlices
    <3> QED
      BY <3>2 DEF l
  <2> QED
    BY <1>1, <1>6, <2>1 DEF Pending
<1> HIDE DEF p, d
<1> DEFINE a == After(abuf, b.acur)
<1>13. After(abuf, b.acur)' = a
  BY <1>1, <1>7 DEF After
<1>14. a \in Seq(Char)
  BY <1>4
<1> HIDE DEF a
<1>15. Cat(Cat(Given, s), Cat(p, a)) = Cat(Given, Cat(Cat(s, p), a))
  BY <1>4, <1>10, <1>14, CatFour
<1>16. Flow = Cat(Given, Cat(Cat(s, p), a))
  BY <1>12 DEF Flow, Ahead, a
<1>17. Flow' = Cat(Given', Cat(Pending', After(abuf, b.acur)'))
  BY DEF Flow, Ahead
<1>18. Flow' = Flow
  BY <1>9, <1>11, <1>13, <1>15, <1>16, <1>17
<1>19. PlainInv /\ ArmorInv
  BY <1>3 DEF ContentInv
<1>20. b.isarmor = "no" => /\ abuf' = <<>>
                           /\ b'.eof => fpos = Len(in.file)
                           /\ b'.eof /\ b'.cur < b'.size => Len(in.file) < ProbeLen
  BY <1>1, <1>7, <1>19 DEF PlainInv
<1>21. b.isarmor = "yes" => (b'.eof => b'.ended /\ b'.size = 0 /\ abuf' = <<>>)
  BY <1>1, <1>7, <1>19 DEF ArmorInv
<1>22. ~Stale'
  BY <1>7 DEF Stale
<1> QED
  BY <1>1, <1>3, <1>7, <1>8, <1>18, <1>20, <1>21, <1>22, MovedKeeps

LEMMA AreadCopyContent == ASSUME ReaderInv, ContentInv, ~Stale, AreadCopy PROVE ContentInv'
<1>1. op.aread /\ UNCHANGED <<in, fpos, abuf, rec, got, cl>>
  BY DEF AreadCopy
<1>2. PICK c \in Nat \ {0} :
              /\ op.fill + c \in Nat /\ op.fill + c <= BufSize
              /\ b.acur + c \in Nat /\ b.acur + c <= Len(abuf)
              /\ buf' = (Before(buf, op.fill) \o SubSeq(abuf, b.acur + 1, b.acur + c))
                           \o After(buf, op.fill + c)
              /\ \/ /\ op.fill + c = BufSize
                    /\ b' = [b EXCEPT !.acur = b.acur + c, !.size = BufSize]
                    /\ op' = [op EXCEPT !.fill = op.fill + c, !.aread = FALSE]
                 \/ /\ op.fill + c < BufSize
                    /\ b' = [b EXCEPT !.acur = b.acur + c]
                    /\ op' = [op EXCEPT !.fill = op.fill + c, !.aread = TRUE]
  BY AreadCopyIs
<1>3. /\ Running /\ b.isarmor = "yes" /\ b.cur = 0 /\ b.size = 0 /\ ~b.eof
      /\ op.fill <= Len(buf)
  BY <1>1, InAread
<1>4. cl.phase # "stop" /\ IbufTypes /\ Bounds
  BY <1>3, InCall
<1>5. /\ op.fill \in Nat /\ b.acur \in Nat /\ Len(buf) \in Nat /\ Len(abuf) \in Nat
      /\ buf \in Seq(Char) /\ abuf \in Seq(Char) /\ Given \in Seq(Char) /\ b \in Scalars
      /\ op \in Operations
  BY <1>4, Numbers, FlowTypes DEF IbufTypes
<1> DEFINE k == op.fill + c
           j == b.acur + c
           s == SubSeq(abuf, b.acur + 1, j)
           p == Before(buf, op.fill)
           a == SubSeq(abuf, j + 1, Len(abuf))
           t == p \o s
<1>6. k \in Nat /\ j \in Nat /\ b.acur <= j /\ j <= Len(abuf) /\ j - b.acur = c
  <2>1. c \in Nat /\ b.acur \in Nat
    BY <1>5
  <2>2. /\ op.fill + c \in Nat /\ b.acur + c \in Nat /\ b.acur + c <= Len(abuf)
    BY <1>2
  <2> QED
    BY ONLY <2>1, <2>2
<1>7. buf' = t \o After(buf, k)
  BY <1>2
<1>8. /\ b'.cur = 0 /\ b'.acur = j /\ b'.isarmor = "yes" /\ b'.eof = b.eof /\ b'.ended = b.ended
      /\ op'.dest = op.dest /\ op'.fill = k /\ (op'.aread \/ (~op'.aread /\ b'.size = k))
  <2> HIDE DEF k, j
  <2>1. CASE /\ k = BufSize
             /\ b' = [b EXCEPT !.acur = j, !.size = BufSize]
             /\ op' = [op EXCEPT !.fill = k, !.aread = FALSE]
    BY <1>3, <1>5, <2>1 DEF Scalars, Operations
  <2>2. CASE /\ b' = [b EXCEPT !.acur = j]
             /\ op' = [op EXCEPT !.fill = k, !.aread = TRUE]
    BY <1>3, <1>5, <2>2 DEF Scalars, Operations
  <2> QED
    BY <1>2, <2>1, <2>2 DEF k, j
<1> HIDE DEF j
<1>9. s \in Seq(Char) /\ Len(s) = c
  <2>1. SubSeq(abuf, b.acur + 1, j) \in Seq(Char) /\ Len(SubSeq(abuf, b.acur + 1, j)) = j - b.acur
    BY <1>5, <1>6, Slice
  <2> QED
    BY <1>6, <2>1
<1>10. p \in Seq(Char) /\ Len(p) = op.fill
  <2>1. op.fill \in 0..Len(buf)
    BY <1>3, <1>5
  <2> QED
    BY <1>5, <2>1, Cut
<1> HIDE DEF s, p
<1>11. t \in Seq(Char) /\ Len(t) = k
  BY <1>9, <1>10, ConcatProperties
<1> HIDE DEF t, k
<1>12. Before(buf', k) = t
  <2>1. Before(t \o After(buf, k), k) = t
    BY <1>5, <1>11, Stored
  <2> QED
    BY <1>7, <2>1
<1>13. Pending' = Cat(p, s)
  <2>1. Pending' = SubSeq(buf', 1, k)
    <3>1. Pending' = IF op'.aread THEN SubSeq(buf', 1, op'.fill) ELSE SubSeq(buf', b'.cur + 1, b'.size)
      BY DEF Pending
    <3>2. CASE op'.aread
      BY <1>8, <3>1, <3>2
    <3>3. CASE ~op'.aread
      <4>1. b'.cur + 1 = 1 /\ b'.size = k
        BY <1>8, <3>3
      <4> QED
        BY <3>1, <3>3, <4>1
    <3> QED
      BY <3>2, <3>3
  <2> QED
    BY <1>12, <2>1 DEF Before, Cat, t
<1>14. Pending = p
  BY <1>1 DEF Pending, Before, p
<1>15. a \in Seq(Char) /\ After(abuf, b.acur) = Cat(s, a)
  <2> DEFINE l == Len(abuf)
  <2>1. l \in Nat /\ j <= l /\ l <= Len(abuf)
    BY <1>5, <1>6
  <2>2. a = SubSeq(abuf, j + 1, l) /\ After(abuf, b.acur) = SubSeq(abuf, b.acur + 1, l)
    BY DEF After
  <2> HIDE DEF l, a
  <2>3. Cat(SubSeq(abuf, b.acur + 1, j), SubSeq(abuf, j + 1, l)) = SubSeq(abuf, b.acur + 1, l)
    <3>1. /\ l \in Nat /\ j \in Nat /\ b.acur \in Nat /\ b.acur <= j /\ j <= l /\ l <= Len(abuf)
          /\ abuf \in Seq(Char)
      BY <1>5, <1>6, <2>1
    <3> QED
      BY ONLY SMTT(30), <3>1, CatSlices
  <2>4. SubSeq(abuf, j + 1, l) \in Seq(Char)
    BY <1>5, <1>6, <2>1, Slice
  <2> QED
    BY <2>2, <2>3, <2>4 DEF s
<1>16. After(abuf, b.acur)' = a
  BY <1>1, <1>8 DEF After
<1> HIDE DEF a
<1>17. Cat(Cat(p, s), a) = Cat(p, Cat(s, a))
  BY <1>9, <1>10, <1>15, CatRegroup
<1>18. Given' = Given
  BY <1>1, <1>8 DEF Given, Cat
<1>19. Flow' = Cat(Given', Cat(Pending', After(abuf, b.acur)')) /\ Flow = Cat(Given, Cat(Pending, After(abuf, b.acur)))
  BY DEF Flow, Ahead
<1>20. Flow' = Flow
  BY <1>13, <1>14, <1>15, <1>16, <1>17, <1>18, <1>19
<1>21. ~Stale'
  <2>1. BufSize \in Nat
    BY Lengths
  <2>2. b'.size = 0 \/ b'.size = BufSize
    BY <1>2, <1>3, <1>5 DEF Scalars
  <2> QED
    BY <2>1, <2>2 DEF Stale, MinusTwo
<1> QED
  BY <1>1, <1>3, <1>4, <1>8, <1>20, <1>21, MovedKeeps

\* A read() fails or armor is refused.
LEMMA ErrorContent ==
    ASSUME ReaderInv, ContentInv, ~Stale, ~Stale', cl.phase # "stop", in' = in, got' = got, NEW o, Stop(o),
           o \notin {"ok", "badheader"},
           o \in {"badarmor", "overread"} => Refusable
    PROVE  ContentInv'
<1>1. InputIs /\ PlainInv /\ ArmorInv
  BY DEF ContentInv
<1>2. cl'.phase = "stop" /\ cl'.outcome = o
  BY DEF Stop, ReaderInv, IbufTypes, Callers
<1>3. InputIs'
  BY <1>1 DEF InputIs, FileIs, Before
<1>4. Content' = Content /\ LooksArmored' = LooksArmored
  BY DEF Content, LooksArmored
<1>5. InOrder'
  <2>1. InOrder
    BY <1>1, InOrderNow
  <2> QED
    BY <1>4, <2>1 DEF InOrder, IsPrefix
<1>6. EndIsEnd'
  BY <1>2 DEF EndIsEnd
<1>7. ArmorRefusedForCause'
  BY <1>2, <1>4 DEF ArmorRefusedForCause, Refusable, Straddles, TextLen, BlockLen
<1> QED
  BY <1>2, <1>3, <1>5, <1>6, <1>7 DEF ContentInv, Ended

LEMMA ReadFailsContent == ASSUME ReaderInv, ContentInv, ~Stale, ReadFails PROVE ContentInv'
<1>1. Running
  BY DEF ReadFails, Empty, Checked, ReaderInv, Bounds
<1>2. cl.phase # "stop"
  BY <1>1, InCall
<1>3. UNCHANGED <<in, got>> /\ Stop("ioerror") /\ ~Stale'
  BY DEF ReadFails, Stale
<1> QED
  BY <1>2, <1>3, ErrorContent

\* Armor is refused: bread stops, bpeek leaves a size of its own.
LEMMA RefusedContent ==
    ASSUME ReaderInv, ContentInv, ~Stale, op.aread, in' = in, NEW f \in Scalars, f.size = 0,
           ArmorError(f), Refusable
    PROVE  ContentInv'
<1>1. cl.phase # "stop" /\ IbufTypes
  BY InAread, InCall
<1>2. got' = got
  BY ArmorErrorIs
<1>3. CASE op.name = "bread" /\ Stop("badarmor") /\ b' = f
  <2>1. ~Stale'
    BY <1>3, Lengths DEF Stale, MinusTwo
  <2> QED
    BY <1>1, <1>2, <1>3, <2>1, ErrorContent
<1>4. CASE /\ op.name = "bpeek" /\ b' = [f EXCEPT !.size = MinusTwo]
           /\ \E h \in HeaderEnd : cl' = [cl EXCEPT !.eof = FALSE, !.hdr = h]
  <2>1. Stale'
    BY <1>4 DEF Stale, MinusTwo, Scalars
  <2>2. cl'.phase = cl.phase
    BY <1>1, <1>4 DEF IbufTypes, Callers
  <2>3. InputIs'
    BY DEF ContentInv, InputIs, FileIs, Before
  <2>4. Refusable'
    BY DEF Refusable, LooksArmored, Straddles, TextLen, BlockLen
  <2> QED
    BY <1>1, <2>1, <2>2, <2>3, <2>4 DEF ContentInv
<1> QED
  BY <1>3, <1>4, ArmorErrorIs

LEMMA AreadEndContent == ASSUME ReaderInv, ContentInv, ~Stale, AreadEnd PROVE ContentInv'
<1>1. /\ op.aread /\ b.acur = Len(abuf) /\ Rest = 0 /\ abuf' = <<>> /\ UNCHANGED <<in, fpos, buf, rec>>
  BY DEF AreadEnd
<1>2. /\ Running /\ b.isarmor = "yes" /\ b.cur = 0 /\ b.size = 0 /\ ~b.eof
      /\ op.fill <= Len(buf)
  BY <1>1, InAread
<1>3. cl.phase # "stop" /\ IbufTypes /\ Bounds /\ ArmorInv
  BY <1>2, InCall DEF ContentInv
<1>4. /\ b \in Scalars /\ op \in Operations /\ op.fill \in Nat /\ Len(abuf) \in Nat /\ abuf \in Seq(Char)
      /\ fpos \in Nat /\ Len(in.file) \in Nat /\ in.kind \in {"plain", "armored", "damaged"}
  BY <1>3, Numbers DEF IbufTypes, Inputs
<1>5. CASE ~b.ended
  <2> DEFINE f == [b EXCEPT !.acur = 0]
  <2>1. ArmorError(f)
    BY <1>5 DEF AreadEnd
  <2>3. f \in Scalars /\ f.size = 0
    BY <1>2, <1>4 DEF Scalars
  <2> HIDE DEF f
  <2>2. Refusable
    <3>1. ~(fpos < Len(in.file))
      BY <1>1, <1>4 DEF Rest
    <3>2. in.kind # "plain" /\ (in.kind = "armored" /\ ~Straddles(in.n) => fpos < Len(in.file) \/ b.ended)
      BY <1>2, <1>3 DEF ArmorInv
    <3> QED
      BY <1>4, <1>5, <3>1, <3>2 DEF Refusable
  <2> QED
    BY <1>1, <2>1, <2>2, <2>3, RefusedContent
<1>6. CASE b.ended
  <2>1. /\ b' = [b EXCEPT !.acur = 0, !.size = op.fill, !.eof = op.fill = 0]
        /\ IF op.fill = 0 THEN ReturnsAtEnd
           ELSE op' = [op EXCEPT !.aread = FALSE] /\ UNCHANGED <<got, cl>>
    BY <1>6 DEF AreadEnd
  <2>2. /\ b'.cur = 0 /\ b'.size = op.fill /\ b'.isarmor = "yes" /\ b'.acur = 0
        /\ b'.ended /\ b'.eof = (op.fill = 0)
    <3> DEFINE e == op.fill = 0
    <3>1. e \in BOOLEAN /\ b' = [b EXCEPT !.acur = 0, !.size = op.fill, !.eof = e]
      BY <2>1
    <3> HIDE DEF e
    <3>2. /\ b'.cur = 0 /\ b'.size = op.fill /\ b'.isarmor = "yes" /\ b'.acur = 0
          /\ b'.ended /\ b'.eof = e
      BY <1>2, <1>4, <1>6, <3>1 DEF Scalars
    <3> QED
      BY <3>2 DEF e
  <2>3. cl'.phase = cl.phase /\ ~op'.aread /\ got' \o op'.dest = got \o op.dest
    <3>1. CASE op.fill = 0
      <4>1. ReturnsAtEnd /\ b'.eof /\ b'.cur = b'.size
        BY <2>1, <2>2, <3>1
      <4>2. /\ cl'.phase = cl.phase /\ op' = Idle /\ op'.dest = <<>>
            /\ got' = got \o op.dest /\ got' \in Seq(Char)
        BY <1>1, <1>2, <4>1, EndLeaves
      <4>3. ~op'.aread
        BY <4>2 DEF Idle
      <4> QED
        BY <4>2, <4>3
    <3>2. CASE op.fill # 0
      <4>1. op' = [op EXCEPT !.aread = FALSE] /\ UNCHANGED <<got, cl>>
        BY <2>1, <3>2
      <4> QED
        BY <1>4, <4>1 DEF Operations
    <3> QED
      BY <3>1, <3>2
  <2>4. Pending' = Pending
    <3>1. Pending = SubSeq(buf, 1, op.fill)
      BY <1>1 DEF Pending
    <3>2. Pending' = SubSeq(buf', b'.cur + 1, b'.size)
      BY <2>3 DEF Pending
    <3>3. b'.cur + 1 = 1
      BY <2>2
    <3> QED
      BY <1>1, <2>2, <3>1, <3>2, <3>3
  <2>5. After(abuf, b.acur) = <<>> /\ After(abuf, b.acur)' = <<>>
    <3> DEFINE l == Len(abuf)
               m == Len(abuf')
    <3>1. l \in Nat /\ b.acur = l /\ m = 0
      BY <1>1, <1>4, NullLen
    <3> HIDE DEF l, m
    <3>2. SubSeq(abuf, l + 1, l) = <<>> /\ SubSeq(abuf', 0 + 1, 0) = <<>>
      BY <3>1, SubSeqEmpty
    <3>3. SubSeq(abuf, b.acur + 1, l) = <<>> /\ SubSeq(abuf', b'.acur + 1, m) = <<>>
      BY <2>2, <3>1, <3>2
    <3> QED
      BY <3>3 DEF After, l, m
  <2>6. Ahead' = Ahead
    <3>1. Ahead' = Cat(Pending', After(abuf, b.acur)')
      BY DEF Ahead
    <3> QED
      BY <2>4, <2>5, <3>1 DEF Ahead
  <2>7. Flow' = Flow
    BY <2>3, <2>6, GivenKept
  <2>8. ~Stale'
    <3>1. op.fill <= BufSize /\ BufSize \in Nat
      BY <1>3, Lengths DEF Bounds
    <3> QED
      BY <1>4, <2>2, <3>1 DEF Stale, MinusTwo
  <2> QED
    BY <1>1, <1>2, <1>3, <1>6, <2>2, <2>3, <2>7, <2>8, MovedKeeps
<1> QED
  BY <1>5, <1>6

LEMMA FillContent == ASSUME ReaderInv, ContentInv, ~Stale, Fill PROVE ContentInv'
<1>1. /\ Running /\ b.isarmor = "no" /\ b.size = 0 /\ ~b.eof /\ ~op.aread /\ Rest > 0
      /\ UNCHANGED <<in, abuf, rec, op, got, cl>>
  BY DEF Fill, Empty, Checked
<1>2. PICK k \in 1..Least(BufSize, Rest) :
         /\ buf' = Text(k) \o SubSeq(buf, k + 1, Len(buf))
         /\ fpos' = fpos + k
         /\ b' = [b EXCEPT !.size = k]
  BY DEF Fill
<1>3. cl.phase # "stop" /\ IbufTypes /\ Bounds
  BY <1>1, InCall
<1>4. InputIs /\ in.kind = "plain" /\ Flow = Before(in.file, fpos) /\ abuf = <<>>
  BY <1>1, <1>3 DEF ContentInv, PlainInv
<1>5. /\ b.cur = 0 /\ BufSize \in Nat /\ fpos \in Nat /\ Len(in.file) \in Nat /\ buf \in Seq(Char)
      /\ b \in Scalars /\ fpos <= Len(in.file) /\ in.file \in Seq(Char) /\ Given \in Seq(Char)
  <2>1. b.cur \in Nat /\ b.cur <= 0 /\ fpos <= Len(in.file)
    BY <1>1, <1>3, Numbers DEF Bounds
  <2>2. b.cur = 0
    BY <2>1
  <2>3. Given \in Seq(Char)
    BY <1>3, FlowTypes
  <2>4. buf \in Seq(Char) /\ b \in Scalars
    BY <1>3 DEF IbufTypes
  <2> QED
    BY <1>3, <2>1, <2>2, <2>3, <2>4, Numbers
<1>6. k \in Nat /\ k <= Rest
  <2>1. Rest \in Nat
    BY <1>1, <1>5 DEF Rest
  <2> QED
    BY <1>2, <1>5, <2>1, LeastIs
<1>7. /\ Text(k) \in Seq(Char) /\ Len(Text(k)) = k /\ fpos + k \in Nat /\ fpos + k <= Len(in.file)
  BY <1>3, <1>5, <1>6, TextIs
<1>8. b'.cur = 0 /\ b'.size = k /\ b'.acur = b.acur /\ b'.isarmor = "no" /\ ~b'.eof
  BY <1>1, <1>2, <1>5 DEF Scalars
<1>9. Pending = <<>>
  <2>1. Pending = SubSeq(buf, 0 + 1, 0)
    BY <1>1, <1>5 DEF Pending
  <2> QED
    BY <1>5, <2>1, SubSeqEmpty
<1>10. After(abuf, b.acur) = <<>> /\ After(abuf, b.acur)' = <<>>
  <2>1. b.acur \in Nat /\ abuf \in Seq(Char) /\ Len(abuf) = 0 /\ b.acur + 1 > Len(abuf)
    BY SMTT(30), <1>3, <1>4, NullLen, Numbers
  <2>2. After(abuf, b.acur) = <<>>
    BY <2>1, SubSeqEmpty DEF After
  <2>3. After(abuf, b.acur)' = After(abuf, b.acur)
    BY <1>1, <1>8 DEF After
  <2> QED
    BY <2>2, <2>3
<1>11. Flow = Given
  <2>1. Ahead = <<>>
    BY <1>9, <1>10 DEF Ahead, Cat
  <2> QED
    BY <1>5, <2>1 DEF Flow, Cat
<1>12. Pending' = Text(k)
  <2> DEFINE t == Text(k)
  <2>1. t \in Seq(Char) /\ k = Len(t) /\ buf' = t \o After(buf, k)
    BY <1>2, <1>7 DEF After
  <2> HIDE DEF t
  <2>2. Before(t \o After(buf, k), k) = t
    BY <1>5, <2>1, Stored
  <2>3. Before(buf', k) = t
    BY <2>1, <2>2
  <2>4. Pending' = SubSeq(buf', b'.cur + 1, b'.size) /\ b'.cur + 1 = 1
    BY <1>1, <1>8 DEF Pending
  <2> QED
    BY <1>8, <2>3, <2>4 DEF Before, t
<1>13. Ahead' = Text(k)
  <2>1. Ahead' = Cat(Pending', After(abuf, b.acur)')
    BY DEF Ahead
  <2> QED
    BY <1>7, <1>10, <1>12, <2>1 DEF Cat
<1>14. Given' = Given
  BY <1>1 DEF Given, Cat
<1>15. Flow' = Before(in.file, fpos) \o Text(k)
  <2>1. Flow' = Cat(Given', Ahead')
    BY DEF Flow
  <2> QED
    BY <1>4, <1>11, <1>13, <1>14, <2>1 DEF Cat
<1>16. Flow' = Before(in.file, fpos')
  <2> DEFINE j == fpos + k
  <2>1. j \in Nat /\ fpos <= j /\ j <= Len(in.file)
    BY <1>5, <1>6, <1>7
  <2>2. Text(k) = SubSeq(in.file, fpos + 1, j) /\ fpos' = j
    BY <1>2 DEF Text
  <2> HIDE DEF j
  <2>3. Before(in.file, j) = Before(in.file, fpos) \o SubSeq(in.file, fpos + 1, j)
    BY <1>5, <2>1, BeforeGrows
  <2> QED
    BY <1>15, <2>2, <2>3
<1>17. PlainInv' /\ ArmorInv'
  BY <1>1, <1>4, <1>8, <1>16 DEF PlainInv, ArmorInv
<1>18. InputIs'
  BY <1>1, <1>4 DEF InputIs, FileIs, Before
<1>19. ~Stale'
  <2>1. k <= BufSize
    <3>1. Rest \in Nat
      BY <1>1, <1>5 DEF Rest
    <3> QED
      BY <1>2, <1>5, <3>1, LeastIs
  <2> QED
    BY <1>5, <1>6, <1>8, <2>1 DEF Stale, MinusTwo
<1> QED
  BY <1>1, <1>3, <1>17, <1>18, <1>19 DEF ContentInv

LEMMA FileBegins ==
    ASSUME NEW f \in Seq(Char), NEW m \in Nat, FileIs(f, m)
    PROVE  ProbeLen <= Len(f) /\ Before(f, ProbeLen) = BeginLine
<1>1. PICK k \in ProbeLen..Len(Armored(m)) :
         /\ Len(f) = k \/ (Len(f) = k + 1 /\ f[k + 1] = NL)
         /\ \A j \in 1..k : f[j] = Armored(m)[j]
  BY DEF FileIs
<1>2. \A j \in 1..ProbeLen : Armored(m)[j] = <<"begin", j>>
  BY ArmoredIs
<1>3. ProbeLen \in Nat /\ k \in Nat /\ ProbeLen <= k /\ ProbeLen <= Len(f) /\ Len(f) \in Nat
  <2>1. ProbeLen \in Nat /\ Len(f) \in Nat /\ Len(Armored(m)) \in Nat
    BY Lengths, LenProperties, ArmoredIs
  <2> QED
    BY <1>1, <2>1
<1>4. BeginLine \in Seq(Char) /\ Len(BeginLine) = ProbeLen /\ \A j \in 1..ProbeLen : BeginLine[j] = <<"begin", j>>
  <2>1. \A j \in 1..ProbeLen : <<"begin", j>> \in Char
    BY <1>3 DEF Char
  <2> QED
    BY <1>3, <2>1 DEF BeginLine
<1>5. ProbeLen \in 0..Len(f)
  BY <1>3
<1>6. /\ Before(f, ProbeLen) \in Seq(Char) /\ Len(Before(f, ProbeLen)) = ProbeLen
      /\ \A j \in 1..ProbeLen : Before(f, ProbeLen)[j] = f[j]
  BY <1>5, Cut
<1>7. \A j \in 1..ProbeLen : Before(f, ProbeLen)[j] = BeginLine[j]
  <2>1. \A j \in 1..ProbeLen : j \in 1..k
    BY <1>3
  <2> QED
    BY <1>1, <1>2, <1>4, <1>6, <2>1
<1> HIDE DEF BeginLine
<1>8. Before(f, ProbeLen) = BeginLine
  BY <1>4, <1>6, <1>7, Same
<1> QED
  BY <1>3, <1>8

LEMMA ProbeContent == ASSUME ReaderInv, ContentInv, ~Stale, Probe PROVE ContentInv'
<1> DEFINE k == Least(ProbeLen, Rest)
           yes == Text(k) = BeginLine
<1>1. /\ Running /\ b.isarmor = "unchecked" /\ buf' = Text(k) /\ fpos' = fpos + k
      /\ b' = [b EXCEPT !.isarmor = IF yes THEN "yes" ELSE "no",
                        !.size = IF yes THEN 0 ELSE k, !.eof = k < ProbeLen]
      /\ UNCHANGED <<in, abuf, rec, op, got, cl>>
  BY DEF Probe
<1>2. cl.phase # "stop" /\ IbufTypes /\ Bounds /\ Blank
  BY <1>1, InCall DEF Bounds
<1>3. /\ fpos = 0 /\ b.cur = 0 /\ b.acur = 0 /\ abuf = <<>> /\ got = <<>> /\ op.dest = <<>>
      /\ ~op.aread /\ ~b.ended /\ b \in Scalars
  BY <1>2 DEF Blank, IbufTypes
<1>4. /\ Len(in.file) \in Nat /\ in.file \in Seq(Char) /\ in.n \in Nat /\ ProbeLen \in Nat \ {0}
      /\ in.kind \in {"plain", "armored", "damaged"}
  BY <1>2, Numbers DEF IbufTypes, Inputs
<1>5. Rest = Len(in.file) /\ Rest \in Nat
  BY <1>3, <1>4 DEF Rest
<1>6. /\ k \in Nat /\ k <= ProbeLen /\ k <= Len(in.file) /\ (k < ProbeLen => k = Len(in.file))
      /\ (ProbeLen <= Len(in.file) => k = ProbeLen)
  <2>1. ProbeLen \in Nat
    BY <1>4
  <2>2. k \in Nat /\ k <= ProbeLen /\ k <= Rest /\ k \in {ProbeLen, Rest}
    BY <1>5, <2>1, LeastIs
  <2> HIDE DEF k
  <2> QED
    BY <1>4, <1>5, <2>2
<1>7. Text(k) \in Seq(Char) /\ Len(Text(k)) = k /\ Text(k) = Before(in.file, k)
  <2>1. k \in 0..Len(in.file)
    BY <1>4, <1>6
  <2>2. Text(k) = SubSeq(in.file, 0 + 1, 0 + k)
    BY <1>3 DEF Text
  <2>3. 0 + 1 = 1 /\ 0 + k = k
    BY <1>6
  <2>4. Text(k) = Before(in.file, k)
    BY <2>2, <2>3 DEF Before
  <2> QED
    BY <1>4, <2>1, <2>4, Cut
<1>8. fpos' = k
  BY <1>1, <1>3, <1>6
<1> DEFINE e == k < ProbeLen
<1>9. e \in BOOLEAN /\ (e <=> k < ProbeLen)
  OBVIOUS
<1>10. /\ b'.isarmor = (IF yes THEN "yes" ELSE "no") /\ b'.size = (IF yes THEN 0 ELSE k)
       /\ b'.eof = e /\ b'.cur = 0 /\ b'.acur = 0 /\ ~b'.ended
  <2>1. b' = [b EXCEPT !.isarmor = IF yes THEN "yes" ELSE "no", !.size = IF yes THEN 0 ELSE k, !.eof = e]
    BY <1>1
  <2> HIDE DEF e, yes, k
  <2> QED
    BY <1>3, <2>1 DEF Scalars
<1> HIDE DEF e
<1>11. Flow' = SubSeq(buf', 1, b'.size)
  <2>1. Given' = Cat(got', op'.dest) /\ Ahead' = Cat(Pending', After(abuf, b.acur)') /\ Flow' = Cat(Given', Ahead')
    BY DEF Given, Ahead, Flow
  <2>2. Given' = <<>>
    BY <1>1, <1>3, <2>1 DEF Cat
  <2>3. After(abuf, b.acur)' = <<>>
    <3>1. After(abuf, b.acur)' = SubSeq(<<>>, 0 + 1, 0)
      BY <1>1, <1>3, <1>10, NullLen DEF After
    <3> QED
      BY <3>1, SubSeqEmpty
  <2>4. Pending' = SubSeq(buf', 1, b'.size)
    <3>1. ~op'.aread /\ b'.cur + 1 = 1
      BY <1>1, <1>3, <1>10
    <3>2. Pending' = SubSeq(buf', b'.cur + 1, b'.size)
      BY <3>1 DEF Pending
    <3> QED
      BY <3>1, <3>2
  <2>5. SubSeq(buf', 1, b'.size) \in Seq(Char)
    <3>1. buf' \in Seq(Char) /\ Len(buf') = k /\ b'.size \in 0..k
      BY <1>1, <1>6, <1>7, <1>10
    <3> HIDE DEF k
    <3>2. Before(buf', b'.size) \in Seq(Char)
      BY <3>1, Cut
    <3> QED
      BY <3>2 DEF Before
  <2> HIDE DEF k, yes
  <2> QED
    BY <2>1, <2>2, <2>3, <2>4, <2>5 DEF Cat
<1>12. InputIs
  BY <1>2 DEF ContentInv
<1>15. ~Stale'
  <2>1. BufSize \in Nat /\ ProbeLen < BufSize
    BY Lengths
  <2>2. b'.size = 0 \/ b'.size = k
    BY <1>10
  <2> HIDE DEF k, yes
  <2> QED
    BY <1>4, <1>6, <2>1, <2>2 DEF Stale, MinusTwo
<1>13. CASE yes
  <2>1. k = ProbeLen /\ ProbeLen <= Len(in.file) /\ Before(in.file, ProbeLen) = BeginLine
    <3>1. Len(BeginLine) = ProbeLen
      BY <1>4 DEF BeginLine
    <3>2. k = ProbeLen
      BY <1>7, <1>13, <3>1
    <3> QED
      BY <1>6, <1>7, <1>13, <3>2
  <2>2. in.kind # "plain" /\ FileIs(in.file, in.n)
    BY <1>12, <2>1 DEF InputIs
  <2>3. b'.isarmor = "yes" /\ ~b'.eof /\ b'.size = 0
    <3> HIDE DEF yes, k
    <3> QED
      BY <1>4, <1>9, <1>10, <1>13, <2>1
  <2>4. Flow' = Bytes(0)
    <3>1. Flow' = <<>>
      BY <1>11, <2>3, SubSeqEmpty
    <3> QED
      BY <3>1, SentNone
  <2>5. Pos' = 0 /\ TextLen(in.n) \in Nat /\ Cnt(0, in.n) = 0
    <3>1. fpos' = ProbeLen /\ ProbeLen - ProbeLen = 0
      BY <1>4, <1>8, <2>1
    <3>2. Pos' = 0
      BY <3>1 DEF Pos
    <3> QED
      BY <1>4, <3>2, CntAtEnd
  <2>6. ReadTo(0)'
    BY <1>1, <1>10, <2>4, <2>5 DEF ReadTo, Cnt, Least, Upto, Bytes, W
  <2>7. OnBlock'
    <3>1. 0 = 0 * BlockLen
      BY BlockSize
    <3>2. BlockLen' = BlockLen /\ TextLen(in.n)' = TextLen(in.n)
      BY <1>1 DEF BlockLen, TextLen
    <3> QED
      BY <2>5, <3>1, <3>2 DEF OnBlock
  <2>8. in.kind = "armored" => fpos' < Len(in.file)
    <3>1. SUFFICES ASSUME in.file = Armored(in.n) PROVE fpos' < Len(in.file)
      BY <1>12 DEF InputIs
    <3>2. Len(Armored(in.n)) = (ProbeLen + TextLen(in.n)) + EndLen /\ EndLen \in Nat \ {0}
      BY <1>4, ArmoredIs, Lengths
    <3> HIDE DEF k
    <3> QED
      BY <1>4, <1>8, <2>1, <2>5, <3>1, <3>2
  <2>9. 0 \in 0..in'.n /\ ProbeLen <= fpos'
    BY <1>1, <1>4, <1>8, <2>1
  <2>10. Straddles(in.n)' = Straddles(in.n)
    BY <1>1 DEF Straddles, TextLen, BlockLen
  <2>11. ArmorInv'
    BY <1>1, <1>10, <2>2, <2>3, <2>6, <2>7, <2>8, <2>9, <2>10 DEF ArmorInv
  <2>12. PlainInv'
    BY <2>3 DEF PlainInv
  <2>13. InputIs'
    BY <1>1, <1>12 DEF InputIs, FileIs, Before
  <2> QED
    BY <1>1, <1>2, <1>15, <2>11, <2>12, <2>13 DEF ContentInv
<1>14. CASE ~yes
  <2>1. b'.isarmor = "no" /\ b'.size = k
    BY <1>10, <1>14
  <2>2. Flow' = Before(in.file, k)
    <3>1. Before(Text(k), k) = Text(k)
      <4> DEFINE t == Text(k)
      <4>1. t \in Seq(Char) /\ Len(t) = k /\ k \in 0..k
        BY <1>6, <1>7
      <4> HIDE DEF t, k
      <4>2. Before(t, k) \in Seq(Char) /\ Len(Before(t, k)) = k /\ \A i \in 1..k : Before(t, k)[i] = t[i]
        BY <4>1, Cut
      <4>3. Before(t, k) = t
        BY <4>1, <4>2, Same
      <4> QED
        BY <4>3 DEF t
    <3> QED
      BY <1>1, <1>7, <1>11, <2>1, <3>1 DEF Before
  <2>3. in.kind = "plain"
    <3>1. SUFFICES ASSUME in.kind # "plain" PROVE FALSE
      OBVIOUS
    <3>2. FileIs(in.file, in.n)
      BY <1>12, <3>1 DEF InputIs
    <3>3. ProbeLen <= Len(in.file) /\ Before(in.file, ProbeLen) = BeginLine
      BY <1>4, <3>2, FileBegins
    <3> QED
      BY <1>6, <1>7, <1>14, <3>3
  <2>4. b'.eof => fpos' = Len(in.file) /\ Len(in.file) < ProbeLen
    <3> HIDE DEF k
    <3> QED
      BY <1>6, <1>8, <1>9, <1>10
  <2>5. PlainInv'
    BY <1>1, <1>3, <1>8, <2>2, <2>3, <2>4 DEF PlainInv
  <2>6. ArmorInv'
    BY <2>1 DEF ArmorInv
  <2>7. InputIs'
    BY <1>1, <1>12 DEF InputIs, FileIs, Before
  <2> QED
    BY <1>1, <1>2, <1>15, <2>5, <2>6, <2>7 DEF ContentInv
<1> QED
  BY <1>13, <1>14

\* The block that aread reads next.
LEMMA NextBlock ==
    ASSUME ReaderInv, ContentInv, ~Stale, op.aread, Rest > 0
    PROVE  LET k == Least(BlockLen, Rest)
           IN  /\ in.file \in Seq(Char) /\ in.n \in Nat /\ FileIs(in.file, in.n) /\ Pos \in Nat
               /\ Pos <= TextLen(in.n) /\ k \in Nat \ {0} /\ fpos = ProbeLen + Pos /\ fpos \in Nat
               /\ k <= BlockLen /\ fpos + k <= Len(in.file) /\ (fpos + k < Len(in.file) => k = BlockLen)
               /\ k = Least(BlockLen, Len(in.file) - (ProbeLen + Pos))
               /\ (Rest = k <=> fpos + k = Len(in.file))
               /\ Block(in.file, in.n, Pos, k, Text(k))
               /\ \E i \in Nat : Pos = i * BlockLen
               /\ Flow = Bytes(Cnt(Pos, in.n)) /\ Cnt(Pos, in.n) \in 0..in.n
<1> DEFINE k == Least(BlockLen, Rest)
<1>1. Running /\ b.isarmor = "yes" /\ cl.phase # "stop" /\ IbufTypes /\ Bounds
  BY InAread, InCall
<1>2. InputIs /\ ArmorInv
  BY <1>1 DEF ContentInv
<1>3. /\ in.file \in Seq(Char) /\ in.n \in Nat /\ Len(in.file) \in Nat /\ fpos \in Nat
      /\ ProbeLen \in Nat /\ BlockLen \in Nat \ {0}
  BY <1>1, Numbers
<1>4. FileIs(in.file, in.n) /\ ProbeLen <= fpos /\ OnBlock /\ \E d \in 0..in.n : ReadTo(d)
  BY <1>1, <1>2 DEF InputIs, ArmorInv
<1>5. Pos \in Nat /\ fpos = ProbeLen + Pos
  BY <1>3, <1>4 DEF Pos
<1>6. fpos < Len(in.file) /\ Rest \in Nat /\ Rest = Len(in.file) - fpos
  BY <1>3 DEF Rest
<1>7. Pos <= TextLen(in.n) /\ \E i \in Nat : Pos = i * BlockLen
  BY <1>4, <1>6 DEF OnBlock
<1>8. PICK d \in 0..in.n : Flow = Bytes(d) /\ d = Cnt(Pos, in.n)
  BY <1>4, <1>6 DEF ReadTo
<1>9. k \in Nat /\ k <= BlockLen /\ k <= Rest /\ k \in {BlockLen, Rest}
  BY <1>3, <1>6, LeastIs
<1>10. k = Least(BlockLen, Len(in.file) - (ProbeLen + Pos))
  BY <1>5, <1>6
<1> HIDE DEF k
<1>11. /\ k \in Nat \ {0} /\ fpos + k <= Len(in.file) /\ (fpos + k < Len(in.file) => k = BlockLen)
       /\ (Rest = k <=> fpos + k = Len(in.file))
  BY <1>3, <1>6, <1>9
<1>12. Block(in.file, in.n, Pos, k, Text(k))
  <2>1. Text(k) = SubSeq(in.file, (ProbeLen + Pos) + 1, (ProbeLen + Pos) + k)
    BY <1>5 DEF Text
  <2>2. k \in Nat /\ (ProbeLen + Pos) + k <= Len(in.file)
    BY <1>5, <1>11
  <2> QED
    BY <1>3, <1>4, <1>5, <2>1, <2>2, BlockShows
<1> QED
  BY <1>3, <1>4, <1>5, <1>7, <1>8, <1>9, <1>10, <1>11, <1>12 DEF k

\* A block was decoded: the first g bytes are known.
LEMMA BlockTaken ==
    ASSUME ReaderInv, ContentInv, ~Stale, ~Stale', op.aread, b.acur = Len(abuf),
           UNCHANGED <<in, buf, op, got, cl>>, b'.isarmor = "yes", b'.acur = 0, ~b'.eof,
           NEW c \in Nat, NEW g \in 0..in.n, c <= g, Flow = Bytes(c), abuf' = Run(c, g),
           ProbeLen <= fpos', OnBlock',
           fpos' < Len(in.file) => g = Cnt(Pos', in.n),
           b'.ended => g = in.n /\ in.kind = "armored" /\ fpos' = Len(in.file),
           in.kind = "armored" /\ ~Straddles(in.n) => fpos' < Len(in.file) \/ b'.ended
    PROVE  ContentInv'
<1>1. /\ Running /\ b.isarmor = "yes" /\ b.cur = 0 /\ b.size = 0 /\ cl.phase # "stop"
      /\ IbufTypes /\ Bounds
  BY InAread, InCall
<1>2. InputIs /\ ArmorInv /\ in.kind # "plain"
  BY <1>1 DEF ContentInv, ArmorInv
<1>3. /\ Given \in Seq(Char) /\ Pending \in Seq(Char) /\ abuf \in Seq(Char) /\ Len(abuf) \in Nat
      /\ in.n \in Nat
  BY <1>1, FlowTypes, Numbers DEF IbufTypes
<1>4. abuf' \in Seq(Char)
  <2>1. g \in Nat /\ c \in Nat /\ c <= g
    BY <1>3
  <2>2. Run(c, g) \in Seq(Char)
    BY ONLY <2>1, RunIs
  <2> QED
    BY <2>2
<1>5. After(abuf, b.acur) = <<>>
  <2> DEFINE l == Len(abuf)
  <2>1. l \in Nat /\ l + 1 > l
    BY <1>3
  <2> HIDE DEF l
  <2>2. SubSeq(abuf, l + 1, l) = <<>>
    BY <2>1, SubSeqEmpty
  <2> QED
    BY <2>2 DEF After, l
<1>6. After(abuf, b.acur)' = abuf'
  <2> DEFINE t == abuf'
             o == 0
             l == Len(t)
  <2>1. t \in Seq(Char) /\ l \in Nat /\ o \in Nat /\ o <= l /\ l <= Len(t) /\ l - o = l
        /\ \A x \in 1..l : o + x = x
    BY <1>4, LenProperties
  <2>2. After(abuf, b.acur)' = SubSeq(t, o + 1, l)
    BY DEF After
  <2> HIDE DEF t, o
  <2>3. /\ SubSeq(t, o + 1, l) \in Seq(Char) /\ Len(SubSeq(t, o + 1, l)) = l - o
        /\ \A x \in 1..(l - o) : SubSeq(t, o + 1, l)[x] = t[o + x]
    BY <2>1, Slice
  <2> DEFINE u == SubSeq(t, o + 1, l)
  <2>4. u \in Seq(Char) /\ Len(u) = Len(t) /\ \A x \in 1..Len(t) : u[x] = t[x]
    BY <2>1, <2>3
  <2> HIDE DEF u
  <2>5. u = t
    BY <2>1, <2>4, Same
  <2> QED
    BY <2>2, <2>5 DEF u, t
<1>7. Flow = Cat(Given, Pending)
  <2>1. Ahead = Pending
    BY <1>3, <1>5 DEF Ahead, Cat
  <2> QED
    BY <2>1 DEF Flow
<1>8. Flow' = Cat(Given, Cat(Pending, abuf'))
  <2>1. Given' = Given
    BY DEF Given, Cat
  <2>2. Pending' = Pending
    BY DEF Pending
  <2>3. Flow' = Cat(Given', Cat(Pending', After(abuf, b.acur)'))
    BY DEF Flow, Ahead
  <2> QED
    BY <1>6, <2>1, <2>2, <2>3
<1>9. Flow' = Bytes(g)
  <2>1. Flow' = Cat(Flow, abuf')
    BY <1>3, <1>4, <1>7, <1>8, CatRegroup
  <2>2. g \in Nat
    BY <1>3
  <2>3. Bytes(c) \o Run(c, g) = Bytes(g)
    BY <2>2, Grows
  <2> QED
    BY <2>1, <2>3 DEF Cat
<1>10. ReadTo(g)'
  <2>1. Cnt(Pos, in.n)' = Cnt(Pos', in.n) /\ Bytes(g)' = Bytes(g)
    BY DEF Cnt, Least, Upto, W, Bytes
  <2> QED
    BY <1>9, <2>1 DEF ReadTo
<1>11. Straddles(in.n)' = Straddles(in.n)
  BY DEF Straddles, TextLen, BlockLen
<1>12. ArmorInv'
  <2>1. \E d \in 0..in'.n : ReadTo(d)'
    BY <1>10
  <2> QED
    BY <1>2, <1>11, <2>1 DEF ArmorInv
<1>13. PlainInv'
  BY DEF PlainInv
<1>14. InputIs'
  BY <1>2 DEF InputIs, FileIs, Before
<1> QED
  BY <1>1, <1>12, <1>13, <1>14 DEF ContentInv

LEMMA AreadBlockContent == ASSUME ReaderInv, ContentInv, ~Stale, AreadBlock PROVE ContentInv'
<1> DEFINE k == Least(BlockLen, Rest)
           raw == Text(k)
           end == EndCheck(raw)
           n == Len(raw) - (IF end = "full" THEN EndLen ELSE 0)
           body == SubSeq(raw, 1, n)
           f == in.file
           m == in.n
           p == Pos
<1>1. /\ op.aread /\ b.acur = Len(abuf) /\ Rest > 0 /\ fpos' = fpos + Len(raw)
      /\ UNCHANGED <<in, buf, rec>>
      /\ \/ /\ \/ end = "bad"
               \/ MayRefuse(body)
               \/ end = "full" /\ Rest > Len(raw)
            /\ ArmorError(b)
         \/ /\ end # "bad"
            /\ end = "full" => Rest = Len(raw)
            /\ abuf' \in Decodings(body)
            /\ b' = [b EXCEPT !.acur = 0, !.ended = end = "full"]
            /\ UNCHANGED <<op, got, cl>>
  BY DEF AreadBlock
<1>2. Running /\ b.isarmor = "yes" /\ cl.phase # "stop" /\ ~b.eof /\ b \in Scalars
  BY <1>1, InAread, InCall DEF IbufTypes
<1>3. InputIs /\ in.kind \in {"plain", "armored", "damaged"} /\ in.kind # "plain"
  BY <1>2, InCall DEF ContentInv, ArmorInv, IbufTypes, Inputs
<1>4. /\ f \in Seq(Char) /\ m \in Nat /\ FileIs(f, m) /\ p \in Nat
      /\ p <= TextLen(m) /\ k \in Nat \ {0} /\ fpos = ProbeLen + p /\ fpos \in Nat
      /\ k <= BlockLen /\ fpos + k <= Len(f) /\ (fpos + k < Len(f) => k = BlockLen)
      /\ k = Least(BlockLen, Len(f) - (ProbeLen + p))
      /\ (Rest = k <=> fpos + k = Len(f))
      /\ Block(f, m, p, k, raw)
      /\ \E i \in Nat : p = i * BlockLen
      /\ Flow = Bytes(Cnt(p, m)) /\ Cnt(p, m) \in 0..m
  BY <1>1, NextBlock
<1>5. PICK i \in Nat : p = i * BlockLen
  BY <1>4
<1>6. raw \in Seq(Char) /\ Len(raw) = k
  BY <1>4 DEF Block
<1>7. TextLen(m) \in Nat /\ BlockLen \in Nat \ {0} /\ ProbeLen \in Nat /\ Len(f) \in Nat /\ EndLen \in Nat
  BY <1>4, CntAtEnd, BlockSize, Lengths, LenProperties
<1>8. (in.kind = "armored") <=> f = Armored(m)
  BY <1>3 DEF InputIs
<1>9. end \in {"bad", "full", "none"}
  <2> HIDE DEF raw
  <2> QED
    BY DEF EndCheck
<1>10. end # "full" => body = raw
  <2>1. SUFFICES ASSUME end # "full" PROVE body = raw
    OBVIOUS
  <2>2. n = k
    BY <1>4, <1>6, <2>1
  <2> HIDE DEF n, raw, end, k
  <2>3. k \in 0..k /\ Len(raw) = k
    BY <1>4, <1>6
  <2>4. Before(raw, k) \in Seq(Char) /\ Len(Before(raw, k)) = k /\ \A x \in 1..k : Before(raw, k)[x] = raw[x]
    BY <1>6, <2>3, Cut
  <2>5. Before(raw, k) = raw
    BY <1>6, <2>4, Same
  <2> QED
    BY <2>2, <2>5 DEF Before
<1>11. end = "full" => body = Before(raw, k - EndLen)
  BY <1>6 DEF Before
<1>12. in.kind = "armored" /\ ~Straddles(m) =>
          \/ end = "none" /\ ~MayRefuse(body) /\ fpos + k < Len(f)
          \/ end = "full" /\ ~MayRefuse(body) /\ fpos + k = Len(f)
  <2>1. SUFFICES ASSUME in.kind = "armored", ~Straddles(m)
                 PROVE  \/ end = "none" /\ ~MayRefuse(body) /\ fpos + k < Len(f)
                        \/ end = "full" /\ ~MayRefuse(body) /\ fpos + k = Len(f)
    OBVIOUS
  <2>2. f = Armored(m)
    BY <1>8, <2>1
  <2> HIDE DEF k, raw, body, f, m, p
  <2>3. \/ end = "none" /\ ~MayRefuse(raw) /\ (ProbeLen + p) + k < Len(f)
        \/ end = "full" /\ ~MayRefuse(Before(raw, k - EndLen)) /\ (ProbeLen + p) + k = Len(f)
    <3>1. /\ m \in Nat /\ ~Straddles(m) /\ f = Armored(m) /\ i \in Nat /\ p = i * BlockLen
          /\ p <= TextLen(m) /\ k = Least(BlockLen, Len(f) - (ProbeLen + p))
          /\ Block(f, m, p, k, raw)
      BY <1>4, <1>5, <2>1, <2>2
    <3> QED
      BY ONLY <3>1, WholeBlock
  <2> QED
    BY <1>4, <1>10, <1>11, <2>3
<1> HIDE DEF k, raw, body, end, f, m, p, n
<1>13. CASE /\ \/ end = "bad"
               \/ MayRefuse(body)
               \/ end = "full" /\ Rest > Len(raw)
            /\ ArmorError(b)
  <2>1. Refusable
    <3>1. SUFFICES ASSUME in.kind = "armored", ~Straddles(m) PROVE FALSE
      BY <1>3 DEF m, Refusable
    <3>2. \/ end = "none" /\ ~MayRefuse(body) /\ fpos + k < Len(f)
          \/ end = "full" /\ ~MayRefuse(body) /\ fpos + k = Len(f)
      BY <1>12, <3>1
    <3>3. end = "full" => ~(Rest > Len(raw))
      BY <1>4, <1>6, <3>2
    <3> QED
      BY <1>13, <3>2, <3>3
  <2> QED
    BY <1>1, <1>2, <1>13, <2>1, InAread, RefusedContent
<1>14. CASE /\ end # "bad"
            /\ end = "full" => Rest = Len(raw)
            /\ abuf' \in Decodings(body)
            /\ b' = [b EXCEPT !.acur = 0, !.ended = end = "full"]
            /\ UNCHANGED <<op, got, cl>>
  <2> DEFINE e == end = "full"
  <2>1. e \in BOOLEAN /\ b' = [b EXCEPT !.acur = 0, !.ended = e]
    BY <1>14
  <2> HIDE DEF e
  <2>2. b'.isarmor = "yes" /\ b'.acur = 0 /\ ~b'.eof /\ b'.ended = e /\ b'.size = b.size
    BY <1>2, <2>1 DEF Scalars
  <2>9. ~Stale'
    BY <2>2 DEF Stale
  <2>3. fpos' = fpos + k /\ fpos' = (ProbeLen + p) + k /\ ProbeLen <= fpos'
    <3>1. fpos' = fpos + k /\ fpos = ProbeLen + p
      BY <1>1, <1>4, <1>6
    <3>2. p \in Nat /\ k \in Nat /\ ProbeLen \in Nat
      BY <1>4, <1>7
    <3> QED
      BY ONLY <3>1, <3>2
  <2>4. Pos' = p + k
    BY <1>4, <1>7, <2>3 DEF Pos
  <2> DEFINE c == Cnt(p, m)
  <2>5. c \in Nat /\ c <= m /\ Flow = Bytes(c)
    BY <1>4
  <2>6. in.kind = "armored" /\ ~Straddles(in.n) => fpos' < Len(in.file) \/ b'.ended
    BY <1>12, <2>2, <2>3 DEF e, f, m
  <2>7. CASE end = "full"
    <3>1. Rest = k /\ (ProbeLen + p) + k = Len(f)
      BY <1>4, <1>6, <1>14, <2>3, <2>7
    <3>2. /\ f = Armored(m) /\ c \in Nat /\ c <= m
          /\ Decodings(Before(raw, k - EndLen)) = {Run(c, m)}
      <4> DEFINE q == i * BlockLines
      <4>1. q \in Nat /\ p = q * W
        <5>1. BlockLines \in Nat /\ W \in Nat /\ BlockLen = BlockLines * W
          BY BlockSize
        <5>2. q \in Nat
          BY <5>1, Multiples
        <5>3. i * (BlockLines * W) = (i * BlockLines) * W
          BY <5>1, Regrouped
        <5> QED
          BY <1>5, <5>1, <5>2, <5>3
      <4> HIDE DEF q
      <4>2. /\ f \in Seq(Char) /\ m \in Nat /\ FileIs(f, m) /\ p \in Nat /\ p <= TextLen(m)
            /\ q \in Nat /\ p = q * W /\ k \in Nat \ {0} /\ (ProbeLen + p) + k = Len(f)
            /\ Block(f, m, p, k, raw) /\ EndCheck(raw) = "full"
        BY <1>4, <2>7, <3>1, <4>1 DEF end
      <4> QED
        BY ONLY <4>2, BlockFull
    <3>3. abuf' = Run(c, m)
      BY <1>11, <1>14, <2>7, <3>2
    <3>4. in.kind = "armored" /\ fpos' = Len(f)
      BY <1>8, <2>3, <3>1, <3>2
    <3>5. OnBlock'
      <4>1. ~(fpos' < Len(f))
        BY <1>7, <3>4
      <4> QED
        BY <1>1, <4>1 DEF OnBlock, f
    <3>6. m \in 0..in.n /\ c \in Nat /\ c <= m /\ m = in.n
      BY <1>4, <2>5 DEF m
    <3>7. ~(fpos' < Len(in.file)) /\ in.kind = "armored" /\ fpos' = Len(in.file)
      BY <1>7, <3>4 DEF f
    <3> HIDE DEF c
    <3> QED
      BY <1>1, <1>14, <2>2, <2>3, <2>5, <2>6, <2>9, <3>3, <3>5, <3>6, <3>7, BlockTaken
  <2>8. CASE end # "full"
    <3>1. body = raw /\ ~b'.ended
      BY <1>10, <2>2, <2>8 DEF e
    <3>2. PICK g \in Nat :
             /\ c <= g /\ g <= m /\ abuf' = Run(c, g)
             /\ (ProbeLen + p) + k < Len(f) /\ k = BlockLen
                   => p + k <= TextLen(m) /\ g = Cnt(p + k, m)
      <4> DEFINE d == abuf'
      <4>1. /\ f \in Seq(Char) /\ m \in Nat /\ FileIs(f, m) /\ p \in Nat /\ p <= TextLen(m)
            /\ k \in Nat \ {0} /\ (ProbeLen + p) + k <= Len(f)
            /\ Block(f, m, p, k, raw) /\ d \in Decodings(raw)
        BY <1>4, <1>14, <3>1
      <4> HIDE DEF d, c
      <4>2. \E g \in Nat : /\ Cnt(p, m) <= g /\ g <= m /\ d = Run(Cnt(p, m), g) /\ Cnt(p, m) \in Nat
                           /\ (ProbeLen + p) + k < Len(f) /\ k = BlockLen
                                 => p + k <= TextLen(m) /\ g = Cnt(p + k, m)
        BY ONLY <4>1, BlockNone
      <4> QED
        BY <4>2 DEF c, d
    <3>3. fpos' < Len(f) => p + k <= TextLen(m) /\ g = Cnt(p + k, m) /\ k = BlockLen
      BY <1>4, <2>3, <3>2
    <3>4. fpos' < Len(in.file) => g = Cnt(Pos', in.n)
      BY <2>4, <3>3 DEF f, m
    <3>5. OnBlock'
      <4>1. SUFFICES ASSUME fpos' < Len(f)
                     PROVE  Pos' <= TextLen(m) /\ \E j \in Nat : Pos' = j * BlockLen
        <5>1. BlockLen' = BlockLen /\ TextLen(in.n)' = TextLen(m)
          BY <1>1 DEF BlockLen, TextLen, m
        <5> QED
          BY <1>1, <4>1, <5>1 DEF OnBlock, f
      <4>2. Pos' = p + BlockLen /\ Pos' <= TextLen(m)
        BY <2>4, <3>3, <4>1
      <4>3. (i + 1) * BlockLen = i * BlockLen + BlockLen /\ i + 1 \in Nat
        BY <1>7, Multiples
      <4> QED
        BY <1>5, <4>2, <4>3
    <3>6. g \in 0..in.n /\ c <= g
      BY <1>4, <3>2 DEF m
    <3> HIDE DEF c
    <3> QED
      BY <1>1, <1>14, <2>2, <2>3, <2>5, <2>6, <2>9, <3>1, <3>2, <3>4, <3>5, <3>6, BlockTaken
  <2> QED
    BY <2>7, <2>8
<1> QED
  BY <1>1, <1>13, <1>14

\* After a refusal that bpeek() dropped the buffer is never used up.
LEMMA StaleBuffer == ASSUME ReaderInv, ContentInv, Stale, BufferStep PROVE ContentInv'
<1>1. b.isarmor = "yes" /\ ~b.eof /\ b.cur # b.size /\ b.size # 0 /\ ~op.aread
  <2>1. /\ b.isarmor = "yes" /\ ~b.eof /\ b.cur <= Len(buf) /\ Len(buf) <= BufSize
        /\ op.aread => b.size = 0
    BY DEF ReaderInv, Bounds, Filled
  <2>2. BufSize \in Nat /\ b.cur \in Nat /\ Len(buf) \in Nat
    BY Lengths, Numbers DEF ReaderInv
  <2> QED
    BY <2>1, <2>2 DEF Stale, MinusTwo
<1>2. Peek \/ Copy
  BY <1>1 DEF BufferStep, Probe, Recycle, Fill, FillEnd, AtEnd, AreadBegin, AreadEnd, AreadBlock,
              AreadCopy, ReadFails, Checked, Empty
<1>3. Running /\ in' = in
  BY <1>2 DEF Peek, Copy, Checked
<1>4. cl.phase # "stop" /\ cl.outcome = "none" /\ cl \in Callers /\ b \in Scalars
  BY <1>3, InCall DEF IbufTypes
<1>5. b'.size = b.size
  BY <1>2, <1>4 DEF Peek, Copy, Scalars
<1>6. cl'.outcome # "ok"
  <2>1. \/ \E e : cl' = [cl EXCEPT !.eof = e]
        \/ \E e : cl' = [cl EXCEPT !.short = e]
        \/ cl' = cl
        \/ Stop("overread")
    BY <1>2 DEF Peek, Copy, BpeekReturns, BreadReturns
  <2> QED
    BY <1>4, <2>1 DEF Stop, Callers
<1> QED
  BY <1>3, <1>4, <1>5, <1>6, StaleStays

LEMMA BufferStepContent == ASSUME ReaderInv, ContentInv, BufferStep PROVE ContentInv'
  BY StaleBuffer, ProbeContent, RecycleContent, FillContent, FillEndContent, AtEndContent, CopyContent,
     PeekContent, AreadBeginContent, AreadEndContent, AreadBlockContent, AreadCopyContent,
     ReadFailsContent DEF BufferStep

-----------------------------------------------------------------------------
(* The inputs: those of IbufInit, and what the writer left. *)

\* Text that does not begin with the BEGIN line.
LEMMA NotBegun ==
    ASSUME NEW f \in Seq(Char), NEW x \in 1..ProbeLen, x <= Len(f) => f[x] # <<"begin", x>>
    PROVE  ~(ProbeLen <= Len(f) /\ Before(f, ProbeLen) = BeginLine)
<1> SUFFICES ASSUME ProbeLen <= Len(f), Before(f, ProbeLen) = BeginLine PROVE FALSE
  OBVIOUS
<1>1. ProbeLen \in Nat /\ Len(f) \in Nat
  BY Lengths, LenProperties
<1>2. ProbeLen \in 0..Len(f) /\ x <= Len(f)
  BY <1>1
<1>3. Before(f, ProbeLen)[x] = f[x]
  BY <1>2, Cut
<1>4. BeginLine[x] = <<"begin", x>>
  BY DEF BeginLine
<1> QED
  BY <1>2, <1>3, <1>4

LEMMA PrefixIs ==
    ASSUME NEW s \in Seq(Char), NEW t \in Seq(Char), IsPrefix(s, t)
    PROVE  Len(s) <= Len(t) /\ \A j \in 1..Len(s) : s[j] = t[j]
<1> DEFINE l == Len(s)
<1>1. l \in Nat /\ Len(t) \in Nat /\ l <= Len(t) /\ SubSeq(s, 1, l) = SubSeq(t, 1, l) /\ l = Len(s)
  BY LenProperties DEF IsPrefix
<1> HIDE DEF l
<1>2. Before(s, l) = Before(t, l)
  BY <1>1 DEF Before
<1>3. l \in 0..Len(s) /\ l \in 0..Len(t)
  BY <1>1
<1>4. \A j \in 1..l : Before(s, l)[j] = s[j]
  BY <1>3, Cut
<1>5. \A j \in 1..l : Before(t, l)[j] = t[j]
  BY <1>3, Cut
<1> QED
  BY <1>1, <1>2, <1>4, <1>5

\* Armored text, cut after the BEGIN line or not, and with a newline after it or not.
LEMMA CutArmor ==
    ASSUME NEW m \in Nat, NEW s \in Seq(Char), ProbeLen <= Len(s), Len(s) <= Len(Armored(m)),
           \A j \in 1..Len(s) : s[j] = Armored(m)[j]
    PROVE  /\ FileIs(s, m) /\ FileIs(Append(s, NL), m)
           /\ Append(s, NL) # Armored(m)
           /\ Len(s) = Len(Armored(m)) => s = Armored(m)
<1> DEFINE A == Armored(m)
           t == Append(s, NL)
           k == Len(s)
<1>1. A \in Seq(Char) /\ Len(A) \in Nat /\ k \in Nat /\ ProbeLen \in Nat /\ NL \in Char
  BY SentIs, LenProperties, Lengths, NewlineIs
<1>2. k \in ProbeLen..Len(A)
  BY <1>1
<1>3. Len(t) = k + 1 /\ t[k + 1] = NL /\ \A j \in 1..k : t[j] = s[j]
  BY <1>1, AppendProperties
<1>4. FileIs(s, m)
  BY <1>2 DEF FileIs
<1>5. FileIs(t, m)
  <2> HIDE DEF t, k, A
  <2>1. \A j \in 1..k : t[j] = A[j]
    BY <1>3 DEF k, A
  <2> QED
    BY <1>2, <1>3, <2>1 DEF FileIs, A
<1>6. t # A
  <2>1. SUFFICES ASSUME t = A PROVE FALSE
    OBVIOUS
  <2> DEFINE i == ProbeLen + TextLen(m)
  <2>2. TextLen(m) \in Nat /\ Len(A) = i + EndLen /\ \A x \in 1..EndLen : A[i + x] = <<"end", x>>
    BY ArmoredIs
  <2>3. EndLen \in Nat \ {0} /\ EndLen \in 1..EndLen
    BY Lengths
  <2>4. A[Len(A)] = <<"end", EndLen>>
    BY <2>2, <2>3
  <2>5. A[Len(A)] = NL
    BY <1>3, <2>1
  <2> HIDE DEF A, t
  <2> QED
    BY <2>4, <2>5 DEF NL
<1>7. Len(s) = Len(A) => s = A
  <2> HIDE DEF A
  <2>1. \A j \in 1..Len(s) : s[j] = A[j]
    BY DEF A
  <2> QED
    BY <1>1, <2>1, Same
<1> QED
  BY <1>4, <1>5, <1>6, <1>7

LEMMA FirstReadContent ==
    ASSUME InputIs, b.isarmor = "unchecked", ~Stale, cl.phase # "stop" PROVE ContentInv
  BY DEF ContentInv, PlainInv, ArmorInv

LEMMA BytesNotBegun ==
    ASSUME NEW m \in Nat, NEW f \in Seq(Char), \A j \in 1..Len(f) : f[j] = Bytes(m)[j], Len(f) <= m
    PROVE  ~(ProbeLen <= Len(f) /\ Before(f, ProbeLen) = BeginLine)
<1> DEFINE x == 1
<1>1. x \in 1..ProbeLen
  BY Lengths
<1>2. x <= Len(f) => f[x] # <<"begin", x>>
  <2>1. SUFFICES ASSUME x <= Len(f) PROVE f[x] # <<"begin", x>>
    OBVIOUS
  <2>2. Len(f) \in Nat
    BY LenProperties
  <2>3. x \in 1..Len(f) /\ x \in 1..m
    BY <2>1, <2>2
  <2>4. f[x] = <<"byte", x>>
    BY <2>3, BytesIs
  <2> QED
    BY <2>4
<1> HIDE DEF x
<1> QED
  BY <1>1, <1>2, NotBegun

LEMMA ContentStart == ASSUME IbufInit \/ NoReader PROVE ContentInv
<1>3. ~Stale
  <2>1. b.size = 0
    BY DEF IbufInit, NoReader, Fresh
  <2> QED
    BY <2>1, Lengths DEF Stale, MinusTwo
<1>1. CASE IbufInit
  <2>1. PICK kind \in {"plain", "armored", "damaged"}, n \in 0..MaxLen, mode \in {"decrypt", "encrypt"} :
           \E cut \in IF kind = "damaged" THEN ProbeLen..Len(Armored(n)) ELSE {0} :
              in = [kind |-> kind, n |-> n, mode |-> mode, file |-> InputText(kind, n, cut)]
    BY <1>1 DEF IbufInit
  <2>2. PICK cut \in IF kind = "damaged" THEN ProbeLen..Len(Armored(n)) ELSE {0} :
              in = [kind |-> kind, n |-> n, mode |-> mode, file |-> InputText(kind, n, cut)]
    BY <2>1
  <2>3. in.kind = kind /\ in.n = n /\ in.file = InputText(kind, n, cut)
    BY <2>2
  <2>4. n \in Nat
    BY Parameters
  <2> DEFINE A == Armored(n)
  <2>5. A \in Seq(Char) /\ Len(A) \in Nat /\ ProbeLen \in Nat /\ EndLen \in Nat
        /\ Len(A) = (ProbeLen + TextLen(n)) + EndLen /\ TextLen(n) \in Nat
    BY <2>4, ArmoredIs, LenProperties, Lengths
  <2>6. /\ FileIs(A, n) /\ FileIs(Append(A, NL), n) /\ Append(A, NL) # A
    <3> HIDE DEF A
    <3>1. ProbeLen <= Len(A) /\ Len(A) <= Len(A)
      BY <2>5
    <3>2. Len(A) <= Len(Armored(n)) /\ \A j \in 1..Len(A) : A[j] = Armored(n)[j]
      BY <3>1 DEF A
    <3> QED
      BY <2>4, <2>5, <3>1, <3>2, CutArmor DEF A
  <2>7. CASE kind = "plain"
    <3>1. in.file = Bytes(n)
      BY <2>3, <2>7 DEF InputText
    <3>2. Bytes(n) \in Seq(Char) /\ Len(Bytes(n)) = n
      BY <2>4, BytesIs
    <3>3. ~(ProbeLen <= Len(in.file) /\ Before(in.file, ProbeLen) = BeginLine)
      BY <2>4, <3>1, <3>2, BytesNotBegun
    <3>4. InputIs
      BY <2>3, <2>7, <3>3 DEF InputIs
    <3> QED
      BY <1>1, <1>3, <3>4, FirstReadContent DEF IbufInit, Fresh, Caller
  <2>8. CASE kind = "armored"
    <3>1. in.file = A
      BY <2>3, <2>8 DEF InputText
    <3>2. InputIs
      BY <2>3, <2>6, <2>8, <3>1 DEF InputIs
    <3> QED
      BY <1>1, <1>3, <3>2, FirstReadContent DEF IbufInit, Fresh, Caller
  <2>9. CASE kind = "damaged"
    <3>1. cut \in ProbeLen..Len(A)
      BY <2>9
    <3>2. FileIs(in.file, n) /\ in.file # A
      <4>1. CASE cut < Len(A)
        <5>1. in.file = Before(A, cut)
          BY <2>3, <2>9, <4>1 DEF InputText, Before
        <5> HIDE DEF A
        <5>2. cut \in 0..Len(A)
          BY <2>5, <3>1
        <5>3. /\ in.file \in Seq(Char) /\ Len(in.file) = cut
              /\ \A j \in 1..cut : in.file[j] = A[j]
          BY <2>5, <5>1, <5>2, Cut
        <5>4. ProbeLen <= Len(in.file) /\ Len(in.file) <= Len(A)
          BY <2>5, <3>1, <5>3
        <5>5. FileIs(in.file, n)
          BY <2>4, <5>3, <5>4, CutArmor DEF A
        <5>6. in.file # A
          BY <2>5, <4>1, <5>3
        <5> QED
          BY <5>5, <5>6
      <4>2. CASE ~(cut < Len(A))
        <5>1. in.file = Append(A, NL)
          BY <2>3, <2>9, <4>2 DEF InputText
        <5> QED
          BY <2>6, <5>1
      <4> QED
        BY <4>1, <4>2
    <3>3. InputIs
      BY <2>3, <2>9, <3>2 DEF InputIs
    <3> QED
      BY <1>1, <1>3, <3>3, FirstReadContent DEF IbufInit, Fresh, Caller
  <2> QED
    BY <2>7, <2>8, <2>9
<1>2. CASE NoReader
  <2>1. in.kind = "plain" /\ in.file = <<>> /\ b.isarmor = "unchecked" /\ cl.phase = "waiting"
    BY <1>2 DEF NoReader, Fresh, Caller
  <2>2. ~(ProbeLen <= Len(in.file))
    BY <2>1, NullLen, Lengths
  <2>3. InputIs
    BY <2>1, <2>2 DEF InputIs
  <2> QED
    BY <1>3, <2>1, <2>3, FirstReadContent
<1> QED
  BY <1>1, <1>2

LEMMA OpenTextContent == ASSUME ReaderInv, ObufInv, ContentInv, OpenText PROVE ContentInv'
<1> DEFINE m == wr.given
           A == Armored(m)
<1>1. /\ wr.phase = "stop" /\ cl.phase = "waiting" /\ cl' = [cl EXCEPT !.phase = "header"] /\ b' = b
  BY DEF OpenText
<1>2. PICK more \in IF isarmor THEN BOOLEAN ELSE {FALSE} :
         in' = [kind |-> IF ~isarmor \/ Len(fd) < ProbeLen THEN "plain"
                         ELSE IF fd = Armored(wr.given) /\ ~more THEN "armored"
                         ELSE "damaged",
                n |-> wr.given, mode |-> "decrypt",
                file |-> IF more THEN Append(fd, NL) ELSE fd]
  BY DEF OpenText
<1>3. /\ isarmor \in BOOLEAN /\ fd \in Seq(Char) /\ m \in Nat /\ Len(fd) \in Nat
      /\ ProbeLen \in Nat \ {0} /\ NL \in Char
  BY LenProperties, Lengths, NewlineIs DEF ObufInv, ObufTypes
<1>4. IsPrefix(fd, Output(m))
  BY <1>1 DEF ObufInv, Busy, Over
<1>5. b'.isarmor = "unchecked"
  <2>1. ~Running /\ AtRest
    BY <1>1 DEF ReaderInv, Serving, Called, Running, IbufTypes, Operations
  <2> QED
    BY <1>1, <2>1 DEF AtRest
<1>6. cl'.phase # "stop" /\ ~Stale'
  <2>1. ~Stale
    BY <1>1, <1>5 DEF ReaderInv, Bounds, Filled
  <2> QED
    BY <1>1, <2>1 DEF ReaderInv, IbufTypes, Callers, Stale
<1> DEFINE f == IF more THEN Append(fd, NL) ELSE fd
<1>7. in'.n = m /\ in'.file = f
  BY <1>2
<1>8. in'.kind = "plain" <=> ~isarmor \/ Len(fd) < ProbeLen
  BY <1>2
<1>9. in'.kind = "armored" <=> isarmor /\ ~(Len(fd) < ProbeLen) /\ fd = A /\ ~more
  BY <1>2
<1>10. more => isarmor
  BY <1>2
<1>11. /\ Append(fd, NL) \in Seq(Char) /\ Len(Append(fd, NL)) = Len(fd) + 1
       /\ Append(fd, NL)[Len(fd) + 1] = NL
  BY <1>3, AppendProperties
<1>12. CASE ~isarmor
  <2>1. f = fd
    BY <1>10, <1>12
  <2>2. Bytes(m) \in Seq(Char) /\ Len(Bytes(m)) = m /\ IsPrefix(fd, Bytes(m))
    BY <1>3, <1>4, <1>12, BytesIs DEF Output
  <2>3. Len(fd) <= Len(Bytes(m)) /\ \A j \in 1..Len(fd) : fd[j] = Bytes(m)[j]
    BY <1>3, <2>2, PrefixIs
  <2>4. ~(ProbeLen <= Len(fd) /\ Before(fd, ProbeLen) = BeginLine)
    BY <1>3, <2>2, <2>3, BytesNotBegun
  <2>5. InputIs'
    <3>1. in'.kind = "plain" /\ in'.file = fd
      BY <1>7, <1>8, <1>12, <2>1
    <3> QED
      BY <2>4, <3>1 DEF InputIs, Before
  <2> QED
    BY <1>5, <1>6, <2>5 DEF ContentInv, PlainInv, ArmorInv
<1>13. CASE isarmor
  <2>1. A \in Seq(Char) /\ Len(A) \in Nat /\ IsPrefix(fd, A)
    BY <1>3, <1>4, <1>13, SentIs, LenProperties DEF Output
  <2>2. Len(fd) <= Len(A) /\ \A j \in 1..Len(fd) : fd[j] = A[j]
    <3> HIDE DEF A
    <3> QED
      BY <1>3, <2>1, PrefixIs
  <2>3. CASE Len(fd) < ProbeLen
    <3>1. ~(ProbeLen <= Len(f) /\ Before(f, ProbeLen) = BeginLine)
      <4>1. CASE more
        <5> DEFINE t == Append(fd, NL)
        <5>1. t \in Seq(Char) /\ Len(t) = Len(fd) + 1 /\ t[Len(fd) + 1] = NL /\ f = t
          BY <1>11, <4>1
        <5> HIDE DEF t, f
        <5>2. ProbeLen <= Len(t) => ProbeLen = Len(fd) + 1
          BY <1>3, <2>3, <5>1
        <5>3. ProbeLen <= Len(t) => t[ProbeLen] # <<"begin", ProbeLen>>
          BY <5>1, <5>2 DEF NL
        <5>4. ProbeLen \in 1..ProbeLen
          BY <1>3
        <5> QED
          BY <5>1, <5>3, <5>4, NotBegun
      <4>2. CASE ~more
        BY <1>3, <2>3, <4>2
      <4> QED
        BY <4>1, <4>2
    <3>2. InputIs'
      <4>1. in'.kind = "plain" /\ in'.file = f
        BY <1>7, <1>8, <2>3
      <4> HIDE DEF f
      <4> QED
        BY <3>1, <4>1 DEF InputIs, Before
    <3> QED
      BY <1>5, <1>6, <3>2 DEF ContentInv, PlainInv, ArmorInv
  <2>4. CASE ~(Len(fd) < ProbeLen)
    <3>1. /\ FileIs(fd, m) /\ FileIs(Append(fd, NL), m) /\ Append(fd, NL) # A
      <4>1. ProbeLen <= Len(fd) /\ Len(fd) <= Len(Armored(m)) /\ \A j \in 1..Len(fd) : fd[j] = Armored(m)[j]
        BY <1>3, <2>2, <2>4
      <4> HIDE DEF m
      <4> QED
        BY <1>3, <4>1, CutArmor
    <3>2. FileIs(f, m) /\ (f = A <=> fd = A /\ ~more)
      <4>1. CASE more
        BY <3>1, <4>1
      <4>2. CASE ~more
        BY <3>1, <4>2
      <4> QED
        BY <4>1, <4>2
    <3>3. in'.kind # "plain" /\ (in'.kind = "armored" <=> f = A)
      BY <1>8, <1>9, <1>13, <2>4, <3>2
    <3>4. FileIs(in.file, in.n)' /\ (in'.kind = "armored" <=> in'.file = Armored(in'.n))
      <4> HIDE DEF f, A
      <4>1. FileIs(in.file, in.n)' = FileIs(f, m)
        BY <1>7 DEF FileIs
      <4> QED
        BY <1>7, <3>2, <3>3, <4>1 DEF A
    <3>5. InputIs'
      BY <3>3, <3>4 DEF InputIs
    <3> QED
      BY <1>5, <1>6, <3>5 DEF ContentInv, PlainInv, ArmorInv
  <2> QED
    BY <2>3, <2>4
<1> QED
  BY <1>3, <1>12, <1>13

LEMMA ContentStays == ASSUME ContentInv, UNCHANGED ibufvars PROVE ContentInv'
<1>1. UNCHANGED <<in, fpos, b, buf, abuf, rec, op, got, cl>>
  BY DEF ibufvars
<1>2. InputIs' <=> InputIs
  BY <1>1 DEF InputIs, FileIs, Before
<1>3. Flow' = Flow
  BY <1>1 DEF Flow, Given, Ahead, Pending, Cat, After
<1>4. PlainInv' <=> PlainInv
  BY <1>1, <1>3 DEF PlainInv, Before
<1>5. Pos' = Pos /\ BlockLen' = BlockLen /\ (Straddles(in.n)' <=> Straddles(in.n))
  BY <1>1 DEF Pos, BlockLen, Straddles, TextLen
<1>6. \A d : ReadTo(d)' <=> ReadTo(d)
  BY <1>1, <1>3, <1>5 DEF ReadTo, Cnt, Upto, Least, Bytes, W
<1>7. OnBlock' <=> OnBlock
  BY <1>1, <1>5 DEF OnBlock, TextLen
<1>8. (\E d \in 0..in.n : ReadTo(d))' <=> (\E d \in 0..in.n : ReadTo(d))
  BY <1>1, <1>6
<1>9. ArmorInv' <=> ArmorInv
  BY <1>1, <1>5, <1>7, <1>8 DEF ArmorInv
<1>10. Content' = Content /\ (LooksArmored' <=> LooksArmored)
  BY <1>1 DEF Content, LooksArmored, Bytes
<1>11. (InOrder' <=> InOrder) /\ (EndIsEnd' <=> EndIsEnd) /\ (ArmorRefusedForCause' <=> ArmorRefusedForCause)
  BY <1>1, <1>5, <1>10 DEF InOrder, IsPrefix, EndIsEnd, ArmorRefusedForCause, Stale
<1>12. Ended' <=> Ended
  BY <1>1, <1>10, <1>11 DEF Ended, Stale
<1>13. (Stale' <=> Stale) /\ (Refusable' <=> Refusable)
  BY <1>1, <1>5, <1>10 DEF Stale, Refusable
<1> QED
  BY <1>1, <1>2, <1>4, <1>9, <1>12, <1>13 DEF ContentInv

LEMMA ContentSteps ==
    ASSUME ReaderInv, ObufInv, ContentInv, [Next]_vars PROVE ContentInv'
<1>1. CASE ObufNext /\ UNCHANGED ibufvars
  BY <1>1, ContentStays
<1>2. CASE OpenText
  BY <1>2, OpenTextContent
<1>3. CASE IbufNext /\ UNCHANGED obufvars
  BY <1>3, BufferStepContent, CallerContent DEF IbufNext
<1>4. CASE Done \/ UNCHANGED vars
  <2>1. UNCHANGED ibufvars
    BY <1>4 DEF Done, vars, ibufvars
  <2> QED
    BY <2>1, ContentStays
<1> QED
  BY <1>1, <1>2, <1>3, <1>4 DEF Next

LEMMA ContentInvariance == Spec => []ContentInv
<1>1. Init => ContentInv
  BY ContentStart DEF Init
<1>2. ReaderInv /\ ObufInv /\ ContentInv /\ [Next]_vars => ContentInv'
  BY ContentSteps
<1> QED
  BY <1>1, <1>2, WriterInvariance, ReaderInvariance, PTL DEF Spec

\* bread hands out the content in order, without loss, repetition or bytes of the
\* armor, whatever the lengths of buffer, block and line, the short reads, the
\* peeks and the place where armored text was cut, until bpeek() drops a refusal
\* of the armor (bread, bpeek, aread).
THEOREM HandsOutInOrder == Spec => []InOrder
<1>1. ReaderInv /\ ContentInv => InOrder
  <2> SUFFICES ASSUME ReaderInv, ContentInv PROVE InOrder
    OBVIOUS
  <2>1. CASE cl.phase = "stop"
    BY <2>1 DEF ContentInv, Ended
  <2>2. CASE cl.phase # "stop"
    BY <2>2, InOrderNow DEF ContentInv, InOrder
  <2> QED
    BY <2>1, <2>2
<1> QED
  BY <1>1, ReaderInvariance, ContentInvariance, PTL

\* The end that ateof() reports is the end of the content, and of a text that is
\* whole: no cut or continued armor ends well (aread, endcheck, ateof).
THEOREM EndIsTheEnd == Spec => []EndIsEnd
<1>1. ReaderInv /\ ContentInv => EndIsEnd
  <2> SUFFICES ASSUME ReaderInv, ContentInv PROVE EndIsEnd
    OBVIOUS
  <2>1. CASE cl.phase = "stop"
    BY <2>1 DEF ContentInv, Ended
  <2>2. CASE cl.phase # "stop"
    <3>1. cl.outcome = "none"
      BY <2>2 DEF ReaderInv, Bounds
    <3> QED
      BY <3>1 DEF EndIsEnd
  <2> QED
    BY <2>1, <2>2
<1> QED
  BY <1>1, ReaderInvariance, ContentInvariance, PTL

LEMMA RefusedNow == ASSUME ReaderInv, ContentInv PROVE ArmorRefusedForCause
<1>1. CASE cl.phase = "stop"
  BY <1>1 DEF ContentInv, Ended
<1>2. CASE cl.phase # "stop"
  <2>1. cl.outcome = "none"
    BY <1>2 DEF ReaderInv, Bounds
  <2> QED
    BY <2>1 DEF ArmorRefusedForCause, ContentInv, Refusable
<1> QED
  BY <1>1, <1>2

\* Armored text is refused only when it is damaged or its END line straddles two
\* blocks; in particular every block of an intact text decodes, and bpeek() drops
\* no refusal of it, so that the buffer is not read past its end either
\* (base64decode, endcheck in aread; bpeek).
THEOREM RefusedForCause == Spec => []ArmorRefusedForCause
<1>1. ReaderInv /\ ContentInv => ArmorRefusedForCause
  BY RefusedNow
<1> QED
  BY <1>1, ReaderInvariance, ContentInvariance, PTL

-----------------------------------------------------------------------------
(* Both ends: how the reader's input comes from the writer's text.         *)

\* The armor of a call that failed lacks its end.
FailsShort == wr.outcome = "failed" /\ isarmor => fd # Armored(wr.given)

\* What OpenText has made of the text.
OpenedAs ==
    /\ in.mode = "decrypt" /\ in.n = wr.given
    /\ in.kind = "plain" => IF isarmor THEN Len(in.file) <= ProbeLen /\ Len(fd) < ProbeLen
                            ELSE in.file = fd
    /\ in.kind = "armored" => isarmor /\ fd = Armored(wr.given)

Passed ==
    /\ wr.phase # "gone" => cl.phase = "waiting"
    /\ wr.phase = "gone" => left = <<>> /\ pend = <<>>
    /\ FailsShort
    /\ Written => OpenedAs

\* A write fails before the text is complete.
LEMMA WriteFailsShort == ASSUME ObufInv, WriteFails, isarmor PROVE fd # Armored(wr.given)
<1>1. pend # <<>>
  BY DEF WriteFails
<1>2. ObufTypes /\ Busy
  BY <1>1 DEF ObufInv, Over
<1> DEFINE A == Armored(wr.given)
           z == FlattenSeq(pend)
<1>3. PICK u \in Seq(Char) : Way \o u = Output(wr.given)
  BY <1>2, Continues
<1>4. (fd \o z) \o u = A
  BY <1>3 DEF Way, Output
<1>5. PICK x, y \in Seq(Char) : Queue(pend, x, y)
  BY <1>2 DEF ObufTypes
<1>6. z \in Seq(Char) /\ Leads(pend, z)
  <2>1. z = x \o y /\ x \o y \in Seq(Char) /\ (pend # <<>> => Leads(pend, x \o y))
    BY <1>5, QueueIs
  <2> HIDE DEF z
  <2> QED
    BY <1>1, <2>1
<1>7. PICK h, t \in Seq(Char) : h # <<>> /\ z = h \o t
  BY <1>6 DEF Leads
<1>8. fd \in Seq(Char)
  BY <1>2 DEF ObufTypes
<1> HIDE DEF A, z
<1>9. Len(h) \in Nat /\ Len(h) # 0 /\ Len(t) \in Nat /\ Len(u) \in Nat /\ Len(fd) \in Nat
  BY <1>7, <1>8, LenProperties, EmptySeq
<1>10. Len(z) = Len(h) + Len(t)
  BY <1>7, ConcatProperties
<1>11. fd \o z \in Seq(Char) /\ Len(fd \o z) = Len(fd) + Len(z)
  BY <1>6, <1>8, ConcatProperties
<1>12. Len(A) = Len(fd \o z) + Len(u)
  BY <1>4, <1>11, ConcatProperties
<1>13. Len(A) # Len(fd)
  BY ONLY <1>9, <1>10, <1>11, <1>12
<1> QED
  BY <1>13 DEF A

\* The caller gives up before the END line.
LEMMA AbandonShort == ASSUME ObufInv, Abandon, isarmor PROVE fd # Armored(wr.given)
<1>1. wr.phase = "body" /\ pend = <<>>
  BY DEF Abandon, WriterAt, Returned
<1>2. ObufTypes /\ Busy
  BY <1>1, PhaseNone DEF ObufInv
<1> DEFINE g == wr.given
<1>3. PICK m, p \in Nat : Split(m, p)
  BY <1>2 DEF Busy
<1>4. g \in Nat /\ fd \in Seq(Char) /\ Way = fd
  BY <1>1, <1>2, WayTypes DEF ObufTypes
<1>5. m <= p /\ p <= g /\ WayIs(m)
  BY <1>3 DEF Split
<1>6. m <= g
  BY <1>3, <1>4, <1>5
<1>7. fd = Sent(m) /\ \E q \in Nat : m = q * LineLen
  BY <1>1, <1>4, <1>5 DEF WayIs
<1> DEFINE e == Encode(Run(m, g))
           s == Sent(g)
<1>8. e \in Seq(Char) /\ fd \o e = s
  BY <1>3, <1>4, <1>6, <1>7, Grows
<1>9. s \in Seq(Char) /\ Armored(g) = s \o EndLine
  BY <1>4, SentIs
<1>10. EndLine \in Seq(Char) /\ Len(EndLine) = EndLen /\ EndLen \in Nat \ {0}
  BY Lines, Lengths
<1> HIDE DEF e, s, g
<1>11. Len(s) = Len(fd) + Len(e) /\ Len(fd) \in Nat /\ Len(e) \in Nat
  BY <1>4, <1>8, ConcatProperties, LenProperties
<1>12. Len(s \o EndLine) = Len(s) + EndLen
  BY <1>9, <1>10, ConcatProperties
<1>13. Len(Armored(g)) # Len(fd)
  BY <1>9, <1>10, <1>11, <1>12
<1> QED
  BY <1>13 DEF g

LEMMA WriterPasses ==
    ASSUME ObufInv, Passed, ObufNext, UNCHANGED ibufvars PROVE Passed'
<1>1. cl' = cl /\ in' = in
  BY DEF ibufvars
<1>2. wr.phase \notin {"gone", "stop"}
  <2>1. ASSUME wr.phase \in {"gone", "stop"} PROVE left = <<>> /\ pend = <<>>
    BY <2>1 DEF Passed, ObufInv, Busy, Over
  <2>2. left # <<>> \/ pend # <<>> \/ wr.phase \in {"first", "body", "last", "return"}
    BY DEF ObufNext, ArmorFirst, Give, Abandon, Flush, ArmorLast, Return, Bwrite, Awrite, WriteSome,
           WriteFails, WriterAt
  <2> QED
    BY <2>1, <2>2
<1>3. ObufTypes /\ wr.outcome = "none"
  BY <1>2, PhaseNone DEF ObufInv
<1>4. wr \in [phase : Phases, given : Nat, calls : 0..MaxPieces, outcome : {"none", "ok", "failed"}]
  BY <1>3 DEF ObufTypes
<1>5. cl.phase = "waiting"
  BY <1>2 DEF Passed
<1>6. isarmor' = isarmor
  BY DEF ObufNext, ArmorFirst, Give, Abandon, Flush, ArmorLast, Return, Bwrite, Awrite, WriteSome, WriteFails
<1> SUFFICES wr'.phase # "gone" /\ FailsShort'
  BY <1>1, <1>5 DEF Passed, Written
<1>7. CASE Abandon \/ WriteFails
  <2>1. fd' = fd /\ wr' = [wr EXCEPT !.phase = "stop", !.outcome = "failed"]
    BY <1>7 DEF Abandon, WriteFails, WriterStop
  <2>2. wr'.phase = "stop" /\ wr'.given = wr.given
    BY <1>4, <2>1
  <2>3. isarmor => fd # Armored(wr.given)
    BY <1>7, AbandonShort, WriteFailsShort
  <2> QED
    BY <1>6, <2>1, <2>2, <2>3 DEF FailsShort, Armored
<1>8. CASE Return
  BY <1>4, <1>8 DEF Return, WriterStop, FailsShort
<1>9. CASE ArmorFirst \/ Flush \/ ArmorLast
  BY <1>3, <1>4, <1>9 DEF ArmorFirst, Flush, ArmorLast, WriterGoto, FailsShort
<1>10. CASE Give
  <2>1. PICK n \in PieceLens : wr' = [wr EXCEPT !.given = @ + n, !.calls = @ - 1]
    BY <1>10 DEF Give
  <2>2. wr'.phase = wr.phase /\ wr'.outcome = wr.outcome
    BY <1>4, <2>1
  <2> QED
    BY <1>2, <1>3, <2>2 DEF FailsShort
<1>11. CASE Bwrite \/ Awrite \/ WriteSome
  <2>1. wr' = wr
    BY <1>11 DEF Bwrite, Awrite, WriteSome
  <2> QED
    BY <1>2, <1>3, <2>1 DEF FailsShort
<1> QED
  BY <1>7, <1>8, <1>9, <1>10, <1>11 DEF ObufNext

LEMMA OpenTextPasses == ASSUME ReaderInv, ObufInv, Passed, OpenText PROVE Passed'
<1>1. /\ wr.phase = "stop" /\ wr' = [wr EXCEPT !.phase = "gone", !.calls = 0]
      /\ left' = <<>> /\ pend' = <<>> /\ isarmor' = isarmor /\ fd' = fd
  BY DEF OpenText
<1>2. PICK more \in IF isarmor THEN BOOLEAN ELSE {FALSE} :
         in' = [kind |-> IF ~isarmor \/ Len(fd) < ProbeLen THEN "plain"
                         ELSE IF fd = Armored(wr.given) /\ ~more THEN "armored"
                         ELSE "damaged",
                n |-> wr.given, mode |-> "decrypt",
                file |-> IF more THEN Append(fd, NL) ELSE fd]
  BY DEF OpenText
<1>3. /\ isarmor \in BOOLEAN /\ fd \in Seq(Char)
      /\ wr \in [phase : Phases, given : Nat, calls : 0..MaxPieces, outcome : {"none", "ok", "failed"}]
  BY DEF ObufInv, ObufTypes
<1>4. wr'.phase = "gone" /\ wr'.given = wr.given /\ wr'.outcome = wr.outcome
  BY <1>1, <1>3
<1>5. FailsShort'
  BY <1>1, <1>4 DEF Passed, FailsShort, Armored
<1>6. in'.mode = "decrypt" /\ in'.n = wr.given
  BY <1>2
<1>7. in'.kind = "armored" => isarmor /\ fd = Armored(wr.given)
  BY <1>2
<1>8. in'.kind = "plain" => ~isarmor \/ Len(fd) < ProbeLen
  BY <1>2
<1>9. ~isarmor => in'.file = fd
  BY <1>2
<1>10. Len(fd) < ProbeLen => Len(in'.file) <= ProbeLen
  <2>1. /\ Len(fd) \in Nat /\ ProbeLen \in Nat /\ Len(Append(fd, NL)) = Len(fd) + 1
    BY <1>3, LenProperties, AppendProperties, NewlineIs, Lengths
  <2>2. in'.file = fd \/ in'.file = Append(fd, NL)
    BY <1>2
  <2> QED
    BY <2>1, <2>2
<1>11. OpenedAs'
  BY <1>1, <1>4, <1>6, <1>7, <1>8, <1>9, <1>10 DEF OpenedAs, Armored
<1> QED
  BY <1>1, <1>4, <1>5, <1>11 DEF Passed

LEMMA ReaderPasses ==
    ASSUME ReaderInv, Passed, IbufNext, UNCHANGED obufvars PROVE Passed'
<1>1. isarmor' = isarmor /\ left' = left /\ pend' = pend /\ fd' = fd /\ wr' = wr
  BY DEF obufvars
<1>2. cl.phase # "waiting"
  <2>1. CASE Running
    BY <2>1 DEF ReaderInv, Serving, Called, Running, IbufTypes, Operations
  <2>2. CASE CallerStep
    BY <2>2 DEF CallerStep, HeaderRead, HeaderPeek, ReadPeeked, PeekedRead, HeaderEnds, RecStop, GetMac, CheckMac,
                GetNonce, NonceRead, ReadChunk, AtEof, MoreChunks, LastChunk, InHeader, At
  <2>3. BufferStep => Running
    BY DEF BufferStep, Probe, Recycle, Fill, FillEnd, AtEnd, Copy, Peek, AreadBegin, AreadEnd, AreadBlock,
           AreadCopy, ReadFails, Checked, Empty, ReaderInv, Bounds
  <2> QED
    BY <2>1, <2>2, <2>3 DEF IbufNext
<1>3. wr.phase = "gone"
  BY <1>2 DEF Passed
<1>4. in' = in
  BY DEF IbufNext, BufferStep, Probe, Recycle, Fill, FillEnd, AtEnd, Copy, Peek, AreadBegin, AreadEnd, AreadBlock,
         AreadCopy, ReadFails, CallerStep, HeaderRead, HeaderPeek, ReadPeeked, PeekedRead, HeaderEnds, RecStop,
         GetMac, CheckMac, GetNonce, NonceRead, ReadChunk, AtEof, MoreChunks, LastChunk, Call
<1>5. FailsShort' <=> FailsShort
  BY <1>1 DEF FailsShort, Armored
<1>6. (Written' <=> Written) /\ (OpenedAs' <=> OpenedAs)
  BY <1>1, <1>4 DEF Written, OpenedAs, Armored
<1> QED
  BY <1>1, <1>3, <1>5, <1>6 DEF Passed

LEMMA PassedInvariance == Spec => []Passed
<1>1. Init => Passed
  <2>1. ASSUME ObufInit, NoReader PROVE Passed
    <3>1. wr.phase = "first" /\ wr.outcome = "none"
      BY <2>1 DEF ObufInit
    <3>2. cl.phase = "waiting"
      BY <2>1 DEF NoReader, Caller
    <3> QED
      BY <3>1, <3>2 DEF Passed, FailsShort, Written
  <2>2. ASSUME NoWriter PROVE Passed
    BY <2>2 DEF NoWriter, WriterGone, Passed, FailsShort, Written
  <2> QED
    BY <2>1, <2>2 DEF Init
<1>2. ReaderInv /\ ObufInv /\ Passed /\ [Next]_vars => Passed'
  <2> SUFFICES ASSUME ReaderInv, ObufInv, Passed, [Next]_vars PROVE Passed'
    OBVIOUS
  <2>1. CASE ObufNext /\ UNCHANGED ibufvars
    BY <2>1, WriterPasses
  <2>2. CASE OpenText
    BY <2>2, OpenTextPasses
  <2>3. CASE IbufNext /\ UNCHANGED obufvars
    BY <2>3, ReaderPasses
  <2>4. CASE Done \/ UNCHANGED vars
    <3>1. UNCHANGED <<in, cl, isarmor, left, pend, fd, wr>>
      BY <2>4 DEF Done, vars
    <3> QED
      BY <3>1 DEF Passed, FailsShort, Written, OpenedAs, Armored
  <2> QED
    BY <2>1, <2>2, <2>3, <2>4 DEF Next
<1> QED
  BY <1>1, <1>2, WriterInvariance, ReaderInvariance, PTL DEF Spec

\* What was written after a reported success comes back whole, and armor whose
\* writing failed is never read to a good end, for any sizes, short reads and
\* writes, and wherever the write stopped (writebody, bflush; aread, endcheck).
THEOREM ReadsBackWhatWasWritten == Spec => []ReadsBack
<1>1. ReaderInv /\ ObufInv /\ ContentInv /\ Passed => ReadsBack
  <2> SUFFICES ASSUME ReaderInv, ObufInv, ContentInv, Passed, Written PROVE ReadsBack
    BY DEF ReadsBack
  <2>1. OpenedAs /\ FailsShort /\ ArmorRefusedForCause /\ (cl.outcome # "none" => Ended)
    BY RefusedNow DEF ReaderInv, Bounds, ContentInv, Passed
  <2>2. in.mode = "decrypt" /\ in.n = wr.given /\ ~LooksArmored
    BY <2>1 DEF OpenedAs, LooksArmored
  <2>3. /\ isarmor \in BOOLEAN /\ wr.given \in Nat /\ wr.outcome \in {"ok", "failed"}
        /\ wr.outcome = "ok" => fd = Output(wr.given)
    BY DEF ObufInv, ObufTypes, Over, Written
  <2>4. in.kind \in {"plain", "armored", "damaged"} /\ cl.hdr \in HeaderEnd /\ got \in Seq(Char)
    BY DEF ReaderInv, IbufTypes, Inputs, Callers
  <2>5. Len(got) \in Nat /\ cl.hdr \in Nat /\ ProbeLen \in Nat /\ ProbeLen < cl.hdr
    BY <2>4, LenProperties, Lengths DEF HeaderEnd
  <2>6. cl.outcome = "ok" => got = Content /\ in.kind # "damaged" /\ cl.hdr <= Len(got)
    BY <2>1, <2>2 DEF Ended, EndIsEnd
  <2>7. cl.outcome = "badheader" /\ ~Stale => got = Content /\ Len(got) < cl.hdr + MacLen + NonceLen
    BY <2>1, <2>2 DEF Ended
  <2>8. in.kind = "plain" => Content = in.file
    BY DEF Content
  <2>9. in.kind # "plain" => Content = Bytes(wr.given)
    BY <2>2 DEF Content
  <2>10. in.kind = "plain" /\ ~isarmor /\ wr.outcome = "ok" => Content = Bytes(wr.given)
    BY <2>1, <2>3, <2>8 DEF OpenedAs, Output
  <2>11. in.kind = "plain" /\ isarmor => Len(in.file) <= ProbeLen /\ Len(fd) < ProbeLen
    BY <2>1 DEF OpenedAs
  <2>12. ~(in.kind = "plain" /\ isarmor /\ wr.outcome = "ok")
    <3>1. /\ Len(Armored(wr.given)) = (ProbeLen + TextLen(wr.given)) + EndLen
          /\ TextLen(wr.given) \in Nat /\ EndLen \in Nat
      BY <2>3, ArmoredIs, Lengths
    <3>2. ~(Len(Armored(wr.given)) < ProbeLen)
      BY <2>5, <3>1
    <3> QED
      BY <2>3, <2>11, <3>2 DEF Output
  <2>13. cl.outcome = "ok" /\ isarmor => wr.outcome = "ok"
    <3>1. ASSUME cl.outcome = "ok", in.kind = "plain", isarmor PROVE FALSE
      <4>1. Len(got) <= ProbeLen /\ cl.hdr <= Len(got)
        BY <2>6, <2>8, <2>11, <3>1
      <4> QED
        BY <2>5, <4>1
    <3>2. in.kind = "armored" => fd = Armored(wr.given)
      BY <2>1 DEF OpenedAs
    <3> QED
      BY <2>1, <2>3, <2>4, <2>6, <3>1, <3>2 DEF FailsShort
  <2>14. wr.outcome = "ok" => Content = Bytes(wr.given)
    BY <2>3, <2>9, <2>10, <2>12
  <2>15. cl.outcome = "ok" => (isarmor => wr.outcome = "ok") /\ (wr.outcome = "ok" => got = Bytes(wr.given))
    BY <2>6, <2>13, <2>14
  <2>16. wr.outcome = "ok" /\ (cl.outcome \in {"badarmor", "overread"} \/ Stale) =>
           Straddles(wr.given) \/ in.kind = "damaged"
    BY <2>1, <2>2 DEF ArmorRefusedForCause
  <2>17. wr.outcome = "ok" /\ cl.outcome = "badheader" => wr.given < cl.hdr + MacLen + NonceLen \/ Stale
    BY <2>3, <2>7, <2>14, BytesIs
  <2> QED
    BY <2>15, <2>16, <2>17 DEF ReadsBack
<1> QED
  BY <1>1, WriterInvariance, ReaderInvariance, ContentInvariance, PassedInvariance, PTL
=============================================================================
