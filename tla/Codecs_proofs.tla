---------------------------- MODULE Codecs_proofs ----------------------------
(***************************************************************************)
(* TLAPS proofs about base64.c: for data and texts of any length and lines *)
(* of any number of groups, what the encoder writes and what the decoder   *)
(* makes of any text.                                                      *)
(***************************************************************************)
EXTENDS Codecs, NatFacts, SequenceTheorems

-----------------------------------------------------------------------------
(* Lines: u full ones and r characters more, and the place of a character. *)

\* Symbols in u full lines, in a number of groups.
LEMMA InLines ==
    ASSUME NEW u \in Nat
    PROVE  /\ u * LineLen \in Nat /\ (u * LineLen) % 4 = 0
           /\ u * (LineLen + 1) = u * LineLen + u
<1>1. LineLen \in Nat \ {0} /\ LineLen % 4 = 0
  BY LineAssumption
<1>2. PICK l \in Nat : LineLen = 4 * l
  <2>1. LineLen = 4 * (LineLen \div 4) /\ LineLen \div 4 \in Nat
    BY <1>1
  <2> QED
    BY <2>1
<1>3. u * LineLen = 4 * (u * l) /\ u * l \in Nat
  BY <1>2
<1>4. \A k \in Nat : (4 * k) % 4 = 0 /\ 4 * k \in Nat
  OBVIOUS
<1>5. u * (LineLen + 1) = u * LineLen + u
  BY <1>1
<1> QED
  BY <1>3, <1>4, <1>5

\* Where character j of a text with lines is: in line u + 1, at its place r,
\* or, when r is 0, at the end of line u, whose symbols with those before are b.
Where(j, u, r, b) ==
    /\ u \in Nat /\ r \in 0..LineLen /\ b = u * LineLen
    /\ b \in Nat /\ b % 4 = 0 /\ (u = 0 => b = 0)
    /\ j = b + u + r
    /\ j \div (LineLen + 1) = u /\ j % (LineLen + 1) = r
    /\ LineEnd(j) <=> r = 0

LEMMA WhereIs ==
    ASSUME NEW u \in Nat, NEW r \in 0..LineLen
    PROVE  Where(u * LineLen + u + r, u, r, u * LineLen)
<1> DEFINE W == LineLen + 1
           j == u * LineLen + u + r
<1>1. LineLen \in Nat \ {0} /\ W \in Nat \ {0} /\ r \in Nat /\ r < W
  BY LineAssumption
<1>2. u * LineLen \in Nat /\ (u * LineLen) % 4 = 0 /\ u * W = u * LineLen + u
  BY InLines
<1>3. j = u * W + r /\ j \in Nat
  BY <1>1, <1>2
<1>4. j \div W = u /\ j % W = r
  <2> HIDE DEF W, j
  <2> QED
    BY ONLY <1>1, <1>3, u \in Nat, QuotientIs
<1>5. u = 0 => u * LineLen = 0
  BY <1>1
<1> QED
  BY <1>1, <1>2, <1>3, <1>4, <1>5 DEF Where, LineEnd

LEMMA WhereExists ==
    ASSUME NEW j \in Nat
    PROVE  \E u, r, b : Where(j, u, r, b)
<1> DEFINE W == LineLen + 1
           u == j \div W
           r == j - u * W
<1>1. LineLen \in Nat \ {0} /\ W \in Nat \ {0}
  BY LineAssumption
<1>2. u \in Nat /\ u * W <= j /\ j < u * W + W
  <2> HIDE DEF W
  <2> QED
    BY <1>1, Quotient
<1> HIDE DEF u
<1>3. u * LineLen \in Nat /\ u * W = u * LineLen + u
  BY <1>2, InLines
<1>4. r \in 0..LineLen /\ j = u * LineLen + u + r
  BY <1>1, <1>2, <1>3
<1>5. Where(j, u, r, u * LineLen)
  <2> HIDE DEF r
  <2> QED
    BY ONLY <1>2, <1>4, WhereIs
<1> QED
  BY <1>5

\* Of a text with lines (p = 1) or without: character j ends a line, the
\* symbols up to it, the place of symbol c.
Ends(j, p) == p = 1 /\ LineEnd(j)
Index(j, p) == IF p = 1 THEN j - j \div (LineLen + 1) ELSE j
Place(c, p) == IF p = 1 /\ c > 0 THEN c + (c - 1) \div LineLen ELSE c

LEMMA IndexIs ==
    ASSUME NEW j, NEW u, NEW r, NEW b, Where(j, u, r, b), NEW p, p = 1
    PROVE  Index(j, p) = b + r /\ (Ends(j, p) <=> r = 0)
  BY DEF Where, Index, Ends

LEMMA IndexSteps ==
    ASSUME NEW j \in Nat, NEW p
    PROVE  /\ Index(j, p) \in Nat /\ Index(j, p) <= j /\ Index(0, p) = 0
           /\ Index(j + 1, p) = IF Ends(j + 1, p) THEN Index(j, p) ELSE Index(j, p) + 1
           /\ Ends(j, p) => Index(j, p) % 4 = 0 /\ ~Ends(j + 1, p)
<1>1. CASE p # 1
  BY <1>1 DEF Index, Ends
<1>2. CASE p = 1
  <2>1. PICK u, r, b : Where(j, u, r, b)
    BY WhereExists
  <2>2. /\ u \in Nat /\ r \in 0..LineLen /\ b = u * LineLen /\ b \in Nat /\ b % 4 = 0
        /\ j = b + u + r /\ LineLen \in Nat \ {0}
    BY <2>1, LineAssumption DEF Where
  <2>3. Index(j, p) = b + r /\ (Ends(j, p) <=> r = 0)
    BY <1>2, <2>1, IndexIs
  <2>4. Index(0, p) = 0
    <3>1. Where(0 * LineLen + 0 + 0, 0, 0, 0 * LineLen)
      BY <2>2, WhereIs
    <3>2. 0 * LineLen = 0
      BY <2>2
    <3>3. 0 * LineLen + 0 + 0 = 0
      BY <3>2
    <3> QED
      BY <1>2, <3>1, <3>2, <3>3, IndexIs
  <2>5. CASE r < LineLen
    <3>1. r + 1 \in 0..LineLen
      BY <2>2, <2>5
    <3>2. Where(b + u + (r + 1), u, r + 1, b)
      BY <2>2, <3>1, WhereIs
    <3>3. j + 1 = b + u + (r + 1)
      BY <2>2
    <3>4. Where(j + 1, u, r + 1, b)
      BY ONLY <3>2, <3>3
    <3>5. Index(j + 1, p) = b + (r + 1) /\ (Ends(j + 1, p) <=> r + 1 = 0)
      BY ONLY <1>2, <3>4, IndexIs
    <3> QED
      BY <1>2, <2>2, <2>3, <2>4, <2>5, <3>5
  <2>6. CASE r = LineLen
    <3> DEFINE v == u + 1
    <3>1. v \in Nat /\ v * LineLen = b + LineLen /\ 0 \in 0..LineLen
      BY <2>2
    <3>2. Where(v * LineLen + v + 0, v, 0, v * LineLen)
      <4> HIDE DEF v
      <4> QED
        BY <3>1, WhereIs
    <3>3. v * LineLen + v + 0 = j + 1
      BY <2>2, <2>6, <3>1
    <3>4. Index(j + 1, p) = v * LineLen + 0 /\ Ends(j + 1, p)
      <4> HIDE DEF v
      <4> QED
        BY <1>2, <3>2, <3>3, IndexIs
    <3>5. Index(j + 1, p) = b + LineLen
      BY <2>2, <3>1, <3>4
    <3> QED
      BY <1>2, <2>2, <2>3, <2>4, <2>6, <3>4, <3>5
  <2> QED
    BY <2>2, <2>5, <2>6
<1> QED
  BY <1>1, <1>2

\* A symbol's place, and the number of the symbol at a place.
LEMMA PlaceOfIndex ==
    ASSUME NEW j \in Nat \ {0}, NEW p, ~Ends(j, p)
    PROVE  Index(j, p) \in Nat \ {0} /\ Place(Index(j, p), p) = j
<1>1. CASE p # 1
  BY <1>1 DEF Index, Place
<1>2. CASE p = 1
  <2>1. PICK u, r, b : Where(j, u, r, b)
    BY WhereExists
  <2>2. /\ u \in Nat /\ r \in 0..LineLen /\ b = u * LineLen /\ b \in Nat
        /\ j = b + u + r /\ LineLen \in Nat \ {0}
    BY <2>1, LineAssumption DEF Where
  <2>3. Index(j, p) = b + r /\ r # 0
    BY <1>2, <2>1, IndexIs
  <2> DEFINE a == b + r - 1
             d == r - 1
  <2>4. a \in Nat /\ d \in Nat /\ d < LineLen /\ a = u * LineLen + d
    BY <2>2, <2>3
  <2>5. a \div LineLen = u
    <3> HIDE DEF a, d
    <3> QED
      BY ONLY <2>2, <2>4, QuotientIs
  <2>6. (b + r - 1) \div LineLen = u
    BY <2>5
  <2> QED
    BY <1>2, <2>2, <2>3, <2>6 DEF Place
<1> QED
  BY <1>1, <1>2

LEMMA IndexOfPlace ==
    ASSUME NEW c \in Nat \ {0}, NEW p
    PROVE  /\ Place(c, p) \in Nat \ {0} /\ Place(c, p) >= c
           /\ ~Ends(Place(c, p), p) /\ Index(Place(c, p), p) = c
<1>1. CASE p # 1
  BY <1>1 DEF Index, Place, Ends
<1>2. CASE p = 1
  <2> DEFINE a == c - 1
             u == a \div LineLen
             r == a - u * LineLen + 1
             b == u * LineLen
  <2>1. LineLen \in Nat \ {0} /\ a \in Nat
    BY LineAssumption
  <2>2. u \in Nat /\ u * LineLen <= a /\ a < u * LineLen + LineLen
    <3> HIDE DEF a
    <3> QED
      BY <2>1, Quotient
  <2>3. Place(c, p) = c + u
    BY <1>2 DEF Place
  <2> HIDE DEF u
  <2>4. b \in Nat
    BY <2>2, InLines
  <2>5. r \in 0..LineLen /\ r # 0 /\ c = b + r
    BY <2>1, <2>2, <2>4
  <2>6. Where(b + u + r, u, r, b)
    <3> HIDE DEF r
    <3> QED
      BY <2>2, <2>5, WhereIs
  <2>7. Place(c, p) = b + u + r
    <3> HIDE DEF b, r
    <3> QED
      BY <2>2, <2>3, <2>4, <2>5, <2>1
  <2>8. Index(Place(c, p), p) = c /\ ~Ends(Place(c, p), p)
    BY ONLY <1>2, <2>5, <2>6, <2>7, IndexIs
  <2> QED
    BY <1>2, <2>2, <2>3, <2>8
<1> QED
  BY <1>1, <1>2

\* After part of a group no line ends, and none begins.
LEMMA InGroup ==
    ASSUME NEW j \in Nat, NEW p, Index(j, p) % 4 # 0
    PROVE  /\ j # 0 /\ ~Ends(j, p) /\ ~Ends(j + 1, p)
           /\ Index(j + 1, p) = Index(j, p) + 1
<1>1. /\ Index(j, p) \in Nat /\ Index(0, p) = 0
      /\ Index(j + 1, p) = IF Ends(j + 1, p) THEN Index(j, p) ELSE Index(j, p) + 1
      /\ Ends(j, p) => Index(j, p) % 4 = 0
  BY IndexSteps
<1>2. Ends(j + 1, p) => Index(j + 1, p) % 4 = 0
  BY j + 1 \in Nat, IndexSteps
<1> QED
  BY <1>1, <1>2

\* There are no fewer symbols up to a later character.
LEMMA IndexGrows ==
    ASSUME NEW i \in Nat, NEW j \in Nat, i <= j, NEW p
    PROVE  Index(i, p) <= Index(j, p)
<1> DEFINE P == {d \in Nat : Index(i, p) <= Index(i + d, p)}
<1>1. 0 \in P
  BY IndexSteps
<1>2. ASSUME NEW d \in Nat, d \in P PROVE d + 1 \in P
  <2> DEFINE k == i + d
  <2>1. k \in Nat /\ i + (d + 1) = k + 1
    OBVIOUS
  <2>2. Index(i, p) <= Index(k, p)
    BY <1>2
  <2> HIDE DEF k
  <2>3. Index(k, p) \in Nat /\ Index(i, p) \in Nat /\
        Index(k + 1, p) = IF Ends(k + 1, p) THEN Index(k, p) ELSE Index(k, p) + 1
    BY <2>1, IndexSteps
  <2>4. Index(i, p) <= Index(i + (d + 1), p)
    BY <2>1, <2>2, <2>3
  <2> QED
    BY <2>4
<1>3. Nat \subseteq P
  <2> HIDE DEF P
  <2> QED
    BY <1>1, <1>2, NatInduct
<1>4. j - i \in Nat /\ i + (j - i) = j
  OBVIOUS
<1> QED
  BY <1>3, <1>4

\* The bits of a digit, one after the other.
ShiftedIs(g, s, w, v, q, n) ==
    g = [i \in 0..n |-> IF i = 0 THEN 0 ELSE 2 * g[i - 1] + Bit(s, w, (q - 1) * v + i - 1)]
ShiftedOf(s, w, v, q, n) == CHOOSE g : ShiftedIs(g, s, w, v, q, n)

LEMMA ShiftedExists ==
    ASSUME NEW s, NEW w, NEW v, NEW q, NEW n \in Nat
    PROVE  ShiftedIs(ShiftedOf(s, w, v, q, n), s, w, v, q, n)
<1> DEFINE P == {k \in Nat : \E g : ShiftedIs(g, s, w, v, q, k)}
<1>1. 0 \in P
  <2> DEFINE g == [i \in 0..0 |-> 0]
  <2>1. \A i \in 0..0 : i = 0
    OBVIOUS
  <2>2. ShiftedIs(g, s, w, v, q, 0)
    BY <2>1 DEF ShiftedIs
  <2> QED
    BY <2>2
<1>2. ASSUME NEW k \in Nat, k \in P PROVE k + 1 \in P
  <2>1. PICK g : ShiftedIs(g, s, w, v, q, k)
    BY <1>2
  <2> DEFINE m == k + 1
             last == IF m = 0 THEN 0 ELSE 2 * g[k] + Bit(s, w, (q - 1) * v + m - 1)
             e == [i \in 0..m |-> IF i = m THEN last ELSE g[i]]
  <2>2. m \in Nat /\ m - 1 = k
    OBVIOUS
  <2>3. \A i \in 0..m : e[i] = IF i = m THEN last ELSE g[i]
    OBVIOUS
  <2>4. e = [i \in 0..m |-> e[i]]
    OBVIOUS
  <2> HIDE DEF e, last
  <2>5. ASSUME NEW i \in 0..m
        PROVE  e[i] = IF i = 0 THEN 0 ELSE 2 * e[i - 1] + Bit(s, w, (q - 1) * v + i - 1)
    <3>1. CASE i = m
      <4>1. i # 0 => m # 0 /\ k \in 0..m /\ k # m
        BY <2>2, <3>1
      <4>2. i # 0 => e[k] = g[k]
        BY <2>3, <4>1
      <4>3. e[m] = last
        BY <2>3, <3>1
      <4> HIDE DEF m
      <4> QED
        BY <2>2, <3>1, <4>2, <4>3 DEF last
    <3>2. CASE i # m
      <4>1. i \in 0..k /\ (i # 0 => i - 1 \in 0..m /\ i - 1 # m)
        BY <2>2, <3>2
      <4>2. g[i] = IF i = 0 THEN 0 ELSE 2 * g[i - 1] + Bit(s, w, (q - 1) * v + i - 1)
        BY <2>1, <4>1 DEF ShiftedIs
      <4>3. i # 0 => e[i - 1] = g[i - 1]
        BY <2>3, <4>1
      <4>4. e[i] = g[i]
        BY <2>3, <3>2
      <4> QED
        BY <4>2, <4>3, <4>4
    <3> QED
      BY <3>1, <3>2
  <2>6. ShiftedIs(e, s, w, v, q, m)
    BY <2>4, <2>5 DEF ShiftedIs
  <2> QED
    BY <2>6
<1> HIDE DEF P
<1>3. Nat \subseteq P
  BY <1>1, <1>2, NatInduct
<1>4. \E g : ShiftedIs(g, s, w, v, q, n)
  BY <1>3 DEF P
<1> QED
  BY <1>4 DEF ShiftedOf

LEMMA DigitIs ==
    ASSUME NEW s, NEW w, NEW v \in Nat, NEW k
    PROVE  /\ ShiftedIs(ShiftedOf(s, w, v, k, v), s, w, v, k, v)
           /\ Digit(s, w, v, k) = ShiftedOf(s, w, v, k, v)[v]
<1>1. ShiftedIs(ShiftedOf(s, w, v, k, v), s, w, v, k, v)
  BY ShiftedExists
<1>2. Digit(s, w, v, k) = ShiftedOf(s, w, v, k, v)[v]
  BY DEF Digit, ShiftedOf, ShiftedIs
<1> QED
  BY <1>1, <1>2

SixBitsAre(s, w, k, b0, b1, b2, b3, b4, b5) ==
    /\ b0 \in Nat /\ b1 \in Nat /\ b2 \in Nat /\ b3 \in Nat /\ b4 \in Nat /\ b5 \in Nat
    /\ Bit(s, w, (k - 1) * 6 + 1 - 1) = b0
    /\ Bit(s, w, (k - 1) * 6 + 2 - 1) = b1
    /\ Bit(s, w, (k - 1) * 6 + 3 - 1) = b2
    /\ Bit(s, w, (k - 1) * 6 + 4 - 1) = b3
    /\ Bit(s, w, (k - 1) * 6 + 5 - 1) = b4
    /\ Bit(s, w, (k - 1) * 6 + 6 - 1) = b5

LEMMA SixBits ==
    ASSUME NEW s, NEW w, NEW k, NEW b0, NEW b1, NEW b2, NEW b3, NEW b4, NEW b5,
           SixBitsAre(s, w, k, b0, b1, b2, b3, b4, b5)
    PROVE  Digit(s, w, 6, k) = 32 * b0 + 16 * b1 + 8 * b2 + 4 * b3 + 2 * b4 + b5
<1>0. /\ b0 \in Nat /\ b1 \in Nat /\ b2 \in Nat /\ b3 \in Nat /\ b4 \in Nat /\ b5 \in Nat
      /\ Bit(s, w, (k - 1) * 6 + 1 - 1) = b0
      /\ Bit(s, w, (k - 1) * 6 + 2 - 1) = b1
      /\ Bit(s, w, (k - 1) * 6 + 3 - 1) = b2
      /\ Bit(s, w, (k - 1) * 6 + 4 - 1) = b3
      /\ Bit(s, w, (k - 1) * 6 + 5 - 1) = b4
      /\ Bit(s, w, (k - 1) * 6 + 6 - 1) = b5
  BY DEF SixBitsAre
<1> DEFINE u == ShiftedOf(s, w, 6, k, 6)
<1>1. ShiftedIs(u, s, w, 6, k, 6) /\ Digit(s, w, 6, k) = u[6]
  BY DigitIs
<1> HIDE DEF u
<1>2. \A i \in 0..6 : u[i] = IF i = 0 THEN 0 ELSE 2 * u[i - 1] + Bit(s, w, (k - 1) * 6 + i - 1)
  BY ONLY <1>1 DEF ShiftedIs
<1>3. u[0] = 0
  BY ONLY <1>2
<1>4. u[1] = b0
  <2>1. 1 \in 0..6 /\ 1 # 0 /\ 1 - 1 = 0
    OBVIOUS
  <2>2. u[1] = 2 * u[0] + Bit(s, w, (k - 1) * 6 + 1 - 1)
    BY ONLY <1>2, <2>1
  <2> QED
    BY <1>0, <1>3, <2>2
<1>5. u[2] = 2 * b0 + b1
  <2>1. 2 \in 0..6 /\ 2 # 0 /\ 2 - 1 = 1
    OBVIOUS
  <2>2. u[2] = 2 * u[1] + Bit(s, w, (k - 1) * 6 + 2 - 1)
    BY ONLY <1>2, <2>1
  <2> QED
    BY <1>0, <1>4, <2>2
<1>6. u[3] = 4 * b0 + 2 * b1 + b2
  <2>1. 3 \in 0..6 /\ 3 # 0 /\ 3 - 1 = 2
    OBVIOUS
  <2>2. u[3] = 2 * u[2] + Bit(s, w, (k - 1) * 6 + 3 - 1)
    BY ONLY <1>2, <2>1
  <2> QED
    BY <1>0, <1>5, <2>2
<1>7. u[4] = 8 * b0 + 4 * b1 + 2 * b2 + b3
  <2>1. 4 \in 0..6 /\ 4 # 0 /\ 4 - 1 = 3
    OBVIOUS
  <2>2. u[4] = 2 * u[3] + Bit(s, w, (k - 1) * 6 + 4 - 1)
    BY ONLY <1>2, <2>1
  <2> QED
    BY <1>0, <1>6, <2>2
<1>8. u[5] = 16 * b0 + 8 * b1 + 4 * b2 + 2 * b3 + b4
  <2>1. 5 \in 0..6 /\ 5 # 0 /\ 5 - 1 = 4
    OBVIOUS
  <2>2. u[5] = 2 * u[4] + Bit(s, w, (k - 1) * 6 + 5 - 1)
    BY ONLY <1>2, <2>1
  <2> QED
    BY <1>0, <1>7, <2>2
<1>9. u[6] = 32 * b0 + 16 * b1 + 8 * b2 + 4 * b3 + 2 * b4 + b5
  <2>1. 6 \in 0..6 /\ 6 # 0 /\ 6 - 1 = 5
    OBVIOUS
  <2>2. u[6] = 2 * u[5] + Bit(s, w, (k - 1) * 6 + 6 - 1)
    BY ONLY <1>2, <2>1
  <2> QED
    BY <1>0, <1>8, <2>2
<1> QED
  BY <1>1, <1>9

EightBitsAre(s, w, k, b0, b1, b2, b3, b4, b5, b6, b7) ==
    /\ b0 \in Nat /\ b1 \in Nat /\ b2 \in Nat /\ b3 \in Nat /\ b4 \in Nat /\ b5 \in Nat /\ b6 \in Nat /\ b7 \in Nat
    /\ Bit(s, w, (k - 1) * 8 + 1 - 1) = b0
    /\ Bit(s, w, (k - 1) * 8 + 2 - 1) = b1
    /\ Bit(s, w, (k - 1) * 8 + 3 - 1) = b2
    /\ Bit(s, w, (k - 1) * 8 + 4 - 1) = b3
    /\ Bit(s, w, (k - 1) * 8 + 5 - 1) = b4
    /\ Bit(s, w, (k - 1) * 8 + 6 - 1) = b5
    /\ Bit(s, w, (k - 1) * 8 + 7 - 1) = b6
    /\ Bit(s, w, (k - 1) * 8 + 8 - 1) = b7

LEMMA EightBits ==
    ASSUME NEW s, NEW w, NEW k, NEW b0, NEW b1, NEW b2, NEW b3, NEW b4, NEW b5, NEW b6, NEW b7,
           EightBitsAre(s, w, k, b0, b1, b2, b3, b4, b5, b6, b7)
    PROVE  Digit(s, w, 8, k) = 128 * b0 + 64 * b1 + 32 * b2 + 16 * b3 + 8 * b4 + 4 * b5 + 2 * b6 + b7
<1>0. /\ b0 \in Nat /\ b1 \in Nat /\ b2 \in Nat /\ b3 \in Nat /\ b4 \in Nat /\ b5 \in Nat /\ b6 \in Nat /\ b7 \in Nat
      /\ Bit(s, w, (k - 1) * 8 + 1 - 1) = b0
      /\ Bit(s, w, (k - 1) * 8 + 2 - 1) = b1
      /\ Bit(s, w, (k - 1) * 8 + 3 - 1) = b2
      /\ Bit(s, w, (k - 1) * 8 + 4 - 1) = b3
      /\ Bit(s, w, (k - 1) * 8 + 5 - 1) = b4
      /\ Bit(s, w, (k - 1) * 8 + 6 - 1) = b5
      /\ Bit(s, w, (k - 1) * 8 + 7 - 1) = b6
      /\ Bit(s, w, (k - 1) * 8 + 8 - 1) = b7
  BY DEF EightBitsAre
<1> DEFINE u == ShiftedOf(s, w, 8, k, 8)
<1>1. ShiftedIs(u, s, w, 8, k, 8) /\ Digit(s, w, 8, k) = u[8]
  BY DigitIs
<1> HIDE DEF u
<1>2. \A i \in 0..8 : u[i] = IF i = 0 THEN 0 ELSE 2 * u[i - 1] + Bit(s, w, (k - 1) * 8 + i - 1)
  BY ONLY <1>1 DEF ShiftedIs
<1>3. u[0] = 0
  BY ONLY <1>2
<1>4. u[1] = b0
  <2>1. 1 \in 0..8 /\ 1 # 0 /\ 1 - 1 = 0
    OBVIOUS
  <2>2. u[1] = 2 * u[0] + Bit(s, w, (k - 1) * 8 + 1 - 1)
    BY ONLY <1>2, <2>1
  <2> QED
    BY <1>0, <1>3, <2>2
<1>5. u[2] = 2 * b0 + b1
  <2>1. 2 \in 0..8 /\ 2 # 0 /\ 2 - 1 = 1
    OBVIOUS
  <2>2. u[2] = 2 * u[1] + Bit(s, w, (k - 1) * 8 + 2 - 1)
    BY ONLY <1>2, <2>1
  <2> QED
    BY <1>0, <1>4, <2>2
<1>6. u[3] = 4 * b0 + 2 * b1 + b2
  <2>1. 3 \in 0..8 /\ 3 # 0 /\ 3 - 1 = 2
    OBVIOUS
  <2>2. u[3] = 2 * u[2] + Bit(s, w, (k - 1) * 8 + 3 - 1)
    BY ONLY <1>2, <2>1
  <2> QED
    BY <1>0, <1>5, <2>2
<1>7. u[4] = 8 * b0 + 4 * b1 + 2 * b2 + b3
  <2>1. 4 \in 0..8 /\ 4 # 0 /\ 4 - 1 = 3
    OBVIOUS
  <2>2. u[4] = 2 * u[3] + Bit(s, w, (k - 1) * 8 + 4 - 1)
    BY ONLY <1>2, <2>1
  <2> QED
    BY <1>0, <1>6, <2>2
<1>8. u[5] = 16 * b0 + 8 * b1 + 4 * b2 + 2 * b3 + b4
  <2>1. 5 \in 0..8 /\ 5 # 0 /\ 5 - 1 = 4
    OBVIOUS
  <2>2. u[5] = 2 * u[4] + Bit(s, w, (k - 1) * 8 + 5 - 1)
    BY ONLY <1>2, <2>1
  <2> QED
    BY <1>0, <1>7, <2>2
<1>9. u[6] = 32 * b0 + 16 * b1 + 8 * b2 + 4 * b3 + 2 * b4 + b5
  <2>1. 6 \in 0..8 /\ 6 # 0 /\ 6 - 1 = 5
    OBVIOUS
  <2>2. u[6] = 2 * u[5] + Bit(s, w, (k - 1) * 8 + 6 - 1)
    BY ONLY <1>2, <2>1
  <2> QED
    BY <1>0, <1>8, <2>2
<1>10. u[7] = 64 * b0 + 32 * b1 + 16 * b2 + 8 * b3 + 4 * b4 + 2 * b5 + b6
  <2>1. 7 \in 0..8 /\ 7 # 0 /\ 7 - 1 = 6
    OBVIOUS
  <2>2. u[7] = 2 * u[6] + Bit(s, w, (k - 1) * 8 + 7 - 1)
    BY ONLY <1>2, <2>1
  <2> QED
    BY <1>0, <1>9, <2>2
<1>11. u[8] = 128 * b0 + 64 * b1 + 32 * b2 + 16 * b3 + 8 * b4 + 4 * b5 + 2 * b6 + b7
  <2>1. 8 \in 0..8 /\ 8 # 0 /\ 8 - 1 = 7
    OBVIOUS
  <2>2. u[8] = 2 * u[7] + Bit(s, w, (k - 1) * 8 + 8 - 1)
    BY ONLY <1>2, <2>1
  <2> QED
    BY <1>0, <1>10, <2>2
<1> QED
  BY <1>1, <1>11

\* The element after the first p, 0 when there is none.
ElementAt(s, p) == IF p < Len(s) THEN s[p + 1] ELSE 0

\* Bit i of s is in the element after the first p, where it counts q.
BitPlace(s, w, i, p, q) ==
    /\ 2^(w - 1 - (i % w)) = q /\ q \in Nat \ {0}
    /\ i \div w = p /\ p \in Nat /\ Len(s) \in Nat /\ (i >= w * Len(s) <=> p >= Len(s))

LEMMA BitAt ==
    ASSUME NEW s, NEW w, NEW i, NEW p, NEW q, BitPlace(s, w, i, p, q)
    PROVE  Bit(s, w, i) = (ElementAt(s, p) \div q) % 2
<1>1. /\ 2^(w - 1 - (i % w)) = q /\ q \in Nat \ {0}
      /\ i \div w = p /\ p \in Nat /\ Len(s) \in Nat /\ (i >= w * Len(s) <=> p >= Len(s))
  BY DEF BitPlace
<1>2. CASE p >= Len(s)
  <2>1. ElementAt(s, p) = 0 /\ Bit(s, w, i) = 0
    BY <1>1, <1>2 DEF Bit, ElementAt
  <2>2. (0 \div q) % 2 = 0
    BY <1>1
  <2> QED
    BY <2>1, <2>2
<1>3. CASE ~(p >= Len(s))
  <2>1. ElementAt(s, p) = s[p + 1]
    BY <1>1, <1>3 DEF ElementAt
  <2>2. Bit(s, w, i) = (s[i \div w + 1] \div 2^(w - 1 - (i % w))) % 2
    BY <1>1, <1>3 DEF Bit
  <2>3. s[i \div w + 1] = s[p + 1]
    BY <1>1
  <2> QED
    BY ONLY <1>1, <2>1, <2>2, <2>3
<1> QED
  BY <1>2, <1>3

LEMMA BitsOfByte ==
    ASSUME NEW S, S \subseteq Nat, NEW s \in Seq(S), NEW p \in Nat
    PROVE  /\ Bit(s, 8, 8 * p + 0) = (ElementAt(s, p) \div 128) % 2
           /\ Bit(s, 8, 8 * p + 1) = (ElementAt(s, p) \div 64) % 2
           /\ Bit(s, 8, 8 * p + 2) = (ElementAt(s, p) \div 32) % 2
           /\ Bit(s, 8, 8 * p + 3) = (ElementAt(s, p) \div 16) % 2
           /\ Bit(s, 8, 8 * p + 4) = (ElementAt(s, p) \div 8) % 2
           /\ Bit(s, 8, 8 * p + 5) = (ElementAt(s, p) \div 4) % 2
           /\ Bit(s, 8, 8 * p + 6) = (ElementAt(s, p) \div 2) % 2
           /\ Bit(s, 8, 8 * p + 7) = (ElementAt(s, p) \div 1) % 2
<1>1. Len(s) \in Nat
  OBVIOUS
<1>2. 2^0 = 1 /\ 2^1 = 2 /\ 2^2 = 4 /\ 2^3 = 8 /\ 2^4 = 16 /\ 2^5 = 32 /\ 2^6 = 64 /\ 2^7 = 128
  OBVIOUS
<1>3. Bit(s, 8, 8 * p + 0) = (ElementAt(s, p) \div 128) % 2
  <2> DEFINE i == 8 * p + 0
  <2>1. i \in Nat /\ i \div 8 = p /\ 8 - 1 - (i % 8) = 7
    OBVIOUS
  <2>2. i >= 8 * Len(s) <=> p >= Len(s)
    BY <1>1
  <2> HIDE DEF i
  <2>3. 2^(8 - 1 - (i % 8)) = 128
    BY ONLY <1>2, <2>1
  <2>4. BitPlace(s, 8, i, p, 128)
    BY <1>1, <2>1, <2>2, <2>3 DEF BitPlace
  <2>5. Bit(s, 8, i) = (ElementAt(s, p) \div 128) % 2
    BY ONLY <2>4, BitAt
  <2> QED
    BY <2>5 DEF i
<1>4. Bit(s, 8, 8 * p + 1) = (ElementAt(s, p) \div 64) % 2
  <2> DEFINE i == 8 * p + 1
  <2>1. i \in Nat /\ i \div 8 = p /\ 8 - 1 - (i % 8) = 6
    OBVIOUS
  <2>2. i >= 8 * Len(s) <=> p >= Len(s)
    BY <1>1
  <2> HIDE DEF i
  <2>3. 2^(8 - 1 - (i % 8)) = 64
    BY ONLY <1>2, <2>1
  <2>4. BitPlace(s, 8, i, p, 64)
    BY <1>1, <2>1, <2>2, <2>3 DEF BitPlace
  <2>5. Bit(s, 8, i) = (ElementAt(s, p) \div 64) % 2
    BY ONLY <2>4, BitAt
  <2> QED
    BY <2>5 DEF i
<1>5. Bit(s, 8, 8 * p + 2) = (ElementAt(s, p) \div 32) % 2
  <2> DEFINE i == 8 * p + 2
  <2>1. i \in Nat /\ i \div 8 = p /\ 8 - 1 - (i % 8) = 5
    OBVIOUS
  <2>2. i >= 8 * Len(s) <=> p >= Len(s)
    BY <1>1
  <2> HIDE DEF i
  <2>3. 2^(8 - 1 - (i % 8)) = 32
    BY ONLY <1>2, <2>1
  <2>4. BitPlace(s, 8, i, p, 32)
    BY <1>1, <2>1, <2>2, <2>3 DEF BitPlace
  <2>5. Bit(s, 8, i) = (ElementAt(s, p) \div 32) % 2
    BY ONLY <2>4, BitAt
  <2> QED
    BY <2>5 DEF i
<1>6. Bit(s, 8, 8 * p + 3) = (ElementAt(s, p) \div 16) % 2
  <2> DEFINE i == 8 * p + 3
  <2>1. i \in Nat /\ i \div 8 = p /\ 8 - 1 - (i % 8) = 4
    OBVIOUS
  <2>2. i >= 8 * Len(s) <=> p >= Len(s)
    BY <1>1
  <2> HIDE DEF i
  <2>3. 2^(8 - 1 - (i % 8)) = 16
    BY ONLY <1>2, <2>1
  <2>4. BitPlace(s, 8, i, p, 16)
    BY <1>1, <2>1, <2>2, <2>3 DEF BitPlace
  <2>5. Bit(s, 8, i) = (ElementAt(s, p) \div 16) % 2
    BY ONLY <2>4, BitAt
  <2> QED
    BY <2>5 DEF i
<1>7. Bit(s, 8, 8 * p + 4) = (ElementAt(s, p) \div 8) % 2
  <2> DEFINE i == 8 * p + 4
  <2>1. i \in Nat /\ i \div 8 = p /\ 8 - 1 - (i % 8) = 3
    OBVIOUS
  <2>2. i >= 8 * Len(s) <=> p >= Len(s)
    BY <1>1
  <2> HIDE DEF i
  <2>3. 2^(8 - 1 - (i % 8)) = 8
    BY ONLY <1>2, <2>1
  <2>4. BitPlace(s, 8, i, p, 8)
    BY <1>1, <2>1, <2>2, <2>3 DEF BitPlace
  <2>5. Bit(s, 8, i) = (ElementAt(s, p) \div 8) % 2
    BY ONLY <2>4, BitAt
  <2> QED
    BY <2>5 DEF i
<1>8. Bit(s, 8, 8 * p + 5) = (ElementAt(s, p) \div 4) % 2
  <2> DEFINE i == 8 * p + 5
  <2>1. i \in Nat /\ i \div 8 = p /\ 8 - 1 - (i % 8) = 2
    OBVIOUS
  <2>2. i >= 8 * Len(s) <=> p >= Len(s)
    BY <1>1
  <2> HIDE DEF i
  <2>3. 2^(8 - 1 - (i % 8)) = 4
    BY ONLY <1>2, <2>1
  <2>4. BitPlace(s, 8, i, p, 4)
    BY <1>1, <2>1, <2>2, <2>3 DEF BitPlace
  <2>5. Bit(s, 8, i) = (ElementAt(s, p) \div 4) % 2
    BY ONLY <2>4, BitAt
  <2> QED
    BY <2>5 DEF i
<1>9. Bit(s, 8, 8 * p + 6) = (ElementAt(s, p) \div 2) % 2
  <2> DEFINE i == 8 * p + 6
  <2>1. i \in Nat /\ i \div 8 = p /\ 8 - 1 - (i % 8) = 1
    OBVIOUS
  <2>2. i >= 8 * Len(s) <=> p >= Len(s)
    BY <1>1
  <2> HIDE DEF i
  <2>3. 2^(8 - 1 - (i % 8)) = 2
    BY ONLY <1>2, <2>1
  <2>4. BitPlace(s, 8, i, p, 2)
    BY <1>1, <2>1, <2>2, <2>3 DEF BitPlace
  <2>5. Bit(s, 8, i) = (ElementAt(s, p) \div 2) % 2
    BY ONLY <2>4, BitAt
  <2> QED
    BY <2>5 DEF i
<1>10. Bit(s, 8, 8 * p + 7) = (ElementAt(s, p) \div 1) % 2
  <2> DEFINE i == 8 * p + 7
  <2>1. i \in Nat /\ i \div 8 = p /\ 8 - 1 - (i % 8) = 0
    OBVIOUS
  <2>2. i >= 8 * Len(s) <=> p >= Len(s)
    BY <1>1
  <2> HIDE DEF i
  <2>3. 2^(8 - 1 - (i % 8)) = 1
    BY ONLY <1>2, <2>1
  <2>4. BitPlace(s, 8, i, p, 1)
    BY <1>1, <2>1, <2>2, <2>3 DEF BitPlace
  <2>5. Bit(s, 8, i) = (ElementAt(s, p) \div 1) % 2
    BY ONLY <2>4, BitAt
  <2> QED
    BY <2>5 DEF i
<1> QED
  BY <1>3, <1>4, <1>5, <1>6, <1>7, <1>8, <1>9, <1>10

LEMMA BitsOfSymbol ==
    ASSUME NEW S, S \subseteq Nat, NEW s \in Seq(S), NEW p \in Nat
    PROVE  /\ Bit(s, 6, 6 * p + 0) = (ElementAt(s, p) \div 32) % 2
           /\ Bit(s, 6, 6 * p + 1) = (ElementAt(s, p) \div 16) % 2
           /\ Bit(s, 6, 6 * p + 2) = (ElementAt(s, p) \div 8) % 2
           /\ Bit(s, 6, 6 * p + 3) = (ElementAt(s, p) \div 4) % 2
           /\ Bit(s, 6, 6 * p + 4) = (ElementAt(s, p) \div 2) % 2
           /\ Bit(s, 6, 6 * p + 5) = (ElementAt(s, p) \div 1) % 2
<1>1. Len(s) \in Nat
  OBVIOUS
<1>2. 2^0 = 1 /\ 2^1 = 2 /\ 2^2 = 4 /\ 2^3 = 8 /\ 2^4 = 16 /\ 2^5 = 32
  OBVIOUS
<1>3. Bit(s, 6, 6 * p + 0) = (ElementAt(s, p) \div 32) % 2
  <2> DEFINE i == 6 * p + 0
  <2>1. i \in Nat /\ i \div 6 = p /\ 6 - 1 - (i % 6) = 5
    OBVIOUS
  <2>2. i >= 6 * Len(s) <=> p >= Len(s)
    BY <1>1
  <2> HIDE DEF i
  <2>3. 2^(6 - 1 - (i % 6)) = 32
    BY ONLY <1>2, <2>1
  <2>4. BitPlace(s, 6, i, p, 32)
    BY <1>1, <2>1, <2>2, <2>3 DEF BitPlace
  <2>5. Bit(s, 6, i) = (ElementAt(s, p) \div 32) % 2
    BY ONLY <2>4, BitAt
  <2> QED
    BY <2>5 DEF i
<1>4. Bit(s, 6, 6 * p + 1) = (ElementAt(s, p) \div 16) % 2
  <2> DEFINE i == 6 * p + 1
  <2>1. i \in Nat /\ i \div 6 = p /\ 6 - 1 - (i % 6) = 4
    OBVIOUS
  <2>2. i >= 6 * Len(s) <=> p >= Len(s)
    BY <1>1
  <2> HIDE DEF i
  <2>3. 2^(6 - 1 - (i % 6)) = 16
    BY ONLY <1>2, <2>1
  <2>4. BitPlace(s, 6, i, p, 16)
    BY <1>1, <2>1, <2>2, <2>3 DEF BitPlace
  <2>5. Bit(s, 6, i) = (ElementAt(s, p) \div 16) % 2
    BY ONLY <2>4, BitAt
  <2> QED
    BY <2>5 DEF i
<1>5. Bit(s, 6, 6 * p + 2) = (ElementAt(s, p) \div 8) % 2
  <2> DEFINE i == 6 * p + 2
  <2>1. i \in Nat /\ i \div 6 = p /\ 6 - 1 - (i % 6) = 3
    OBVIOUS
  <2>2. i >= 6 * Len(s) <=> p >= Len(s)
    BY <1>1
  <2> HIDE DEF i
  <2>3. 2^(6 - 1 - (i % 6)) = 8
    BY ONLY <1>2, <2>1
  <2>4. BitPlace(s, 6, i, p, 8)
    BY <1>1, <2>1, <2>2, <2>3 DEF BitPlace
  <2>5. Bit(s, 6, i) = (ElementAt(s, p) \div 8) % 2
    BY ONLY <2>4, BitAt
  <2> QED
    BY <2>5 DEF i
<1>6. Bit(s, 6, 6 * p + 3) = (ElementAt(s, p) \div 4) % 2
  <2> DEFINE i == 6 * p + 3
  <2>1. i \in Nat /\ i \div 6 = p /\ 6 - 1 - (i % 6) = 2
    OBVIOUS
  <2>2. i >= 6 * Len(s) <=> p >= Len(s)
    BY <1>1
  <2> HIDE DEF i
  <2>3. 2^(6 - 1 - (i % 6)) = 4
    BY ONLY <1>2, <2>1
  <2>4. BitPlace(s, 6, i, p, 4)
    BY <1>1, <2>1, <2>2, <2>3 DEF BitPlace
  <2>5. Bit(s, 6, i) = (ElementAt(s, p) \div 4) % 2
    BY ONLY <2>4, BitAt
  <2> QED
    BY <2>5 DEF i
<1>7. Bit(s, 6, 6 * p + 4) = (ElementAt(s, p) \div 2) % 2
  <2> DEFINE i == 6 * p + 4
  <2>1. i \in Nat /\ i \div 6 = p /\ 6 - 1 - (i % 6) = 1
    OBVIOUS
  <2>2. i >= 6 * Len(s) <=> p >= Len(s)
    BY <1>1
  <2> HIDE DEF i
  <2>3. 2^(6 - 1 - (i % 6)) = 2
    BY ONLY <1>2, <2>1
  <2>4. BitPlace(s, 6, i, p, 2)
    BY <1>1, <2>1, <2>2, <2>3 DEF BitPlace
  <2>5. Bit(s, 6, i) = (ElementAt(s, p) \div 2) % 2
    BY ONLY <2>4, BitAt
  <2> QED
    BY <2>5 DEF i
<1>8. Bit(s, 6, 6 * p + 5) = (ElementAt(s, p) \div 1) % 2
  <2> DEFINE i == 6 * p + 5
  <2>1. i \in Nat /\ i \div 6 = p /\ 6 - 1 - (i % 6) = 0
    OBVIOUS
  <2>2. i >= 6 * Len(s) <=> p >= Len(s)
    BY <1>1
  <2> HIDE DEF i
  <2>3. 2^(6 - 1 - (i % 6)) = 1
    BY ONLY <1>2, <2>1
  <2>4. BitPlace(s, 6, i, p, 1)
    BY <1>1, <2>1, <2>2, <2>3 DEF BitPlace
  <2>5. Bit(s, 6, i) = (ElementAt(s, p) \div 1) % 2
    BY ONLY <2>4, BitAt
  <2> QED
    BY <2>5 DEF i
<1> QED
  BY <1>3, <1>4, <1>5, <1>6, <1>7, <1>8

LEMMA ElementIn ==
    ASSUME NEW S, 0 \in S, NEW s \in Seq(S), NEW p \in Nat
    PROVE  ElementAt(s, p) \in S
<1>1. Len(s) \in Nat /\ \A i \in 1..Len(s) : s[i] \in S
  OBVIOUS
<1>2. CASE p < Len(s)
  <2>1. p + 1 \in 1..Len(s)
    BY <1>1, <1>2
  <2> QED
    BY <1>1, <1>2, <2>1 DEF ElementAt
<1>3. CASE ~(p < Len(s))
  BY <1>3 DEF ElementAt
<1> QED
  BY <1>2, <1>3

\* What the bits of a byte, of a symbol add up to.
LEMMA ByteSums ==
    ASSUME NEW b \in 0..255
    PROVE  /\ 32 * ((b \div 128) % 2) + 16 * ((b \div 64) % 2) + 8 * ((b \div 32) % 2)
              + 4 * ((b \div 16) % 2) + 2 * ((b \div 8) % 2) + ((b \div 4) % 2) = b \div 4
           /\ 2 * ((b \div 2) % 2) + ((b \div 1) % 2) = b % 4
           /\ 8 * ((b \div 128) % 2) + 4 * ((b \div 64) % 2) + 2 * ((b \div 32) % 2)
              + ((b \div 16) % 2) = b \div 16
           /\ 8 * ((b \div 8) % 2) + 4 * ((b \div 4) % 2) + 2 * ((b \div 2) % 2)
              + ((b \div 1) % 2) = b % 16
           /\ 2 * ((b \div 128) % 2) + ((b \div 64) % 2) = b \div 64
           /\ 32 * ((b \div 32) % 2) + 16 * ((b \div 16) % 2) + 8 * ((b \div 8) % 2)
              + 4 * ((b \div 4) % 2) + 2 * ((b \div 2) % 2) + ((b \div 1) % 2) = b % 64
  OBVIOUS

LEMMA SymbolSums ==
    ASSUME NEW c \in 0..63
    PROVE  /\ 32 * ((c \div 32) % 2) + 16 * ((c \div 16) % 2) + 8 * ((c \div 8) % 2)
              + 4 * ((c \div 4) % 2) + 2 * ((c \div 2) % 2) + ((c \div 1) % 2) = c
           /\ 2 * ((c \div 32) % 2) + ((c \div 16) % 2) = c \div 16
           /\ 8 * ((c \div 8) % 2) + 4 * ((c \div 4) % 2) + 2 * ((c \div 2) % 2)
              + ((c \div 1) % 2) = c % 16
           /\ 8 * ((c \div 32) % 2) + 4 * ((c \div 16) % 2) + 2 * ((c \div 8) % 2)
              + ((c \div 4) % 2) = c \div 4
           /\ 2 * ((c \div 2) % 2) + ((c \div 1) % 2) = c % 4
  OBVIOUS

LEMMA GroupOfBytes ==
    ASSUME NEW s \in Seq(0..255), NEW g \in Nat
    PROVE  LET A == ElementAt(s, 3 * g + 0)
               B == ElementAt(s, 3 * g + 1)
               C == ElementAt(s, 3 * g + 2)
           IN /\ Digit(s, 8, 6, 4 * g + 1) = A \div 4
              /\ Digit(s, 8, 6, 4 * g + 2) = (A % 4) * 16 + B \div 16
              /\ Digit(s, 8, 6, 4 * g + 3) = (B % 16) * 4 + C \div 64
              /\ Digit(s, 8, 6, 4 * g + 4) = C % 64
<1> DEFINE A == ElementAt(s, 3 * g + 0)
           B == ElementAt(s, 3 * g + 1)
           C == ElementAt(s, 3 * g + 2)
<1>1. A \in 0..255 /\ B \in 0..255 /\ C \in 0..255
  BY 0 \in 0..255, 3 * g + 0 \in Nat, 3 * g + 1 \in Nat, 3 * g + 2 \in Nat, ElementIn
<1>2. /\ Bit(s, 8, 8 * (3 * g + 0) + 0) = (A \div 128) % 2
      /\ Bit(s, 8, 8 * (3 * g + 0) + 1) = (A \div 64) % 2
      /\ Bit(s, 8, 8 * (3 * g + 0) + 2) = (A \div 32) % 2
      /\ Bit(s, 8, 8 * (3 * g + 0) + 3) = (A \div 16) % 2
      /\ Bit(s, 8, 8 * (3 * g + 0) + 4) = (A \div 8) % 2
      /\ Bit(s, 8, 8 * (3 * g + 0) + 5) = (A \div 4) % 2
      /\ Bit(s, 8, 8 * (3 * g + 0) + 6) = (A \div 2) % 2
      /\ Bit(s, 8, 8 * (3 * g + 0) + 7) = (A \div 1) % 2
  BY 3 * g + 0 \in Nat, 0..255 \subseteq Nat, BitsOfByte
<1>3. /\ Bit(s, 8, 8 * (3 * g + 1) + 0) = (B \div 128) % 2
      /\ Bit(s, 8, 8 * (3 * g + 1) + 1) = (B \div 64) % 2
      /\ Bit(s, 8, 8 * (3 * g + 1) + 2) = (B \div 32) % 2
      /\ Bit(s, 8, 8 * (3 * g + 1) + 3) = (B \div 16) % 2
      /\ Bit(s, 8, 8 * (3 * g + 1) + 4) = (B \div 8) % 2
      /\ Bit(s, 8, 8 * (3 * g + 1) + 5) = (B \div 4) % 2
      /\ Bit(s, 8, 8 * (3 * g + 1) + 6) = (B \div 2) % 2
      /\ Bit(s, 8, 8 * (3 * g + 1) + 7) = (B \div 1) % 2
  BY 3 * g + 1 \in Nat, 0..255 \subseteq Nat, BitsOfByte
<1>4. /\ Bit(s, 8, 8 * (3 * g + 2) + 0) = (C \div 128) % 2
      /\ Bit(s, 8, 8 * (3 * g + 2) + 1) = (C \div 64) % 2
      /\ Bit(s, 8, 8 * (3 * g + 2) + 2) = (C \div 32) % 2
      /\ Bit(s, 8, 8 * (3 * g + 2) + 3) = (C \div 16) % 2
      /\ Bit(s, 8, 8 * (3 * g + 2) + 4) = (C \div 8) % 2
      /\ Bit(s, 8, 8 * (3 * g + 2) + 5) = (C \div 4) % 2
      /\ Bit(s, 8, 8 * (3 * g + 2) + 6) = (C \div 2) % 2
      /\ Bit(s, 8, 8 * (3 * g + 2) + 7) = (C \div 1) % 2
  BY 3 * g + 2 \in Nat, 0..255 \subseteq Nat, BitsOfByte
<1> HIDE DEF A, B, C
<1>5. Digit(s, 8, 6, 4 * g + 1) = A \div 4
  <2> DEFINE k == 4 * g + 1
             b0 == (A \div 128) % 2
             b1 == (A \div 64) % 2
             b2 == (A \div 32) % 2
             b3 == (A \div 16) % 2
             b4 == (A \div 8) % 2
             b5 == (A \div 4) % 2
  <2>1. b0 \in Nat /\ b1 \in Nat /\ b2 \in Nat /\ b3 \in Nat /\ b4 \in Nat /\ b5 \in Nat
    BY <1>1
  <2>2. Bit(s, 8, (k - 1) * 6 + 1 - 1) = b0
    <3>1. (k - 1) * 6 + 1 - 1 = 8 * (3 * g + 0) + 0
      OBVIOUS
    <3> HIDE DEF k
    <3> QED
      BY ONLY <1>2, <3>1
  <2>3. Bit(s, 8, (k - 1) * 6 + 2 - 1) = b1
    <3>1. (k - 1) * 6 + 2 - 1 = 8 * (3 * g + 0) + 1
      OBVIOUS
    <3> HIDE DEF k
    <3> QED
      BY ONLY <1>2, <3>1
  <2>4. Bit(s, 8, (k - 1) * 6 + 3 - 1) = b2
    <3>1. (k - 1) * 6 + 3 - 1 = 8 * (3 * g + 0) + 2
      OBVIOUS
    <3> HIDE DEF k
    <3> QED
      BY ONLY <1>2, <3>1
  <2>5. Bit(s, 8, (k - 1) * 6 + 4 - 1) = b3
    <3>1. (k - 1) * 6 + 4 - 1 = 8 * (3 * g + 0) + 3
      OBVIOUS
    <3> HIDE DEF k
    <3> QED
      BY ONLY <1>2, <3>1
  <2>6. Bit(s, 8, (k - 1) * 6 + 5 - 1) = b4
    <3>1. (k - 1) * 6 + 5 - 1 = 8 * (3 * g + 0) + 4
      OBVIOUS
    <3> HIDE DEF k
    <3> QED
      BY ONLY <1>2, <3>1
  <2>7. Bit(s, 8, (k - 1) * 6 + 6 - 1) = b5
    <3>1. (k - 1) * 6 + 6 - 1 = 8 * (3 * g + 0) + 5
      OBVIOUS
    <3> HIDE DEF k
    <3> QED
      BY ONLY <1>2, <3>1
  <2> HIDE DEF k
  <2>8. SixBitsAre(s, 8, k, b0, b1, b2, b3, b4, b5)
    BY ONLY <2>1, <2>2, <2>3, <2>4, <2>5, <2>6, <2>7 DEF SixBitsAre
  <2>9. Digit(s, 8, 6, k) = 32 * b0 + 16 * b1 + 8 * b2 + 4 * b3 + 2 * b4 + b5
    BY ONLY <2>8, SixBits
  <2>10. 32 * b0 + 16 * b1 + 8 * b2 + 4 * b3 + 2 * b4 + b5 = A \div 4
    BY ONLY <1>1, ByteSums DEF b0, b1, b2, b3, b4, b5
  <2> QED
    <3> HIDE DEF b0, b1, b2, b3, b4, b5
    <3>1. Digit(s, 8, 6, k) = A \div 4
      BY ONLY <1>1, <2>1, <2>9, <2>10
    <3> QED
      BY <3>1 DEF k
<1>6. Digit(s, 8, 6, 4 * g + 2) = (A % 4) * 16 + B \div 16
  <2> DEFINE k == 4 * g + 2
             b0 == (A \div 2) % 2
             b1 == (A \div 1) % 2
             b2 == (B \div 128) % 2
             b3 == (B \div 64) % 2
             b4 == (B \div 32) % 2
             b5 == (B \div 16) % 2
  <2>1. b0 \in Nat /\ b1 \in Nat /\ b2 \in Nat /\ b3 \in Nat /\ b4 \in Nat /\ b5 \in Nat
    BY <1>1
  <2>2. Bit(s, 8, (k - 1) * 6 + 1 - 1) = b0
    <3>1. (k - 1) * 6 + 1 - 1 = 8 * (3 * g + 0) + 6
      OBVIOUS
    <3> HIDE DEF k
    <3> QED
      BY ONLY <1>2, <3>1
  <2>3. Bit(s, 8, (k - 1) * 6 + 2 - 1) = b1
    <3>1. (k - 1) * 6 + 2 - 1 = 8 * (3 * g + 0) + 7
      OBVIOUS
    <3> HIDE DEF k
    <3> QED
      BY ONLY <1>2, <3>1
  <2>4. Bit(s, 8, (k - 1) * 6 + 3 - 1) = b2
    <3>1. (k - 1) * 6 + 3 - 1 = 8 * (3 * g + 1) + 0
      OBVIOUS
    <3> HIDE DEF k
    <3> QED
      BY ONLY <1>3, <3>1
  <2>5. Bit(s, 8, (k - 1) * 6 + 4 - 1) = b3
    <3>1. (k - 1) * 6 + 4 - 1 = 8 * (3 * g + 1) + 1
      OBVIOUS
    <3> HIDE DEF k
    <3> QED
      BY ONLY <1>3, <3>1
  <2>6. Bit(s, 8, (k - 1) * 6 + 5 - 1) = b4
    <3>1. (k - 1) * 6 + 5 - 1 = 8 * (3 * g + 1) + 2
      OBVIOUS
    <3> HIDE DEF k
    <3> QED
      BY ONLY <1>3, <3>1
  <2>7. Bit(s, 8, (k - 1) * 6 + 6 - 1) = b5
    <3>1. (k - 1) * 6 + 6 - 1 = 8 * (3 * g + 1) + 3
      OBVIOUS
    <3> HIDE DEF k
    <3> QED
      BY ONLY <1>3, <3>1
  <2> HIDE DEF k
  <2>8. SixBitsAre(s, 8, k, b0, b1, b2, b3, b4, b5)
    BY ONLY <2>1, <2>2, <2>3, <2>4, <2>5, <2>6, <2>7 DEF SixBitsAre
  <2>9. Digit(s, 8, 6, k) = 32 * b0 + 16 * b1 + 8 * b2 + 4 * b3 + 2 * b4 + b5
    BY ONLY <2>8, SixBits
  <2>10. 2 * b0 + b1 = A % 4
    BY ONLY <1>1, ByteSums DEF b0, b1
  <2>11. 8 * b2 + 4 * b3 + 2 * b4 + b5 = B \div 16
    BY ONLY <1>1, ByteSums DEF b2, b3, b4, b5
  <2> QED
    <3> HIDE DEF b0, b1, b2, b3, b4, b5
    <3>1. Digit(s, 8, 6, k) = (A % 4) * 16 + B \div 16
      BY ONLY <1>1, <2>1, <2>9, <2>10, <2>11
    <3> QED
      BY <3>1 DEF k
<1>7. Digit(s, 8, 6, 4 * g + 3) = (B % 16) * 4 + C \div 64
  <2> DEFINE k == 4 * g + 3
             b0 == (B \div 8) % 2
             b1 == (B \div 4) % 2
             b2 == (B \div 2) % 2
             b3 == (B \div 1) % 2
             b4 == (C \div 128) % 2
             b5 == (C \div 64) % 2
  <2>1. b0 \in Nat /\ b1 \in Nat /\ b2 \in Nat /\ b3 \in Nat /\ b4 \in Nat /\ b5 \in Nat
    BY <1>1
  <2>2. Bit(s, 8, (k - 1) * 6 + 1 - 1) = b0
    <3>1. (k - 1) * 6 + 1 - 1 = 8 * (3 * g + 1) + 4
      OBVIOUS
    <3> HIDE DEF k
    <3> QED
      BY ONLY <1>3, <3>1
  <2>3. Bit(s, 8, (k - 1) * 6 + 2 - 1) = b1
    <3>1. (k - 1) * 6 + 2 - 1 = 8 * (3 * g + 1) + 5
      OBVIOUS
    <3> HIDE DEF k
    <3> QED
      BY ONLY <1>3, <3>1
  <2>4. Bit(s, 8, (k - 1) * 6 + 3 - 1) = b2
    <3>1. (k - 1) * 6 + 3 - 1 = 8 * (3 * g + 1) + 6
      OBVIOUS
    <3> HIDE DEF k
    <3> QED
      BY ONLY <1>3, <3>1
  <2>5. Bit(s, 8, (k - 1) * 6 + 4 - 1) = b3
    <3>1. (k - 1) * 6 + 4 - 1 = 8 * (3 * g + 1) + 7
      OBVIOUS
    <3> HIDE DEF k
    <3> QED
      BY ONLY <1>3, <3>1
  <2>6. Bit(s, 8, (k - 1) * 6 + 5 - 1) = b4
    <3>1. (k - 1) * 6 + 5 - 1 = 8 * (3 * g + 2) + 0
      OBVIOUS
    <3> HIDE DEF k
    <3> QED
      BY ONLY <1>4, <3>1
  <2>7. Bit(s, 8, (k - 1) * 6 + 6 - 1) = b5
    <3>1. (k - 1) * 6 + 6 - 1 = 8 * (3 * g + 2) + 1
      OBVIOUS
    <3> HIDE DEF k
    <3> QED
      BY ONLY <1>4, <3>1
  <2> HIDE DEF k
  <2>8. SixBitsAre(s, 8, k, b0, b1, b2, b3, b4, b5)
    BY ONLY <2>1, <2>2, <2>3, <2>4, <2>5, <2>6, <2>7 DEF SixBitsAre
  <2>9. Digit(s, 8, 6, k) = 32 * b0 + 16 * b1 + 8 * b2 + 4 * b3 + 2 * b4 + b5
    BY ONLY <2>8, SixBits
  <2>10. 8 * b0 + 4 * b1 + 2 * b2 + b3 = B % 16
    BY ONLY <1>1, ByteSums DEF b0, b1, b2, b3
  <2>11. 2 * b4 + b5 = C \div 64
    BY ONLY <1>1, ByteSums DEF b4, b5
  <2> QED
    <3> HIDE DEF b0, b1, b2, b3, b4, b5
    <3>1. Digit(s, 8, 6, k) = (B % 16) * 4 + C \div 64
      BY ONLY <1>1, <2>1, <2>9, <2>10, <2>11
    <3> QED
      BY <3>1 DEF k
<1>8. Digit(s, 8, 6, 4 * g + 4) = C % 64
  <2> DEFINE k == 4 * g + 4
             b0 == (C \div 32) % 2
             b1 == (C \div 16) % 2
             b2 == (C \div 8) % 2
             b3 == (C \div 4) % 2
             b4 == (C \div 2) % 2
             b5 == (C \div 1) % 2
  <2>1. b0 \in Nat /\ b1 \in Nat /\ b2 \in Nat /\ b3 \in Nat /\ b4 \in Nat /\ b5 \in Nat
    BY <1>1
  <2>2. Bit(s, 8, (k - 1) * 6 + 1 - 1) = b0
    <3>1. (k - 1) * 6 + 1 - 1 = 8 * (3 * g + 2) + 2
      OBVIOUS
    <3> HIDE DEF k
    <3> QED
      BY ONLY <1>4, <3>1
  <2>3. Bit(s, 8, (k - 1) * 6 + 2 - 1) = b1
    <3>1. (k - 1) * 6 + 2 - 1 = 8 * (3 * g + 2) + 3
      OBVIOUS
    <3> HIDE DEF k
    <3> QED
      BY ONLY <1>4, <3>1
  <2>4. Bit(s, 8, (k - 1) * 6 + 3 - 1) = b2
    <3>1. (k - 1) * 6 + 3 - 1 = 8 * (3 * g + 2) + 4
      OBVIOUS
    <3> HIDE DEF k
    <3> QED
      BY ONLY <1>4, <3>1
  <2>5. Bit(s, 8, (k - 1) * 6 + 4 - 1) = b3
    <3>1. (k - 1) * 6 + 4 - 1 = 8 * (3 * g + 2) + 5
      OBVIOUS
    <3> HIDE DEF k
    <3> QED
      BY ONLY <1>4, <3>1
  <2>6. Bit(s, 8, (k - 1) * 6 + 5 - 1) = b4
    <3>1. (k - 1) * 6 + 5 - 1 = 8 * (3 * g + 2) + 6
      OBVIOUS
    <3> HIDE DEF k
    <3> QED
      BY ONLY <1>4, <3>1
  <2>7. Bit(s, 8, (k - 1) * 6 + 6 - 1) = b5
    <3>1. (k - 1) * 6 + 6 - 1 = 8 * (3 * g + 2) + 7
      OBVIOUS
    <3> HIDE DEF k
    <3> QED
      BY ONLY <1>4, <3>1
  <2> HIDE DEF k
  <2>8. SixBitsAre(s, 8, k, b0, b1, b2, b3, b4, b5)
    BY ONLY <2>1, <2>2, <2>3, <2>4, <2>5, <2>6, <2>7 DEF SixBitsAre
  <2>9. Digit(s, 8, 6, k) = 32 * b0 + 16 * b1 + 8 * b2 + 4 * b3 + 2 * b4 + b5
    BY ONLY <2>8, SixBits
  <2>10. 32 * b0 + 16 * b1 + 8 * b2 + 4 * b3 + 2 * b4 + b5 = C % 64
    BY ONLY <1>1, ByteSums DEF b0, b1, b2, b3, b4, b5
  <2> QED
    <3> HIDE DEF b0, b1, b2, b3, b4, b5
    <3>1. Digit(s, 8, 6, k) = C % 64
      BY ONLY <1>1, <2>1, <2>9, <2>10
    <3> QED
      BY <3>1 DEF k
<1> QED
  BY <1>5, <1>6, <1>7, <1>8 DEF A, B, C

LEMMA GroupOfSymbols ==
    ASSUME NEW s \in Seq(0..63), NEW g \in Nat
    PROVE  LET A == ElementAt(s, 4 * g + 0)
               B == ElementAt(s, 4 * g + 1)
               C == ElementAt(s, 4 * g + 2)
               D == ElementAt(s, 4 * g + 3)
           IN /\ Digit(s, 6, 8, 3 * g + 1) = A * 4 + B \div 16
              /\ Digit(s, 6, 8, 3 * g + 2) = (B % 16) * 16 + C \div 4
              /\ Digit(s, 6, 8, 3 * g + 3) = (C % 4) * 64 + D
<1> DEFINE A == ElementAt(s, 4 * g + 0)
           B == ElementAt(s, 4 * g + 1)
           C == ElementAt(s, 4 * g + 2)
           D == ElementAt(s, 4 * g + 3)
<1>1. A \in 0..63 /\ B \in 0..63 /\ C \in 0..63 /\ D \in 0..63
  BY 0 \in 0..63, 4 * g + 0 \in Nat, 4 * g + 1 \in Nat, 4 * g + 2 \in Nat, 4 * g + 3 \in Nat, ElementIn
<1>2. /\ Bit(s, 6, 6 * (4 * g + 0) + 0) = (A \div 32) % 2
      /\ Bit(s, 6, 6 * (4 * g + 0) + 1) = (A \div 16) % 2
      /\ Bit(s, 6, 6 * (4 * g + 0) + 2) = (A \div 8) % 2
      /\ Bit(s, 6, 6 * (4 * g + 0) + 3) = (A \div 4) % 2
      /\ Bit(s, 6, 6 * (4 * g + 0) + 4) = (A \div 2) % 2
      /\ Bit(s, 6, 6 * (4 * g + 0) + 5) = (A \div 1) % 2
  BY 4 * g + 0 \in Nat, 0..63 \subseteq Nat, BitsOfSymbol
<1>3. /\ Bit(s, 6, 6 * (4 * g + 1) + 0) = (B \div 32) % 2
      /\ Bit(s, 6, 6 * (4 * g + 1) + 1) = (B \div 16) % 2
      /\ Bit(s, 6, 6 * (4 * g + 1) + 2) = (B \div 8) % 2
      /\ Bit(s, 6, 6 * (4 * g + 1) + 3) = (B \div 4) % 2
      /\ Bit(s, 6, 6 * (4 * g + 1) + 4) = (B \div 2) % 2
      /\ Bit(s, 6, 6 * (4 * g + 1) + 5) = (B \div 1) % 2
  BY 4 * g + 1 \in Nat, 0..63 \subseteq Nat, BitsOfSymbol
<1>4. /\ Bit(s, 6, 6 * (4 * g + 2) + 0) = (C \div 32) % 2
      /\ Bit(s, 6, 6 * (4 * g + 2) + 1) = (C \div 16) % 2
      /\ Bit(s, 6, 6 * (4 * g + 2) + 2) = (C \div 8) % 2
      /\ Bit(s, 6, 6 * (4 * g + 2) + 3) = (C \div 4) % 2
      /\ Bit(s, 6, 6 * (4 * g + 2) + 4) = (C \div 2) % 2
      /\ Bit(s, 6, 6 * (4 * g + 2) + 5) = (C \div 1) % 2
  BY 4 * g + 2 \in Nat, 0..63 \subseteq Nat, BitsOfSymbol
<1>5. /\ Bit(s, 6, 6 * (4 * g + 3) + 0) = (D \div 32) % 2
      /\ Bit(s, 6, 6 * (4 * g + 3) + 1) = (D \div 16) % 2
      /\ Bit(s, 6, 6 * (4 * g + 3) + 2) = (D \div 8) % 2
      /\ Bit(s, 6, 6 * (4 * g + 3) + 3) = (D \div 4) % 2
      /\ Bit(s, 6, 6 * (4 * g + 3) + 4) = (D \div 2) % 2
      /\ Bit(s, 6, 6 * (4 * g + 3) + 5) = (D \div 1) % 2
  BY 4 * g + 3 \in Nat, 0..63 \subseteq Nat, BitsOfSymbol
<1> HIDE DEF A, B, C, D
<1>6. Digit(s, 6, 8, 3 * g + 1) = A * 4 + B \div 16
  <2> DEFINE k == 3 * g + 1
             b0 == (A \div 32) % 2
             b1 == (A \div 16) % 2
             b2 == (A \div 8) % 2
             b3 == (A \div 4) % 2
             b4 == (A \div 2) % 2
             b5 == (A \div 1) % 2
             b6 == (B \div 32) % 2
             b7 == (B \div 16) % 2
  <2>1. b0 \in Nat /\ b1 \in Nat /\ b2 \in Nat /\ b3 \in Nat /\ b4 \in Nat /\ b5 \in Nat /\ b6 \in Nat /\ b7 \in Nat
    BY <1>1
  <2>2. Bit(s, 6, (k - 1) * 8 + 1 - 1) = b0
    <3>1. (k - 1) * 8 + 1 - 1 = 6 * (4 * g + 0) + 0
      OBVIOUS
    <3> HIDE DEF k
    <3> QED
      BY ONLY <1>2, <3>1
  <2>3. Bit(s, 6, (k - 1) * 8 + 2 - 1) = b1
    <3>1. (k - 1) * 8 + 2 - 1 = 6 * (4 * g + 0) + 1
      OBVIOUS
    <3> HIDE DEF k
    <3> QED
      BY ONLY <1>2, <3>1
  <2>4. Bit(s, 6, (k - 1) * 8 + 3 - 1) = b2
    <3>1. (k - 1) * 8 + 3 - 1 = 6 * (4 * g + 0) + 2
      OBVIOUS
    <3> HIDE DEF k
    <3> QED
      BY ONLY <1>2, <3>1
  <2>5. Bit(s, 6, (k - 1) * 8 + 4 - 1) = b3
    <3>1. (k - 1) * 8 + 4 - 1 = 6 * (4 * g + 0) + 3
      OBVIOUS
    <3> HIDE DEF k
    <3> QED
      BY ONLY <1>2, <3>1
  <2>6. Bit(s, 6, (k - 1) * 8 + 5 - 1) = b4
    <3>1. (k - 1) * 8 + 5 - 1 = 6 * (4 * g + 0) + 4
      OBVIOUS
    <3> HIDE DEF k
    <3> QED
      BY ONLY <1>2, <3>1
  <2>7. Bit(s, 6, (k - 1) * 8 + 6 - 1) = b5
    <3>1. (k - 1) * 8 + 6 - 1 = 6 * (4 * g + 0) + 5
      OBVIOUS
    <3> HIDE DEF k
    <3> QED
      BY ONLY <1>2, <3>1
  <2>8. Bit(s, 6, (k - 1) * 8 + 7 - 1) = b6
    <3>1. (k - 1) * 8 + 7 - 1 = 6 * (4 * g + 1) + 0
      OBVIOUS
    <3> HIDE DEF k
    <3> QED
      BY ONLY <1>3, <3>1
  <2>9. Bit(s, 6, (k - 1) * 8 + 8 - 1) = b7
    <3>1. (k - 1) * 8 + 8 - 1 = 6 * (4 * g + 1) + 1
      OBVIOUS
    <3> HIDE DEF k
    <3> QED
      BY ONLY <1>3, <3>1
  <2> HIDE DEF k
  <2>10. EightBitsAre(s, 6, k, b0, b1, b2, b3, b4, b5, b6, b7)
    BY ONLY <2>1, <2>2, <2>3, <2>4, <2>5, <2>6, <2>7, <2>8, <2>9 DEF EightBitsAre
  <2>11. Digit(s, 6, 8, k) = 128 * b0 + 64 * b1 + 32 * b2 + 16 * b3 + 8 * b4 + 4 * b5 + 2 * b6 + b7
    BY ONLY <2>10, EightBits
  <2>12. 32 * b0 + 16 * b1 + 8 * b2 + 4 * b3 + 2 * b4 + b5 = A
    BY ONLY <1>1, SymbolSums DEF b0, b1, b2, b3, b4, b5
  <2>13. 2 * b6 + b7 = B \div 16
    BY ONLY <1>1, SymbolSums DEF b6, b7
  <2> QED
    <3> HIDE DEF b0, b1, b2, b3, b4, b5, b6, b7
    <3>1. Digit(s, 6, 8, k) = A * 4 + B \div 16
      BY ONLY <1>1, <2>1, <2>11, <2>12, <2>13
    <3> QED
      BY <3>1 DEF k
<1>7. Digit(s, 6, 8, 3 * g + 2) = (B % 16) * 16 + C \div 4
  <2> DEFINE k == 3 * g + 2
             b0 == (B \div 8) % 2
             b1 == (B \div 4) % 2
             b2 == (B \div 2) % 2
             b3 == (B \div 1) % 2
             b4 == (C \div 32) % 2
             b5 == (C \div 16) % 2
             b6 == (C \div 8) % 2
             b7 == (C \div 4) % 2
  <2>1. b0 \in Nat /\ b1 \in Nat /\ b2 \in Nat /\ b3 \in Nat /\ b4 \in Nat /\ b5 \in Nat /\ b6 \in Nat /\ b7 \in Nat
    BY <1>1
  <2>2. Bit(s, 6, (k - 1) * 8 + 1 - 1) = b0
    <3>1. (k - 1) * 8 + 1 - 1 = 6 * (4 * g + 1) + 2
      OBVIOUS
    <3> HIDE DEF k
    <3> QED
      BY ONLY <1>3, <3>1
  <2>3. Bit(s, 6, (k - 1) * 8 + 2 - 1) = b1
    <3>1. (k - 1) * 8 + 2 - 1 = 6 * (4 * g + 1) + 3
      OBVIOUS
    <3> HIDE DEF k
    <3> QED
      BY ONLY <1>3, <3>1
  <2>4. Bit(s, 6, (k - 1) * 8 + 3 - 1) = b2
    <3>1. (k - 1) * 8 + 3 - 1 = 6 * (4 * g + 1) + 4
      OBVIOUS
    <3> HIDE DEF k
    <3> QED
      BY ONLY <1>3, <3>1
  <2>5. Bit(s, 6, (k - 1) * 8 + 4 - 1) = b3
    <3>1. (k - 1) * 8 + 4 - 1 = 6 * (4 * g + 1) + 5
      OBVIOUS
    <3> HIDE DEF k
    <3> QED
      BY ONLY <1>3, <3>1
  <2>6. Bit(s, 6, (k - 1) * 8 + 5 - 1) = b4
    <3>1. (k - 1) * 8 + 5 - 1 = 6 * (4 * g + 2) + 0
      OBVIOUS
    <3> HIDE DEF k
    <3> QED
      BY ONLY <1>4, <3>1
  <2>7. Bit(s, 6, (k - 1) * 8 + 6 - 1) = b5
    <3>1. (k - 1) * 8 + 6 - 1 = 6 * (4 * g + 2) + 1
      OBVIOUS
    <3> HIDE DEF k
    <3> QED
      BY ONLY <1>4, <3>1
  <2>8. Bit(s, 6, (k - 1) * 8 + 7 - 1) = b6
    <3>1. (k - 1) * 8 + 7 - 1 = 6 * (4 * g + 2) + 2
      OBVIOUS
    <3> HIDE DEF k
    <3> QED
      BY ONLY <1>4, <3>1
  <2>9. Bit(s, 6, (k - 1) * 8 + 8 - 1) = b7
    <3>1. (k - 1) * 8 + 8 - 1 = 6 * (4 * g + 2) + 3
      OBVIOUS
    <3> HIDE DEF k
    <3> QED
      BY ONLY <1>4, <3>1
  <2> HIDE DEF k
  <2>10. EightBitsAre(s, 6, k, b0, b1, b2, b3, b4, b5, b6, b7)
    BY ONLY <2>1, <2>2, <2>3, <2>4, <2>5, <2>6, <2>7, <2>8, <2>9 DEF EightBitsAre
  <2>11. Digit(s, 6, 8, k) = 128 * b0 + 64 * b1 + 32 * b2 + 16 * b3 + 8 * b4 + 4 * b5 + 2 * b6 + b7
    BY ONLY <2>10, EightBits
  <2>12. 8 * b0 + 4 * b1 + 2 * b2 + b3 = B % 16
    BY ONLY <1>1, SymbolSums DEF b0, b1, b2, b3
  <2>13. 8 * b4 + 4 * b5 + 2 * b6 + b7 = C \div 4
    BY ONLY <1>1, SymbolSums DEF b4, b5, b6, b7
  <2> QED
    <3> HIDE DEF b0, b1, b2, b3, b4, b5, b6, b7
    <3>1. Digit(s, 6, 8, k) = (B % 16) * 16 + C \div 4
      BY ONLY <1>1, <2>1, <2>11, <2>12, <2>13
    <3> QED
      BY <3>1 DEF k
<1>8. Digit(s, 6, 8, 3 * g + 3) = (C % 4) * 64 + D
  <2> DEFINE k == 3 * g + 3
             b0 == (C \div 2) % 2
             b1 == (C \div 1) % 2
             b2 == (D \div 32) % 2
             b3 == (D \div 16) % 2
             b4 == (D \div 8) % 2
             b5 == (D \div 4) % 2
             b6 == (D \div 2) % 2
             b7 == (D \div 1) % 2
  <2>1. b0 \in Nat /\ b1 \in Nat /\ b2 \in Nat /\ b3 \in Nat /\ b4 \in Nat /\ b5 \in Nat /\ b6 \in Nat /\ b7 \in Nat
    BY <1>1
  <2>2. Bit(s, 6, (k - 1) * 8 + 1 - 1) = b0
    <3>1. (k - 1) * 8 + 1 - 1 = 6 * (4 * g + 2) + 4
      OBVIOUS
    <3> HIDE DEF k
    <3> QED
      BY ONLY <1>4, <3>1
  <2>3. Bit(s, 6, (k - 1) * 8 + 2 - 1) = b1
    <3>1. (k - 1) * 8 + 2 - 1 = 6 * (4 * g + 2) + 5
      OBVIOUS
    <3> HIDE DEF k
    <3> QED
      BY ONLY <1>4, <3>1
  <2>4. Bit(s, 6, (k - 1) * 8 + 3 - 1) = b2
    <3>1. (k - 1) * 8 + 3 - 1 = 6 * (4 * g + 3) + 0
      OBVIOUS
    <3> HIDE DEF k
    <3> QED
      BY ONLY <1>5, <3>1
  <2>5. Bit(s, 6, (k - 1) * 8 + 4 - 1) = b3
    <3>1. (k - 1) * 8 + 4 - 1 = 6 * (4 * g + 3) + 1
      OBVIOUS
    <3> HIDE DEF k
    <3> QED
      BY ONLY <1>5, <3>1
  <2>6. Bit(s, 6, (k - 1) * 8 + 5 - 1) = b4
    <3>1. (k - 1) * 8 + 5 - 1 = 6 * (4 * g + 3) + 2
      OBVIOUS
    <3> HIDE DEF k
    <3> QED
      BY ONLY <1>5, <3>1
  <2>7. Bit(s, 6, (k - 1) * 8 + 6 - 1) = b5
    <3>1. (k - 1) * 8 + 6 - 1 = 6 * (4 * g + 3) + 3
      OBVIOUS
    <3> HIDE DEF k
    <3> QED
      BY ONLY <1>5, <3>1
  <2>8. Bit(s, 6, (k - 1) * 8 + 7 - 1) = b6
    <3>1. (k - 1) * 8 + 7 - 1 = 6 * (4 * g + 3) + 4
      OBVIOUS
    <3> HIDE DEF k
    <3> QED
      BY ONLY <1>5, <3>1
  <2>9. Bit(s, 6, (k - 1) * 8 + 8 - 1) = b7
    <3>1. (k - 1) * 8 + 8 - 1 = 6 * (4 * g + 3) + 5
      OBVIOUS
    <3> HIDE DEF k
    <3> QED
      BY ONLY <1>5, <3>1
  <2> HIDE DEF k
  <2>10. EightBitsAre(s, 6, k, b0, b1, b2, b3, b4, b5, b6, b7)
    BY ONLY <2>1, <2>2, <2>3, <2>4, <2>5, <2>6, <2>7, <2>8, <2>9 DEF EightBitsAre
  <2>11. Digit(s, 6, 8, k) = 128 * b0 + 64 * b1 + 32 * b2 + 16 * b3 + 8 * b4 + 4 * b5 + 2 * b6 + b7
    BY ONLY <2>10, EightBits
  <2>12. 2 * b0 + b1 = C % 4
    BY ONLY <1>1, SymbolSums DEF b0, b1
  <2>13. 32 * b2 + 16 * b3 + 8 * b4 + 4 * b5 + 2 * b6 + b7 = D
    BY ONLY <1>1, SymbolSums DEF b2, b3, b4, b5, b6, b7
  <2> QED
    <3> HIDE DEF b0, b1, b2, b3, b4, b5, b6, b7
    <3>1. Digit(s, 6, 8, k) = (C % 4) * 64 + D
      BY ONLY <1>1, <2>1, <2>11, <2>12, <2>13
    <3> QED
      BY <3>1 DEF k
<1> QED
  BY <1>6, <1>7, <1>8 DEF A, B, C, D

-----------------------------------------------------------------------------
(* The symbols of a datum and the bytes of symbols.                        *)

LEMMA OctetsInSymbols ==
    ASSUME NEW a \in Octet, NEW b \in Octet
    PROVE  /\ a \div 4 \in Symbol /\ (a % 4) * 16 + b \div 16 \in Symbol
           /\ (a % 16) * 4 + b \div 64 \in Symbol /\ a % 64 \in Symbol
           /\ (a \div 4) * 4 + ((a % 4) * 16 + b \div 16) \div 16 = a
           /\ ((b % 4) * 16 + a \div 16) % 16 = a \div 16
           /\ ((a % 16) * 4 + b \div 64) \div 4 = a % 16
           /\ (a \div 16) * 16 + (a % 16) = a
           /\ ((b % 16) * 4 + a \div 64) % 4 = a \div 64
           /\ (a \div 64) * 64 + (a % 64) = a
  BY DEF Octet, Symbol

LEMMA SymbolsInOctets ==
    ASSUME NEW a \in Symbol, NEW b \in Symbol
    PROVE  /\ a * 4 + b \div 16 \in Octet /\ (a % 16) * 16 + b \div 4 \in Octet
           /\ (a % 4) * 64 + b \in Octet
           /\ (a * 4 + b \div 16) \div 4 = a
           /\ ((b * 4 + a \div 16) % 4) = a \div 16
           /\ ((a % 16) * 16 + b \div 4) \div 16 = a % 16
           /\ (a \div 16) * 16 + (a % 16) = a
           /\ ((b % 16) * 16 + a \div 4) % 16 = a \div 4
           /\ ((a % 4) * 64 + b) \div 64 = a % 4 /\ ((a % 4) * 64 + b) % 64 = b
           /\ (a \div 4) * 4 + (a % 4) = a
  BY DEF Octet, Symbol

LEMMA FourCases ==
    ASSUME NEW k \in Nat \ {0}
    PROVE  \E g \in Nat : k = 4 * g + 1 \/ k = 4 * g + 2 \/ k = 4 * g + 3 \/ k = 4 * g + 4
<1> DEFINE g == (k - 1) \div 4
<1>1. g \in Nat /\ (k = 4 * g + 1 \/ k = 4 * g + 2 \/ k = 4 * g + 3 \/ k = 4 * g + 4)
  OBVIOUS
<1> QED
  BY <1>1

LEMMA ThreeCases ==
    ASSUME NEW k \in Nat \ {0}
    PROVE  \E g \in Nat : k = 3 * g + 1 \/ k = 3 * g + 2 \/ k = 3 * g + 3
<1> DEFINE g == (k - 1) \div 3
<1>1. g \in Nat /\ (k = 3 * g + 1 \/ k = 3 * g + 2 \/ k = 3 * g + 3)
  OBVIOUS
<1> QED
  BY <1>1

LEMMA FilledIs ==
    ASSUME NEW d \in Seq(Octet)
    PROVE  LET y == Filled(d, 8, 6)
           IN /\ y \in Seq(Symbol) /\ Len(y) = (8 * Len(d) + 5) \div 6
              /\ \A k \in 1..Len(y) : y[k] = Digit(d, 8, 6, k)
<1> DEFINE m == (8 * Len(d) + 5) \div 6
           y == Filled(d, 8, 6)
<1>1. Len(d) \in Nat /\ m \in Nat
  OBVIOUS
<1>2. ASSUME NEW k \in Nat \ {0} PROVE Digit(d, 8, 6, k) \in Symbol
  <2>1. PICK g \in Nat : k = 4 * g + 1 \/ k = 4 * g + 2 \/ k = 4 * g + 3 \/ k = 4 * g + 4
    BY FourCases
  <2> DEFINE A == ElementAt(d, 3 * g + 0)
             B == ElementAt(d, 3 * g + 1)
             C == ElementAt(d, 3 * g + 2)
  <2>2. A \in Octet /\ B \in Octet /\ C \in Octet
    BY 0 \in Octet, 3 * g + 0 \in Nat, 3 * g + 1 \in Nat, 3 * g + 2 \in Nat, ElementIn DEF Octet
  <2>3. /\ Digit(d, 8, 6, 4 * g + 1) = A \div 4
        /\ Digit(d, 8, 6, 4 * g + 2) = (A % 4) * 16 + B \div 16
        /\ Digit(d, 8, 6, 4 * g + 3) = (B % 16) * 4 + C \div 64
        /\ Digit(d, 8, 6, 4 * g + 4) = C % 64
    BY GroupOfBytes DEF Octet
  <2> HIDE DEF A, B, C
  <2>4. /\ A \div 4 \in Symbol /\ (A % 4) * 16 + B \div 16 \in Symbol
        /\ (B % 16) * 4 + C \div 64 \in Symbol /\ C % 64 \in Symbol
    BY ONLY <2>2, OctetsInSymbols
  <2> QED
    BY ONLY <2>1, <2>3, <2>4
<1>3. y = [k \in 1..m |-> Digit(d, 8, 6, k)]
  BY DEF Filled
<1> HIDE DEF m, y
<1>4. IsStr(y) /\ Len(y) = m /\ \A k \in 1..m : y[k] = Digit(d, 8, 6, k)
  <2>1. \A k \in 1..m : y[k] = Digit(d, 8, 6, k)
    BY <1>3
  <2>2. y = [k \in 1..m |-> y[k]]
    BY <1>3
  <2> QED
    BY ONLY <1>1, <2>1, <2>2, FunctionIsStr
<1>5. y \in Seq(Symbol)
  <2>1. \A k \in 1..m : y[k] \in Symbol
    BY <1>1, <1>2, <1>4
  <2> QED
    BY ONLY <1>4, <2>1, StrSub
<1> QED
  BY <1>4, <1>5 DEF m, y

LEMMA WholeIs ==
    ASSUME NEW x \in Seq(Symbol)
    PROVE  LET z == Whole(x, 6, 8)
           IN /\ z \in Seq(Octet) /\ Len(z) = (6 * Len(x)) \div 8
              /\ \A k \in 1..Len(z) : z[k] = Digit(x, 6, 8, k)
<1> DEFINE m == (6 * Len(x)) \div 8
           z == Whole(x, 6, 8)
<1>1. Len(x) \in Nat /\ m \in Nat
  OBVIOUS
<1>2. ASSUME NEW k \in Nat \ {0} PROVE Digit(x, 6, 8, k) \in Octet
  <2>1. PICK g \in Nat : k = 3 * g + 1 \/ k = 3 * g + 2 \/ k = 3 * g + 3
    BY ThreeCases
  <2> DEFINE A == ElementAt(x, 4 * g + 0)
             B == ElementAt(x, 4 * g + 1)
             C == ElementAt(x, 4 * g + 2)
             D == ElementAt(x, 4 * g + 3)
  <2>2. A \in Symbol /\ B \in Symbol /\ C \in Symbol /\ D \in Symbol
    BY 0 \in Symbol, 4 * g + 0 \in Nat, 4 * g + 1 \in Nat, 4 * g + 2 \in Nat, 4 * g + 3 \in Nat,
       ElementIn DEF Symbol
  <2>3. /\ Digit(x, 6, 8, 3 * g + 1) = A * 4 + B \div 16
        /\ Digit(x, 6, 8, 3 * g + 2) = (B % 16) * 16 + C \div 4
        /\ Digit(x, 6, 8, 3 * g + 3) = (C % 4) * 64 + D
    BY GroupOfSymbols DEF Symbol
  <2> HIDE DEF A, B, C, D
  <2>4. A * 4 + B \div 16 \in Octet /\ (B % 16) * 16 + C \div 4 \in Octet /\ (C % 4) * 64 + D \in Octet
    BY ONLY <2>2, SymbolsInOctets
  <2> QED
    BY ONLY <2>1, <2>3, <2>4
<1>3. z = [k \in 1..m |-> Digit(x, 6, 8, k)]
  BY DEF Whole
<1> HIDE DEF m, z
<1>4. IsStr(z) /\ Len(z) = m /\ \A k \in 1..m : z[k] = Digit(x, 6, 8, k)
  <2>1. \A k \in 1..m : z[k] = Digit(x, 6, 8, k)
    BY <1>3
  <2>2. z = [k \in 1..m |-> z[k]]
    BY <1>3
  <2> QED
    BY ONLY <1>1, <2>1, <2>2, FunctionIsStr
<1>5. z \in Seq(Octet)
  <2>1. \A k \in 1..m : z[k] \in Octet
    BY <1>1, <1>2, <1>4
  <2> QED
    BY ONLY <1>4, <2>1, StrSub
<1> QED
  BY <1>4, <1>5 DEF m, z

\* What is written and read again.
LEMMA WholeOfFilled ==
    ASSUME NEW d \in Seq(Octet)
    PROVE  Whole(Filled(d, 8, 6), 6, 8) = d
<1> DEFINE y == Filled(d, 8, 6)
           n == Len(d)
           m == Len(y)
           z == Whole(y, 6, 8)
<1>1. n \in Nat /\ y \in Seq(Symbol) /\ m = (8 * n + 5) \div 6 /\ m \in Nat
      /\ \A k \in 1..m : y[k] = Digit(d, 8, 6, k)
  BY FilledIs
<1> HIDE DEF y
<1>2. z \in Seq(Octet) /\ Len(z) = (6 * m) \div 8 /\ \A k \in 1..Len(z) : z[k] = Digit(y, 6, 8, k)
  BY ONLY <1>1, WholeIs
<1> HIDE DEF m, n, z
<1>3. Len(z) = n
  BY ONLY <1>1, <1>2
<1>4. ASSUME NEW k \in 1..n PROVE z[k] = d[k]
  <2>1. PICK g \in Nat : k = 3 * g + 1 \/ k = 3 * g + 2 \/ k = 3 * g + 3
    <3>1. k \in Nat \ {0}
      BY <1>1
    <3> QED
      BY <3>1, ThreeCases
  <2> DEFINE A == ElementAt(d, 3 * g + 0)
             B == ElementAt(d, 3 * g + 1)
             C == ElementAt(d, 3 * g + 2)
             P == ElementAt(y, 4 * g + 0)
             Q == ElementAt(y, 4 * g + 1)
             R == ElementAt(y, 4 * g + 2)
             S == ElementAt(y, 4 * g + 3)
  <2>2. A \in Octet /\ B \in Octet /\ C \in Octet
    BY 0 \in Octet, 3 * g + 0 \in Nat, 3 * g + 1 \in Nat, 3 * g + 2 \in Nat, ElementIn DEF Octet
  <2>3. /\ Digit(d, 8, 6, 4 * g + 1) = A \div 4
        /\ Digit(d, 8, 6, 4 * g + 2) = (A % 4) * 16 + B \div 16
        /\ Digit(d, 8, 6, 4 * g + 3) = (B % 16) * 4 + C \div 64
        /\ Digit(d, 8, 6, 4 * g + 4) = C % 64
    BY GroupOfBytes DEF Octet
  <2>4. /\ Digit(y, 6, 8, 3 * g + 1) = P * 4 + Q \div 16
        /\ Digit(y, 6, 8, 3 * g + 2) = (Q % 16) * 16 + R \div 4
        /\ Digit(y, 6, 8, 3 * g + 3) = (R % 4) * 64 + S
    BY <1>1, GroupOfSymbols DEF Symbol
  <2>5. /\ 4 * g + 0 < m => P = Digit(d, 8, 6, 4 * g + 1)
        /\ 4 * g + 1 < m => Q = Digit(d, 8, 6, 4 * g + 2)
        /\ 4 * g + 2 < m => R = Digit(d, 8, 6, 4 * g + 3)
        /\ 4 * g + 3 < m => S = Digit(d, 8, 6, 4 * g + 4)
    BY <1>1 DEF ElementAt, m
  <2>6. /\ k = 3 * g + 1 => d[k] = A
        /\ k = 3 * g + 2 => d[k] = B
        /\ k = 3 * g + 3 => d[k] = C
    BY <1>1 DEF ElementAt, n
  <2> HIDE DEF A, B, C, P, Q, R, S
  <2>7. z[k] = Digit(y, 6, 8, k)
    BY ONLY <1>2, <1>3, k \in 1..n
  <2>8. CASE k = 3 * g + 1
    <3>1. 4 * g + 0 < m /\ 4 * g + 1 < m
      BY ONLY <1>1, <2>8, k \in 1..n, g \in Nat
    <3>2. P = A \div 4 /\ Q = (A % 4) * 16 + B \div 16
      BY ONLY <2>3, <2>5, <3>1
    <3>3. P * 4 + Q \div 16 = A
      BY ONLY <2>2, <3>2, OctetsInSymbols
    <3> QED
      BY ONLY <2>4, <2>6, <2>7, <2>8, <3>3
  <2>9. CASE k = 3 * g + 2
    <3>1. 4 * g + 1 < m /\ 4 * g + 2 < m
      BY ONLY <1>1, <2>9, k \in 1..n, g \in Nat
    <3>2. Q = (A % 4) * 16 + B \div 16 /\ R = (B % 16) * 4 + C \div 64
      BY ONLY <2>3, <2>5, <3>1
    <3>4. Q % 16 = B \div 16 /\ R \div 4 = B % 16 /\ (B \div 16) * 16 + (B % 16) = B
      BY ONLY <2>2, <3>2, OctetsInSymbols
    <3>3. (Q % 16) * 16 + R \div 4 = B
      BY ONLY <3>4
    <3> QED
      BY ONLY <2>4, <2>6, <2>7, <2>9, <3>3
  <2>10. CASE k = 3 * g + 3
    <3>1. 4 * g + 2 < m /\ 4 * g + 3 < m
      BY ONLY <1>1, <2>10, k \in 1..n, g \in Nat
    <3>2. R = (B % 16) * 4 + C \div 64 /\ S = C % 64
      BY ONLY <2>3, <2>5, <3>1
    <3>4. R % 4 = C \div 64 /\ (C \div 64) * 64 + (C % 64) = C
      BY ONLY <2>2, <3>2, OctetsInSymbols
    <3>3. (R % 4) * 64 + S = C
      BY ONLY <3>2, <3>4
    <3> QED
      BY ONLY <2>4, <2>6, <2>7, <2>10, <3>3
  <2> QED
    BY <2>1, <2>8, <2>9, <2>10
<1>5. IsStr(z) /\ IsStr(d)
  BY <1>2, StrIn
<1>6. z = d
  BY ONLY <1>3, <1>4, <1>5, StrEqual DEF n
<1> QED
  BY <1>6 DEF z, y

\* The bits after the last whole byte are 0, and there are fewer than six.
Canonical(x) ==
    LET m == Len(x)
    IN \/ m % 4 = 0
       \/ m % 4 = 2 /\ x[m] % 16 = 0
       \/ m % 4 = 3 /\ x[m] % 4 = 0

LEMMA FilledOfWhole ==
    ASSUME NEW x \in Seq(Symbol)
    PROVE  /\ Filled(Whole(x, 6, 8), 8, 6) = x <=> Canonical(x)
           /\ Len(x) % 4 # 1 => Len(Filled(Whole(x, 6, 8), 8, 6)) = Len(x)
           /\ Len(Filled(Whole(x, 6, 8), 8, 6)) % 4 # 1
<1> DEFINE z == Whole(x, 6, 8)
           y == Filled(z, 8, 6)
           m == Len(x)
           n == Len(z)
<1>1. m \in Nat /\ IsStr(x) /\ \A k \in 1..m : x[k] \in Symbol
  <2>1. IsStr(x)
    BY StrIn
  <2> QED
    BY <2>1
<1>2. z \in Seq(Octet) /\ n \in Nat /\ n = (6 * m) \div 8
      /\ \A k \in 1..n : z[k] = Digit(x, 6, 8, k)
  BY WholeIs
<1> HIDE DEF z
<1>3. y \in Seq(Symbol) /\ IsStr(y) /\ Len(y) \in Nat /\ Len(y) = (8 * n + 5) \div 6
      /\ \A k \in 1..Len(y) : y[k] = Digit(z, 8, 6, k)
  <2>1. y \in Seq(Symbol) /\ Len(y) = (8 * n + 5) \div 6
      /\ \A k \in 1..Len(y) : y[k] = Digit(z, 8, 6, k)
    BY <1>2, FilledIs
  <2>2. IsStr(y)
    BY ONLY <2>1, StrIn
  <2> HIDE DEF y
  <2> QED
    BY <2>1, <2>2
<1> HIDE DEF y, m, n
<1>4. Len(y) % 4 # 1 /\ (Len(y) = m <=> m % 4 # 1)
  <2> DEFINE g == m \div 4
             l == Len(y)
  <2>1. g \in Nat /\ (m = 4 * g \/ m = 4 * g + 1 \/ m = 4 * g + 2 \/ m = 4 * g + 3)
    BY <1>1
  <2>2. n = (6 * m) \div 8 /\ l = (8 * n + 5) \div 6
    BY <1>2, <1>3
  <2> HIDE DEF g, l
  <2>3. CASE m = 4 * g
    <3>1. n = 3 * g
      BY ONLY <2>1, <2>2, <2>3
    <3>2. l = 4 * g
      BY ONLY <2>1, <2>2, <3>1
    <3> QED
      BY ONLY <2>1, <2>3, <3>2 DEF l
  <2>4. CASE m = 4 * g + 1
    <3>1. n = 3 * g
      BY ONLY <2>1, <2>2, <2>4
    <3>2. l = 4 * g
      BY ONLY <2>1, <2>2, <3>1
    <3> QED
      BY ONLY <2>1, <2>4, <3>2 DEF l
  <2>5. CASE m = 4 * g + 2
    <3>1. n = 3 * g + 1
      BY ONLY <2>1, <2>2, <2>5
    <3>2. l = 4 * g + 2
      BY ONLY <2>1, <2>2, <3>1
    <3> QED
      BY ONLY <2>1, <2>5, <3>2 DEF l
  <2>6. CASE m = 4 * g + 3
    <3>1. n = 3 * g + 2
      BY ONLY <2>1, <2>2, <2>6
    <3>2. l = 4 * g + 3
      BY ONLY <2>1, <2>2, <3>1
    <3> QED
      BY ONLY <2>1, <2>6, <3>2 DEF l
  <2> QED
    BY <2>1, <2>3, <2>4, <2>5, <2>6
<1>5. ASSUME NEW k \in 1..m, m % 4 # 1
      PROVE  y[k] = IF k = m /\ m % 4 = 2 THEN (x[m] \div 16) * 16
                    ELSE IF k = m /\ m % 4 = 3 THEN (x[m] \div 4) * 4 ELSE x[k]
  <2>0. k \in Nat \ {0} /\ k <= m
    BY <1>1
  <2>1. PICK g \in Nat : k = 4 * g + 1 \/ k = 4 * g + 2 \/ k = 4 * g + 3 \/ k = 4 * g + 4
    BY <2>0, FourCases
  <2> DEFINE A == ElementAt(x, 4 * g + 0)
             B == ElementAt(x, 4 * g + 1)
             C == ElementAt(x, 4 * g + 2)
             D == ElementAt(x, 4 * g + 3)
             P == ElementAt(z, 3 * g + 0)
             Q == ElementAt(z, 3 * g + 1)
             R == ElementAt(z, 3 * g + 2)
  <2>2. A \in Symbol /\ B \in Symbol /\ C \in Symbol /\ D \in Symbol
    BY 0 \in Symbol, 4 * g + 0 \in Nat, 4 * g + 1 \in Nat, 4 * g + 2 \in Nat, 4 * g + 3 \in Nat,
       ElementIn DEF Symbol
  <2>3. /\ Digit(x, 6, 8, 3 * g + 1) = A * 4 + B \div 16
        /\ Digit(x, 6, 8, 3 * g + 2) = (B % 16) * 16 + C \div 4
        /\ Digit(x, 6, 8, 3 * g + 3) = (C % 4) * 64 + D
    BY GroupOfSymbols DEF Symbol
  <2>4. /\ Digit(z, 8, 6, 4 * g + 1) = P \div 4
        /\ Digit(z, 8, 6, 4 * g + 2) = (P % 4) * 16 + Q \div 16
        /\ Digit(z, 8, 6, 4 * g + 3) = (Q % 16) * 4 + R \div 64
        /\ Digit(z, 8, 6, 4 * g + 4) = R % 64
    BY <1>2, GroupOfBytes DEF Octet
  <2>5. /\ 3 * g + 0 < n => P = Digit(x, 6, 8, 3 * g + 1)
        /\ 3 * g + 1 < n => Q = Digit(x, 6, 8, 3 * g + 2)
        /\ 3 * g + 2 < n => R = Digit(x, 6, 8, 3 * g + 3)
        /\ ~(3 * g + 0 < n) => P = 0
        /\ ~(3 * g + 1 < n) => Q = 0
        /\ ~(3 * g + 2 < n) => R = 0
    BY <1>2 DEF ElementAt, n
  <2>6. /\ k = 4 * g + 1 => x[k] = A
        /\ k = 4 * g + 2 => x[k] = B
        /\ k = 4 * g + 3 => x[k] = C
        /\ k = 4 * g + 4 => x[k] = D
    BY <2>0 DEF ElementAt, m
  <2> HIDE DEF A, B, C, D, P, Q, R
  <2>7. y[k] = Digit(z, 8, 6, k)
    BY ONLY <1>3, <1>4, <1>5, k \in 1..m
  <2>8. CASE k = 4 * g + 1
    <3>1. 3 * g + 0 < n /\ ~(k = m /\ m % 4 = 2) /\ ~(k = m /\ m % 4 = 3)
      BY ONLY <1>1, <1>2, <1>5, <2>0, <2>8, g \in Nat
    <3>2. P = A * 4 + B \div 16
      BY ONLY <2>3, <2>5, <3>1
    <3>3. P \div 4 = A
      BY ONLY <2>2, <3>2, SymbolsInOctets
    <3>4. y[k] = x[k]
      BY ONLY <2>4, <2>6, <2>7, <2>8, <3>3
    <3> QED
      BY ONLY <3>1, <3>4
  <2>9. CASE k = 4 * g + 2
    <3>1. 3 * g + 0 < n /\ ~(k = m /\ m % 4 = 3)
      BY ONLY <1>1, <1>2, <1>5, <2>0, <2>9, g \in Nat
    <3>2. P = A * 4 + B \div 16
      BY ONLY <2>3, <2>5, <3>1
    <3>3. P % 4 = B \div 16 /\ (B \div 16) * 16 + (B % 16) = B
      BY ONLY <2>2, <3>2, SymbolsInOctets
    <3>4. CASE k = m
      <4>1. m % 4 = 2 /\ ~(3 * g + 1 < n)
        BY ONLY <1>1, <1>2, <2>9, <3>4, g \in Nat
      <4>2. Q \div 16 = 0
        BY ONLY <2>5, <4>1
      <4>3. y[k] = (B \div 16) * 16
        <5>1. y[k] = (P % 4) * 16 + Q \div 16
          BY ONLY <2>4, <2>7, <2>9
        <5>2. B \div 16 \in Int
          BY <2>2 DEF Symbol
        <5> QED
          BY ONLY <5>1, <5>2, <4>2, <3>3
      <4> QED
        BY ONLY <2>6, <2>9, <3>4, <4>1, <4>3
    <3>5. CASE k # m
      <4>1. 3 * g + 1 < n
        BY ONLY <1>1, <1>2, <2>0, <2>9, <3>5, g \in Nat
      <4>2. Q = (B % 16) * 16 + C \div 4
        BY ONLY <2>3, <2>5, <4>1
      <4>3. Q \div 16 = B % 16
        BY ONLY <2>2, <4>2, SymbolsInOctets
      <4>4. y[k] = x[k]
        BY ONLY <2>4, <2>6, <2>7, <2>9, <3>3, <4>3
      <4> QED
        BY ONLY <3>5, <4>4
    <3> QED
      BY <3>4, <3>5
  <2>10. CASE k = 4 * g + 3
    <3>1. 3 * g + 1 < n /\ ~(k = m /\ m % 4 = 2)
      BY ONLY <1>1, <1>2, <1>5, <2>0, <2>10, g \in Nat
    <3>2. Q = (B % 16) * 16 + C \div 4
      BY ONLY <2>3, <2>5, <3>1
    <3>3. Q % 16 = C \div 4 /\ (C \div 4) * 4 + (C % 4) = C
      BY ONLY <2>2, <3>2, SymbolsInOctets
    <3>4. CASE k = m
      <4>1. m % 4 = 3 /\ ~(3 * g + 2 < n)
        BY ONLY <1>1, <1>2, <2>10, <3>4, g \in Nat
      <4>2. R \div 64 = 0
        BY ONLY <2>5, <4>1
      <4>3. y[k] = (C \div 4) * 4
        <5>1. y[k] = (Q % 16) * 4 + R \div 64
          BY ONLY <2>4, <2>7, <2>10
        <5>2. C \div 4 \in Int
          BY <2>2 DEF Symbol
        <5> QED
          BY ONLY <5>1, <5>2, <4>2, <3>3
      <4> QED
        BY ONLY <2>6, <2>10, <3>4, <4>1, <4>3
    <3>5. CASE k # m
      <4>1. 3 * g + 2 < n
        BY ONLY <1>1, <1>2, <2>0, <2>10, <3>5, g \in Nat
      <4>2. R = (C % 4) * 64 + D
        BY ONLY <2>3, <2>5, <4>1
      <4>3. R \div 64 = C % 4
        BY ONLY <2>2, <4>2, SymbolsInOctets
      <4>4. y[k] = x[k]
        BY ONLY <2>4, <2>6, <2>7, <2>10, <3>3, <4>3
      <4> QED
        BY ONLY <3>5, <4>4
    <3> QED
      BY <3>4, <3>5
  <2>11. CASE k = 4 * g + 4
    <3>1. 3 * g + 2 < n /\ ~(k = m /\ m % 4 = 2) /\ ~(k = m /\ m % 4 = 3)
      BY ONLY <1>1, <1>2, <1>5, <2>0, <2>11, g \in Nat
    <3>2. R = (C % 4) * 64 + D
      BY ONLY <2>3, <2>5, <3>1
    <3>3. R % 64 = D
      BY ONLY <2>2, <3>2, SymbolsInOctets
    <3>4. y[k] = x[k]
      BY ONLY <2>4, <2>6, <2>7, <2>11, <3>3
    <3> QED
      BY ONLY <3>1, <3>4
  <2> QED
    BY <2>1, <2>8, <2>9, <2>10, <2>11
<1>6. m % 4 # 0 => m \in 1..m /\ x[m] \in Symbol
  BY <1>1
<1>7. ASSUME y = x PROVE Canonical(x)
  <2>1. m % 4 # 1
    BY ONLY <1>4, <1>7 DEF m
  <2>2. CASE m % 4 = 2
    <3>1. x[m] = (x[m] \div 16) * 16
      BY ONLY <1>5, <1>6, <1>7, <2>2
    <3>2. x[m] % 16 = 0
      <4> DEFINE a == x[m]
      <4>1. a \in 0..63
        BY <1>6, <2>2 DEF Symbol
      <4>2. a = (a \div 16) * 16
        BY <3>1
      <4> HIDE DEF a
      <4>3. a % 16 = 0
        BY ONLY <4>1, <4>2
      <4> QED
        BY <4>3 DEF a
    <3> QED
      BY ONLY <2>2, <3>2 DEF Canonical, m
  <2>3. CASE m % 4 = 3
    <3>1. x[m] = (x[m] \div 4) * 4
      BY ONLY <1>5, <1>6, <1>7, <2>3
    <3>2. x[m] % 4 = 0
      <4> DEFINE a == x[m]
      <4>1. a \in 0..63
        BY <1>6, <2>3 DEF Symbol
      <4>2. a = (a \div 4) * 4
        BY <3>1
      <4> HIDE DEF a
      <4>3. a % 4 = 0
        BY ONLY <4>1, <4>2
      <4> QED
        BY <4>3 DEF a
    <3> QED
      BY ONLY <2>3, <3>2 DEF Canonical, m
  <2>4. CASE m % 4 = 0
    BY ONLY <2>4 DEF Canonical, m
  <2>5. m % 4 = 0 \/ m % 4 = 1 \/ m % 4 = 2 \/ m % 4 = 3
    BY <1>1
  <2> QED
    BY <2>1, <2>2, <2>3, <2>4, <2>5
<1>8. ASSUME Canonical(x) PROVE y = x
  <2>1. m % 4 # 1 /\ (m % 4 = 2 => x[m] % 16 = 0) /\ (m % 4 = 3 => x[m] % 4 = 0)
    BY ONLY <1>8 DEF Canonical, m
  <2>2. ASSUME NEW k \in 1..m PROVE y[k] = x[k]
    <3>1. CASE k = m /\ m % 4 = 2
      <4> DEFINE a == x[m]
      <4>1. a \in 0..63 /\ a % 16 = 0
        BY <1>6, <2>1, <3>1 DEF Symbol
      <4>2. y[k] = (a \div 16) * 16
        BY ONLY <1>5, <2>1, <3>1, k \in 1..m
      <4> HIDE DEF a
      <4>3. y[k] = a
        BY ONLY <4>1, <4>2
      <4> QED
        BY <3>1, <4>3 DEF a
    <3>2. CASE k = m /\ m % 4 = 3
      <4> DEFINE a == x[m]
      <4>1. a \in 0..63 /\ a % 4 = 0
        BY <1>6, <2>1, <3>2 DEF Symbol
      <4>2. y[k] = (a \div 4) * 4
        BY ONLY <1>5, <2>1, <3>2, k \in 1..m
      <4> HIDE DEF a
      <4>3. y[k] = a
        BY ONLY <4>1, <4>2
      <4> QED
        BY <3>2, <4>3 DEF a
    <3> QED
      BY ONLY <1>5, <2>1, <3>1, <3>2, k \in 1..m
  <2>3. Len(y) = m
    BY <1>4, <2>1
  <2> QED
    BY ONLY <1>1, <1>3, <2>2, <2>3, StrEqual DEF m
<1> QED
  BY <1>4, <1>7, <1>8 DEF m, y, z

-----------------------------------------------------------------------------
\* The first m characters of the text of x.
Spread(x, m, p) == [j \in 1..m |-> IF Ends(j, p) THEN NL ELSE x[Index(j, p)]]

LEMMA SpreadIs ==
    ASSUME NEW x, NEW m \in Nat, NEW p
    PROVE  /\ IsStr(Spread(x, m, p)) /\ Len(Spread(x, m, p)) = m
           /\ \A j \in 1..m : Spread(x, m, p)[j] = IF Ends(j, p) THEN NL ELSE x[Index(j, p)]
<1> DEFINE s == Spread(x, m, p)
<1>1. s = [j \in 1..m |-> IF Ends(j, p) THEN NL ELSE x[Index(j, p)]]
  BY DEF Spread
<1> HIDE DEF s
<1>2. s = [j \in 1..m |-> s[j]] /\ \A j \in 1..m : s[j] = IF Ends(j, p) THEN NL ELSE x[Index(j, p)]
  BY <1>1
<1>3. IsStr(s) /\ Len(s) = m
  BY ONLY <1>2, m \in Nat, FunctionIsStr
<1> QED
  BY <1>2, <1>3 DEF s

\* Symbols filled to groups of four.
Chars(y) == y \o [i \in 1 .. (4 - (Len(y) % 4)) % 4 |-> PAD]

LEMMA CharsIs ==
    ASSUME NEW y, IsStr(y)
    PROVE  /\ IsStr(Chars(y)) /\ Len(y) \in Nat /\ Len(Chars(y)) \in Nat
           /\ Len(Chars(y)) = Len(y) + ((4 - (Len(y) % 4)) % 4) /\ Len(Chars(y)) % 4 = 0
           /\ \A i \in 1..Len(Chars(y)) : Chars(y)[i] = IF i <= Len(y) THEN y[i] ELSE PAD
<1> DEFINE m == Len(y)
           q == (4 - (Len(y) % 4)) % 4
           f == [i \in 1..q |-> PAD]
<1>1. m \in Nat
  BY StrIs
<1>2. q \in Nat /\ (m + q) % 4 = 0
  <2> HIDE DEF m
  <2> QED
    BY <1>1 DEF q, m
<1>3. IsStr(f) /\ Len(f) = q /\ \A i \in 1..q : f[i] = PAD
  <2>1. f = [i \in 1..q |-> f[i]] /\ \A i \in 1..q : f[i] = PAD
    OBVIOUS
  <2> HIDE DEF q, f
  <2> QED
    BY <1>2, <2>1, FunctionIsStr
<1>4. Chars(y) = y \o f
  BY DEF Chars
<1> HIDE DEF m, q, f
<1>5. /\ IsStr(y \o f) /\ Len(y \o f) = m + q
      /\ \A i \in 1..(m + q) : (y \o f)[i] = IF i <= m THEN y[i] ELSE f[i - m]
  BY ONLY <1>3, IsStr(y), StrCat DEF m
<1>6. ASSUME NEW i \in 1..(m + q), ~(i <= m) PROVE i - m \in 1..q
  BY <1>1, <1>2, <1>6
<1>7. \A i \in 1..(m + q) : (y \o f)[i] = IF i <= m THEN y[i] ELSE PAD
  BY ONLY <1>3, <1>5, <1>6
<1>8. m + q \in Nat
  BY <1>1, <1>2
<1> QED
  BY <1>1, <1>2, <1>4, <1>5, <1>7, <1>8 DEF m, q

TextOf(d, p) == Text(d, p = 1)

LEMMA TextIs ==
    ASSUME NEW d, NEW p, NEW y, y = Filled(d, 8, 6), IsStr(y)
    PROVE  TextOf(d, p) = IF p = 1 THEN Append(Spread(Chars(y), Place(Len(Chars(y)), p), p), NL)
                          ELSE y
<1> DEFINE chr == Chars(y)
           n == Len(chr)
           l == n + IF n = 0 THEN 1 ELSE (n + LineLen - 1) \div LineLen
           g == [i \in 1..l |-> IF LineEnd(i) \/ i > n + (n - 1) \div LineLen THEN NL
                                ELSE chr[i - i \div (LineLen + 1)]]
<1>1. TextOf(d, p) = IF p = 1 THEN g ELSE y
  BY DEF TextOf, Text, Chars
<1>2. IsStr(chr) /\ n \in Nat
  BY CharsIs
<1>3. LineLen \in Nat \ {0}
  BY LineAssumption
<1> HIDE DEF n, chr
<1>4. CASE p = 1
  <2> DEFINE c == Place(n, p)
             s == Spread(chr, c, p)
             t == Append(s, NL)
             h(i) == IF LineEnd(i) \/ i > n + (n - 1) \div LineLen THEN NL
                     ELSE chr[i - i \div (LineLen + 1)]
  <2>1. c \in Nat /\ l = c + 1 /\ \A i \in 1..l : i > n + (n - 1) \div LineLen <=> i > c
    <3>1. CASE n = 0
      <4>1. c = 0 /\ l = 1
        BY <3>1 DEF Place
      <4>2. (0 - 1) \div LineLen < 1 /\ (0 - 1) \div LineLen \in Int
        BY <1>3
      <4>3. n - 1 = 0 - 1
        BY <3>1
      <4>4. n + (n - 1) \div LineLen < 1 /\ n + (n - 1) \div LineLen \in Int
        BY <3>1, <4>2, <4>3
      <4> HIDE DEF c, l
      <4> QED
        BY <4>1, <4>4
    <3>2. CASE n # 0
      <4> DEFINE a == n - 1
                 u == a \div LineLen
                 r == a - u * LineLen
                 v == u + 1
                 e == n + LineLen - 1
      <4>1. a \in Nat
        BY <1>2, <3>2
      <4>2. u \in Nat /\ u * LineLen <= a /\ a < u * LineLen + LineLen
        <5> HIDE DEF a
        <5> QED
          BY <1>3, <4>1, Quotient
      <4>3. c = n + u
        BY <1>2, <1>4, <3>2 DEF Place
      <4>4. n + (n - 1) \div LineLen = n + u /\ l = n + e \div LineLen
        BY <3>2
      <4> HIDE DEF u
      <4>5. u * LineLen \in Nat /\ v * LineLen = u * LineLen + LineLen
        BY <1>3, <4>2
      <4>6. v \in Nat /\ r \in Nat /\ r < LineLen /\ e = v * LineLen + r /\ e \in Nat
        BY <1>2, <1>3, <4>1, <4>2, <4>5
      <4> HIDE DEF r, e, v
      <4>7. e \div LineLen = v
        BY ONLY <1>3, <4>6, QuotientIs
      <4> HIDE DEF c, l
      <4> QED
        BY ONLY <1>2, <4>2, <4>3, <4>4, <4>7 DEF v
    <3> QED
      BY <3>1, <3>2
  <2>2. g = [i \in 1..l |-> h(i)]
    OBVIOUS
  <2>3. IsStr(s) /\ Len(s) = c /\ \A j \in 1..c : s[j] = IF Ends(j, p) THEN NL ELSE chr[Index(j, p)]
    BY <2>1, SpreadIs
  <2>4. IsStr(t) /\ Len(t) = c + 1 /\ t[c + 1] = NL /\ \A j \in 1..c : t[j] = s[j]
    <3>1. PICK S : s \in Seq(S)
      BY <2>3 DEF IsStr
    <3>2. s \in Seq(S \cup {NL})
      BY <3>1
    <3> HIDE DEF s
    <3>3. t \in Seq(S \cup {NL}) /\ Len(t) = c + 1 /\ t[c + 1] = NL /\ \A j \in 1..c : t[j] = s[j]
      BY <2>3, <3>2
    <3> QED
      BY <3>3, StrIn
  <2> HIDE DEF c, l, s, t
  <2>5. ASSUME NEW i \in 1..(c + 1) PROVE h(i) = t[i]
    <3>1. CASE i = c + 1
      <4>1. i > c /\ i \in 1..l
        BY <2>1, <3>1
      <4> QED
        BY ONLY <2>1, <2>4, <3>1, <4>1
    <3>2. CASE i # c + 1
      <4>1. i \in 1..c /\ ~(i > c) /\ i \in 1..l
        BY <2>1, <3>2
      <4>2. t[i] = IF LineEnd(i) THEN NL ELSE chr[i - i \div (LineLen + 1)]
        BY ONLY <1>4, <2>3, <2>4, <4>1 DEF Ends, Index
      <4> QED
        BY ONLY <2>1, <4>1, <4>2
    <3> QED
      BY <3>1, <3>2
  <2> HIDE DEF h
  <2>6. g = [i \in 1..(c + 1) |-> g[i]] /\ \A i \in 1..(c + 1) : g[i] = h(i)
    BY ONLY <2>1, <2>2
  <2>7. IsStr(g) /\ Len(g) = c + 1
    BY ONLY <2>1, <2>6, FunctionIsStr, c + 1 \in Nat
  <2> HIDE DEF g
  <2>8. g = t
    BY ONLY <2>4, <2>5, <2>6, <2>7, StrEqual
  <2> QED
    BY <1>1, <1>4, <2>8 DEF t, s, c, n, chr
<1>5. CASE p # 1
  BY <1>1, <1>5
<1> QED
  BY <1>4, <1>5

\* h is what the fold of EncodeByte over s has after each step.
EncodeRun(h, D, z, s, p) ==
    /\ h[0] = z
    /\ \A i \in 0..Len(s) : h[i] \in D
    /\ \A i \in 1..Len(s) : h[i] = EncodeByte(h[i - 1], s[i], p = 1)

EncodeFold(z, s, p) == FoldLeft(LAMBDA e, c : EncodeByte(e, c, p = 1), z, s)

LEMMA EncodeFolds ==
    ASSUME NEW D, NEW z \in D, NEW s, IsStr(s), NEW p,
           \A x \in D : \A i \in 1..Len(s) : EncodeByte(x, s[i], p = 1) \in D
    PROVE  \E h : EncodeRun(h, D, z, s, p) /\ EncodeFold(z, s, p) = h[Len(s)]
<1> DEFINE n == Len(s)
           G == [i \in 1..n |-> [x \in D |-> EncodeByte(x, s[i], p = 1)]]
           It(f) == f = [T \in SUBSET DOMAIN s |->
                           IF T = {} THEN z
                           ELSE LET x == Max(T) IN EncodeByte(f[T \ {x}], s[x], p = 1)]
           f == CHOOSE f : It(f)
<1>1. n \in Nat /\ DOMAIN s = 1..n
  BY StrIs
<1>2. G \in [1..n -> [D -> D]]
  OBVIOUS
<1>3. \A i \in 1..n : \A x \in D : G[i][x] = EncodeByte(x, s[i], p = 1)
  OBVIOUS
<1> HIDE DEF n, G
<1>4. PICK g : g = [T \in SUBSET (1..n) |-> g[T]] /\ FoldsOver(g, n, D, z, G)
  BY ONLY <1>1, <1>2, z \in D, FoldExists DEF FoldTo
<1>5. \A T \in SUBSET (1..n) : T # {} => Max(T) \in 1..n /\ T \ {Max(T)} \in SUBSET (1..n)
  BY ONLY <1>1, MaxIsGreatest
<1>6. It(g)
  <2>1. ASSUME NEW T \in SUBSET (1..n)
        PROVE  g[T] = IF T = {} THEN z ELSE LET x == Max(T) IN EncodeByte(g[T \ {x}], s[x], p = 1)
    <3>1. CASE T = {}
      BY <1>4, <3>1 DEF FoldsOver
    <3>2. CASE T # {}
      <4>1. Max(T) \in 1..n /\ T \ {Max(T)} \in SUBSET (1..n)
        BY <1>5, <3>2
      <4>2. g[T \ {Max(T)}] \in D /\ g[T] = G[Max(T)][g[T \ {Max(T)}]]
        BY <1>4, <3>2, <4>1 DEF FoldsOver
      <4>3. g[T] = EncodeByte(g[T \ {Max(T)}], s[Max(T)], p = 1)
        BY ONLY <1>3, <4>1, <4>2
      <4> QED
        BY <3>2, <4>3
    <3> QED
      BY <3>1, <3>2
  <2> QED
    BY <1>1, <1>4, <2>1
<1>7. It(f)
  <2> HIDE DEF It
  <2> QED
    BY <1>6
<1>8. EncodeFold(z, s, p) = f[DOMAIN s]
  BY DEF EncodeFold, FoldLeft, MapThenFoldSet
<1> HIDE DEF f
<1>9. Stepping(f, n, D, z, G)
  <2>1. ASSUME NEW T \in SUBSET (1..n)
        PROVE  /\ T = {} => f[T] = z
               /\ T # {} /\ f[T \ {Max(T)}] \in D => f[T] = G[Max(T)][f[T \ {Max(T)}]]
    <3>1. f[T] = IF T = {} THEN z ELSE LET x == Max(T) IN EncodeByte(f[T \ {x}], s[x], p = 1)
      BY <1>1, <1>7
    <3> HIDE DEF It
    <3> QED
      BY ONLY <1>3, <1>5, <3>1
  <2> QED
    BY ONLY <2>1 DEF Stepping
<1> HIDE DEF It
<1>10. PICK h : FoldRun(h, n, D, z, G) /\ f[1..n] = h[n]
  BY ONLY <1>1, <1>2, <1>9, z \in D, FoldRuns
<1>11. \A i \in 1..n : h[i] = EncodeByte(h[i - 1], s[i], p = 1)
  <2>1. ASSUME NEW i \in 1..n PROVE h[i] = EncodeByte(h[i - 1], s[i], p = 1)
    <3>1. i - 1 \in 0..n
      BY <1>1
    <3>2. h[i] = G[i][h[i - 1]] /\ h[i - 1] \in D
      BY ONLY <1>10, <3>1, <2>1 DEF FoldRun
    <3> QED
      BY ONLY <1>3, <3>2, i \in 1..n
  <2> QED
    BY <2>1
<1>12. EncodeRun(h, D, z, s, p)
  BY ONLY <1>10, <1>11 DEF FoldRun, EncodeRun, n
<1> QED
  BY ONLY <1>1, <1>8, <1>10, <1>12 DEF n

\* The same of DecodeCharacter.
DecodeRun(h, D, z, s) ==
    /\ h[0] = z
    /\ \A i \in 0..Len(s) : h[i] \in D
    /\ \A i \in 1..Len(s) : h[i] = DecodeCharacter(h[i - 1], s[i])

LEMMA DecodeFolds ==
    ASSUME NEW D, NEW z \in D, NEW s, IsStr(s),
           \A x \in D : \A i \in 1..Len(s) : DecodeCharacter(x, s[i]) \in D
    PROVE  \E h : DecodeRun(h, D, z, s) /\ FoldLeft(DecodeCharacter, z, s) = h[Len(s)]
<1> DEFINE n == Len(s)
           G == [i \in 1..n |-> [x \in D |-> DecodeCharacter(x, s[i])]]
           It(f) == f = [T \in SUBSET DOMAIN s |->
                           IF T = {} THEN z
                           ELSE LET x == Max(T) IN DecodeCharacter(f[T \ {x}], s[x])]
           f == CHOOSE f : It(f)
<1>1. n \in Nat /\ DOMAIN s = 1..n
  BY StrIs
<1>2. G \in [1..n -> [D -> D]]
  OBVIOUS
<1>3. \A i \in 1..n : \A x \in D : G[i][x] = DecodeCharacter(x, s[i])
  OBVIOUS
<1> HIDE DEF n, G
<1>4. PICK g : g = [T \in SUBSET (1..n) |-> g[T]] /\ FoldsOver(g, n, D, z, G)
  BY ONLY <1>1, <1>2, z \in D, FoldExists DEF FoldTo
<1>5. \A T \in SUBSET (1..n) : T # {} => Max(T) \in 1..n /\ T \ {Max(T)} \in SUBSET (1..n)
  BY ONLY <1>1, MaxIsGreatest
<1>6. It(g)
  <2>1. ASSUME NEW T \in SUBSET (1..n)
        PROVE  g[T] = IF T = {} THEN z ELSE LET x == Max(T) IN DecodeCharacter(g[T \ {x}], s[x])
    <3>1. CASE T = {}
      BY <1>4, <3>1 DEF FoldsOver
    <3>2. CASE T # {}
      <4>1. Max(T) \in 1..n /\ T \ {Max(T)} \in SUBSET (1..n)
        BY <1>5, <3>2
      <4>2. g[T \ {Max(T)}] \in D /\ g[T] = G[Max(T)][g[T \ {Max(T)}]]
        BY <1>4, <3>2, <4>1 DEF FoldsOver
      <4>3. g[T] = DecodeCharacter(g[T \ {Max(T)}], s[Max(T)])
        BY ONLY <1>3, <4>1, <4>2
      <4> QED
        BY <3>2, <4>3
    <3> QED
      BY <3>1, <3>2
  <2> QED
    BY <1>1, <1>4, <2>1
<1>7. It(f)
  <2> HIDE DEF It
  <2> QED
    BY <1>6
<1>8. FoldLeft(DecodeCharacter, z, s) = f[DOMAIN s]
  BY DEF FoldLeft, MapThenFoldSet
<1> HIDE DEF f
<1>9. Stepping(f, n, D, z, G)
  <2>1. ASSUME NEW T \in SUBSET (1..n)
        PROVE  /\ T = {} => f[T] = z
               /\ T # {} /\ f[T \ {Max(T)}] \in D => f[T] = G[Max(T)][f[T \ {Max(T)}]]
    <3>1. f[T] = IF T = {} THEN z ELSE LET x == Max(T) IN DecodeCharacter(f[T \ {x}], s[x])
      BY <1>1, <1>7
    <3> HIDE DEF It
    <3> QED
      BY ONLY <1>3, <1>5, <3>1
  <2> QED
    BY ONLY <2>1 DEF Stepping
<1> HIDE DEF It
<1>10. PICK h : FoldRun(h, n, D, z, G) /\ f[1..n] = h[n]
  BY ONLY <1>1, <1>2, <1>9, z \in D, FoldRuns
<1>11. \A i \in 1..n : h[i] = DecodeCharacter(h[i - 1], s[i])
  <2>1. ASSUME NEW i \in 1..n PROVE h[i] = DecodeCharacter(h[i - 1], s[i])
    <3>1. i - 1 \in 0..n
      BY <1>1
    <3>2. h[i] = G[i][h[i - 1]] /\ h[i - 1] \in D
      BY ONLY <1>10, <3>1, <2>1 DEF FoldRun
    <3> QED
      BY ONLY <1>3, <3>2, i \in 1..n
  <2> QED
    BY <2>1
<1>12. DecodeRun(h, D, z, s)
  BY ONLY <1>10, <1>11 DEF FoldRun, DecodeRun, n
<1> QED
  BY ONLY <1>1, <1>8, <1>10, <1>12 DEF n

\* The same of SymbolIn.
SymbolRun(h, D, z, s) ==
    /\ h[0] = z
    /\ \A i \in 0..Len(s) : h[i] \in D
    /\ \A i \in 1..Len(s) : h[i] = SymbolIn(h[i - 1], s[i])

LEMMA SymbolFolds ==
    ASSUME NEW D, NEW z \in D, NEW s, IsStr(s),
           \A x \in D : \A i \in 1..Len(s) : SymbolIn(x, s[i]) \in D
    PROVE  \E h : SymbolRun(h, D, z, s) /\ FoldLeft(SymbolIn, z, s) = h[Len(s)]
<1> DEFINE n == Len(s)
           G == [i \in 1..n |-> [x \in D |-> SymbolIn(x, s[i])]]
           It(f) == f = [T \in SUBSET DOMAIN s |->
                           IF T = {} THEN z
                           ELSE LET x == Max(T) IN SymbolIn(f[T \ {x}], s[x])]
           f == CHOOSE f : It(f)
<1>1. n \in Nat /\ DOMAIN s = 1..n
  BY StrIs
<1>2. G \in [1..n -> [D -> D]]
  OBVIOUS
<1>3. \A i \in 1..n : \A x \in D : G[i][x] = SymbolIn(x, s[i])
  OBVIOUS
<1> HIDE DEF n, G
<1>4. PICK g : g = [T \in SUBSET (1..n) |-> g[T]] /\ FoldsOver(g, n, D, z, G)
  BY ONLY <1>1, <1>2, z \in D, FoldExists DEF FoldTo
<1>5. \A T \in SUBSET (1..n) : T # {} => Max(T) \in 1..n /\ T \ {Max(T)} \in SUBSET (1..n)
  BY ONLY <1>1, MaxIsGreatest
<1>6. It(g)
  <2>1. ASSUME NEW T \in SUBSET (1..n)
        PROVE  g[T] = IF T = {} THEN z ELSE LET x == Max(T) IN SymbolIn(g[T \ {x}], s[x])
    <3>1. CASE T = {}
      BY <1>4, <3>1 DEF FoldsOver
    <3>2. CASE T # {}
      <4>1. Max(T) \in 1..n /\ T \ {Max(T)} \in SUBSET (1..n)
        BY <1>5, <3>2
      <4>2. g[T \ {Max(T)}] \in D /\ g[T] = G[Max(T)][g[T \ {Max(T)}]]
        BY <1>4, <3>2, <4>1 DEF FoldsOver
      <4>3. g[T] = SymbolIn(g[T \ {Max(T)}], s[Max(T)])
        BY ONLY <1>3, <4>1, <4>2
      <4> QED
        BY <3>2, <4>3
    <3> QED
      BY <3>1, <3>2
  <2> QED
    BY <1>1, <1>4, <2>1
<1>7. It(f)
  <2> HIDE DEF It
  <2> QED
    BY <1>6
<1>8. FoldLeft(SymbolIn, z, s) = f[DOMAIN s]
  BY DEF FoldLeft, MapThenFoldSet
<1> HIDE DEF f
<1>9. Stepping(f, n, D, z, G)
  <2>1. ASSUME NEW T \in SUBSET (1..n)
        PROVE  /\ T = {} => f[T] = z
               /\ T # {} /\ f[T \ {Max(T)}] \in D => f[T] = G[Max(T)][f[T \ {Max(T)}]]
    <3>1. f[T] = IF T = {} THEN z ELSE LET x == Max(T) IN SymbolIn(f[T \ {x}], s[x])
      BY <1>1, <1>7
    <3> HIDE DEF It
    <3> QED
      BY ONLY <1>3, <1>5, <3>1
  <2> QED
    BY ONLY <2>1 DEF Stepping
<1> HIDE DEF It
<1>10. PICK h : FoldRun(h, n, D, z, G) /\ f[1..n] = h[n]
  BY ONLY <1>1, <1>2, <1>9, z \in D, FoldRuns
<1>11. \A i \in 1..n : h[i] = SymbolIn(h[i - 1], s[i])
  <2>1. ASSUME NEW i \in 1..n PROVE h[i] = SymbolIn(h[i - 1], s[i])
    <3>1. i - 1 \in 0..n
      BY <1>1
    <3>2. h[i] = G[i][h[i - 1]] /\ h[i - 1] \in D
      BY ONLY <1>10, <3>1, <2>1 DEF FoldRun
    <3> QED
      BY ONLY <1>3, <3>2, i \in 1..n
  <2> QED
    BY <2>1
<1>12. SymbolRun(h, D, z, s)
  BY ONLY <1>10, <1>11 DEF FoldRun, SymbolRun, n
<1> QED
  BY ONLY <1>1, <1>8, <1>10, <1>12 DEF n

\* After symbol c comes symbol c + 1, perhaps on the next line.
LEMMA PlaceNext ==
    ASSUME NEW c \in Nat, NEW p, NEW M, M = Place(c, p)
    PROVE  /\ M \in Nat /\ Index(M, p) = c /\ (M = 0 <=> c = 0) /\ (c = 0 => ~Ends(M + 1, p))
           /\ Ends(M + 1, p) => ~Ends(M + 2, p) /\ Place(c + 1, p) = M + 2 /\ Index(M + 2, p) = c + 1
           /\ ~Ends(M + 1, p) => Place(c + 1, p) = M + 1 /\ Index(M + 1, p) = c + 1
           /\ c % 4 # 0 => ~Ends(M + 1, p)
<1>1. M \in Nat /\ Index(M, p) = c /\ (M = 0 <=> c = 0) /\ (c # 0 => ~Ends(M, p))
  <2>1. CASE c = 0
    <3>1. Place(c, p) = 0
      BY <2>1 DEF Place
    <3> QED
      BY <2>1, <3>1, IndexSteps
  <2>2. CASE c # 0
    BY <2>2, IndexOfPlace
  <2> QED
    BY <2>1, <2>2
<1>2. c = 0 => ~Ends(M + 1, p)
  <2> DEFINE W == LineLen + 1
  <2>1. W \in Nat \ {0} /\ 1 < W /\ 0 * W = 0
    BY LineAssumption
  <2>2. 1 = 0 * W + 1
    BY <2>1
  <2> HIDE DEF W
  <2>3. 1 % W = 1
    BY ONLY <2>1, <2>2, QuotientIs, 0 \in Nat, 1 \in Nat
  <2>4. ~LineEnd(1)
    BY <2>3 DEF LineEnd, W
  <2>5. c = 0 => M + 1 = 1
    BY <1>1
  <2> QED
    BY <2>4, <2>5 DEF Ends
<1>3. /\ Index(M + 1, p) = IF Ends(M + 1, p) THEN Index(M, p) ELSE Index(M, p) + 1
      /\ Index(M + 1, p) \in Nat
  BY <1>1, M + 1 \in Nat, IndexSteps
<1>4. ASSUME Ends(M + 1, p)
      PROVE  ~Ends(M + 2, p) /\ Place(c + 1, p) = M + 2 /\ Index(M + 2, p) = c + 1 /\ c % 4 = 0
  <2> DEFINE K == M + 1
  <2>1. K \in Nat /\ K + 1 = M + 2 /\ Ends(K, p) /\ Index(K, p) = c
    BY <1>1, <1>3, <1>4
  <2> HIDE DEF K
  <2>2. /\ Index(K + 1, p) = IF Ends(K + 1, p) THEN Index(K, p) ELSE Index(K, p) + 1
        /\ ~Ends(K + 1, p) /\ Index(K, p) % 4 = 0
    BY ONLY <2>1, IndexSteps
  <2>3. K + 1 \in Nat \ {0}
    BY <2>1
  <2>4. Place(Index(K + 1, p), p) = K + 1
    BY ONLY <2>2, <2>3, PlaceOfIndex
  <2> QED
    BY ONLY <2>1, <2>2, <2>4
<1>5. ASSUME ~Ends(M + 1, p) PROVE Place(c + 1, p) = M + 1 /\ Index(M + 1, p) = c + 1
  <2>1. M + 1 \in Nat \ {0} /\ Index(M + 1, p) = c + 1
    BY <1>1, <1>3, <1>5
  <2>2. Place(Index(M + 1, p), p) = M + 1
    BY ONLY <1>5, <2>1, PlaceOfIndex
  <2> QED
    BY <2>1, <2>2
<1>6. c % 4 # 0 => ~Ends(M + 1, p)
  BY <1>4
<1> QED
  BY <1>1, <1>2, <1>4, <1>5, <1>6

\* The text of the first c elements of x.
Laid(x, c, p) == Spread(x, Place(c, p), p)

LEMMA SpreadNext ==
    ASSUME NEW x, NEW m \in Nat, NEW p
    PROVE  Spread(x, m + 1, p)
             = Append(Spread(x, m, p), IF Ends(m + 1, p) THEN NL ELSE x[Index(m + 1, p)])
<1> DEFINE s == Spread(x, m, p)
           t == Spread(x, m + 1, p)
           e == IF Ends(m + 1, p) THEN NL ELSE x[Index(m + 1, p)]
<1>1. /\ IsStr(s) /\ Len(s) = m
      /\ \A j \in 1..m : s[j] = IF Ends(j, p) THEN NL ELSE x[Index(j, p)]
  BY SpreadIs
<1>2. /\ IsStr(t) /\ Len(t) = m + 1
      /\ \A j \in 1..(m + 1) : t[j] = IF Ends(j, p) THEN NL ELSE x[Index(j, p)]
  BY m + 1 \in Nat, SpreadIs
<1>3. t[m + 1] = e
  BY <1>2
<1> HIDE DEF s, t, e
<1>4. PICK S : s \in Seq(S)
  BY <1>1 DEF IsStr
<1> DEFINE u == Append(s, e)
<1>5. s \in Seq(S \cup {e})
  BY <1>4
<1>6. u \in Seq(S \cup {e}) /\ Len(u) = m + 1 /\ u[m + 1] = e /\ \A j \in 1..m : u[j] = s[j]
  BY <1>1, <1>5
<1>7. IsStr(u)
  BY ONLY <1>6, StrIn
<1> HIDE DEF u
<1>8. \A j \in 1..(m + 1) : t[j] = u[j]
  <2>1. ASSUME NEW j \in 1..(m + 1) PROVE t[j] = u[j]
    <3>1. CASE j = m + 1
      BY ONLY <1>3, <1>6, <3>1
    <3>2. CASE j # m + 1
      <4>1. j \in 1..m
        BY <3>2
      <4> QED
        BY ONLY <1>1, <1>2, <1>6, <4>1, j \in 1..(m + 1)
    <3> QED
      BY <3>1, <3>2
  <2> QED
    BY <2>1
<1>9. t = u
  BY ONLY <1>2, <1>6, <1>7, <1>8, StrEqual
<1> QED
  BY <1>9 DEF s, t, u, e

LEMMA LaidNext ==
    ASSUME NEW x, NEW c \in Nat, NEW p
    PROVE  Laid(x, c + 1, p) = IF Ends(Place(c, p) + 1, p)
                               THEN Append(Append(Laid(x, c, p), NL), x[c + 1])
                               ELSE Append(Laid(x, c, p), x[c + 1])
<1> DEFINE M == Place(c, p)
<1>1. M = Place(c, p)
  OBVIOUS
<1> HIDE DEF M
<1>2. /\ M \in Nat
      /\ Ends(M + 1, p) => ~Ends(M + 2, p) /\ Place(c + 1, p) = M + 2 /\ Index(M + 2, p) = c + 1
      /\ ~Ends(M + 1, p) => Place(c + 1, p) = M + 1 /\ Index(M + 1, p) = c + 1
  BY ONLY <1>1, c \in Nat, PlaceNext
<1>3. Spread(x, M + 1, p)
        = Append(Spread(x, M, p), IF Ends(M + 1, p) THEN NL ELSE x[Index(M + 1, p)])
  BY <1>2, SpreadNext
<1>4. Spread(x, M + 2, p)
        = Append(Spread(x, M + 1, p), IF Ends(M + 2, p) THEN NL ELSE x[Index(M + 2, p)])
  <2> DEFINE K == M + 1
  <2>1. K \in Nat /\ K + 1 = M + 2
    BY <1>2
  <2> HIDE DEF K
  <2>2. Spread(x, K + 1, p)
          = Append(Spread(x, K, p), IF Ends(K + 1, p) THEN NL ELSE x[Index(K + 1, p)])
    BY <2>1, SpreadNext
  <2> QED
    BY <2>1, <2>2 DEF K
<1>5. CASE Ends(M + 1, p)
  BY ONLY <1>1, <1>2, <1>3, <1>4, <1>5 DEF Laid
<1>6. CASE ~Ends(M + 1, p)
  BY ONLY <1>1, <1>2, <1>3, <1>6 DEF Laid
<1> QED
  BY <1>5, <1>6

\* A line does not end within a group.
LEMMA LaidInGroup ==
    ASSUME NEW x, NEW c \in Nat, c % 4 # 0, NEW p
    PROVE  Laid(x, c + 1, p) = Append(Laid(x, c, p), x[c + 1])
<1>1. ~Ends(Place(c, p) + 1, p)
  BY PlaceNext
<1> QED
  BY <1>1, LaidNext

\* Only the elements that are laid matter.
LEMMA LaidSame ==
    ASSUME NEW x, NEW y, NEW c \in Nat, NEW p, \A i \in 1..c : x[i] = y[i]
    PROVE  Laid(x, c, p) = Laid(y, c, p)
<1> DEFINE M == Place(c, p)
<1>1. M \in Nat /\ Index(M, p) = c
  BY PlaceNext
<1>2. ASSUME NEW j \in 1..M, ~Ends(j, p) PROVE x[Index(j, p)] = y[Index(j, p)]
  <2>1. j \in Nat \ {0} /\ j <= M
    BY <1>1
  <2>2. Index(j, p) \in Nat \ {0}
    BY <1>2, <2>1, PlaceOfIndex
  <2>3. Index(j, p) <= Index(M, p)
    BY <1>1, <2>1, IndexGrows
  <2> QED
    BY <1>1, <2>2, <2>3
<1> QED
  BY <1>2 DEF Laid, Spread

LEMMA CatAppend ==
    ASSUME NEW s, IsStr(s), NEW a, NEW b
    PROVE  /\ s \o <<>> = s /\ s \o <<a>> = Append(s, a)
           /\ s \o <<a, b>> = Append(Append(s, a), b)
           /\ IsStr(Append(s, a)) /\ Len(Append(s, a)) = Len(s) + 1
           /\ Append(s, a)[Len(s) + 1] = a /\ \A i \in 1..Len(s) : Append(s, a)[i] = s[i]
<1>1. PICK S : s \in Seq(S)
  BY DEF IsStr
<1> DEFINE T == S \cup {a, b}
<1>2. s \in Seq(T) /\ a \in T /\ b \in T
  BY <1>1
<1> HIDE DEF T
<1>3. s \o <<>> = s /\ s \o <<a>> = Append(s, a) /\ s \o <<a, b>> = Append(Append(s, a), b)
  BY <1>2
<1>4. /\ Append(s, a) \in Seq(T) /\ Len(Append(s, a)) = Len(s) + 1
      /\ Append(s, a)[Len(s) + 1] = a /\ \A i \in 1..Len(s) : Append(s, a)[i] = s[i]
  BY <1>2
<1> QED
  BY <1>3, <1>4, StrIn

\* What the encoder has, after i bytes, of a datum d whose characters are x.
EncodesTo(e, d, x, i, p) ==
    e = [s |-> i % 3, l |-> IF i = 0 THEN 0 ELSE d[i], out |-> Laid(x, i + i \div 3, p)]

\* The line break before the next symbol, or none.
Break(s, p) == IF p = 1 /\ s # <<>> /\ LineEnd(Len(s) + 1) THEN <<NL>> ELSE <<>>

LEMMA BreakIs ==
    ASSUME NEW x, NEW c \in Nat, NEW p, NEW a
    PROVE  LET s == Laid(x, c, p)
           IN /\ s \o Break(s, p) \o <<x[c + 1]>> = Laid(x, c + 1, p)
              /\ c % 4 # 0 => s \o Break(s, p) \o <<x[c + 1], a>> = Append(Laid(x, c + 1, p), a)
<1> DEFINE M == Place(c, p)
           s == Laid(x, c, p)
           brk == Break(s, p)
<1>1. /\ M \in Nat /\ (M = 0 <=> c = 0) /\ (c = 0 => ~Ends(M + 1, p))
      /\ c % 4 # 0 => ~Ends(M + 1, p)
  BY PlaceNext
<1>2. IsStr(s) /\ Len(s) = M
  BY <1>1, SpreadIs DEF Laid
<1>3. Laid(x, c + 1, p) = IF Ends(M + 1, p) THEN Append(Append(s, NL), x[c + 1]) ELSE Append(s, x[c + 1])
  BY LaidNext
<1> HIDE DEF M, s
<1>4. s # <<>> <=> M # 0
  BY <1>2, StrEmpty, StrNull
<1>5. brk = IF Ends(M + 1, p) THEN <<NL>> ELSE <<>>
  <2>1. (p = 1 /\ s # <<>> /\ LineEnd(Len(s) + 1)) <=> Ends(M + 1, p)
    BY ONLY <1>1, <1>2, <1>4 DEF Ends
  <2> QED
    BY ONLY <2>1 DEF Break
<1> HIDE DEF brk
<1> DEFINE q == x[c + 1]
<1> HIDE DEF q
<1>6. s \o <<>> = s /\ s \o <<q>> = Append(s, q) /\ s \o <<q, a>> = Append(Append(s, q), a)
  BY ONLY <1>2, CatAppend
<1>7. s \o <<NL>> = Append(s, NL) /\ IsStr(Append(s, NL))
  BY ONLY <1>2, CatAppend
<1>8. Append(s, NL) \o <<q>> = Append(Append(s, NL), q)
  BY ONLY <1>7, CatAppend
<1>9. s \o brk \o <<x[c + 1]>> = Laid(x, c + 1, p)
  <2>1. CASE Ends(M + 1, p)
    <3>1. s \o brk = Append(s, NL)
      BY ONLY <1>5, <1>7, <2>1
    <3> QED
      BY ONLY <1>3, <1>8, <2>1, <3>1 DEF q
  <2>2. CASE ~Ends(M + 1, p)
    <3>1. s \o brk = s
      BY ONLY <1>5, <1>6, <2>2
    <3> QED
      BY ONLY <1>3, <1>6, <2>2, <3>1 DEF q
  <2> QED
    BY <2>1, <2>2
<1>10. ASSUME c % 4 # 0 PROVE s \o brk \o <<x[c + 1], a>> = Append(Laid(x, c + 1, p), a)
  <2>1. s \o brk = s
    BY ONLY <1>1, <1>5, <1>6, <1>10
  <2>2. Laid(x, c + 1, p) = Append(s, x[c + 1])
    BY ONLY <1>1, <1>3, <1>10
  <2> QED
    BY ONLY <1>6, <2>1, <2>2 DEF q
<1> QED
  BY <1>9, <1>10 DEF s, brk

LEMMA EncodeStep ==
    ASSUME NEW d \in Seq(Octet), NEW p, NEW y, y = Filled(d, 8, 6), NEW x,
           \A k \in 1..Len(y) : x[k] = y[k],
           NEW i \in Nat, i < Len(d), NEW e, EncodesTo(e, d, x, i, p)
    PROVE  EncodesTo(EncodeByte(e, d[i + 1], p = 1), d, x, i + 1, p)
<1> DEFINE n == Len(d)
           m == Len(y)
           g == i \div 3
           j == i % 3
           c == i + i \div 3
           b == d[i + 1]
           A == ElementAt(d, 3 * g + 0)
           B == ElementAt(d, 3 * g + 1)
           C == ElementAt(d, 3 * g + 2)
           s == Laid(x, c, p)
           brk == Break(s, p)
           r == EncodeByte(e, b, p = 1)
<1>1. n \in Nat /\ i < n /\ m \in Nat /\ m = (8 * n + 5) \div 6
      /\ \A k \in 1..m : x[k] = Digit(d, 8, 6, k)
  <2>1. m \in Nat /\ m = (8 * n + 5) \div 6 /\ \A k \in 1..m : y[k] = Digit(d, 8, 6, k)
    BY FilledIs
  <2> QED
    BY <2>1
<1>2. g \in Nat /\ i = 3 * g + j /\ c = 4 * g + j /\ (j = 0 \/ j = 1 \/ j = 2)
  OBVIOUS
<1>3. /\ Digit(d, 8, 6, 4 * g + 1) = A \div 4
      /\ Digit(d, 8, 6, 4 * g + 2) = (A % 4) * 16 + B \div 16
      /\ Digit(d, 8, 6, 4 * g + 3) = (B % 16) * 4 + C \div 64
      /\ Digit(d, 8, 6, 4 * g + 4) = C % 64
  BY <1>2, GroupOfBytes DEF Octet
<1>4. /\ j = 0 => b = A
      /\ j = 1 => d[i] = A /\ b = B
      /\ j = 2 => d[i] = B /\ b = C
  <2>1. \A k \in 1..Len(d) : ElementAt(d, k - 1) = d[k]
    BY DEF ElementAt
  <2>2. i + 1 \in 1..Len(d)
    BY <1>1
  <2>3. ElementAt(d, i) = d[i + 1]
    BY <2>1, <2>2
  <2>4. ASSUME j # 0 PROVE ElementAt(d, i - 1) = d[i]
    <3>1. i \in 1..Len(d)
      BY <1>1, <1>2, <2>4
    <3> QED
      BY ONLY <2>1, <3>1
  <2>5. /\ j = 0 => 3 * g + 0 = i
        /\ j = 1 => 3 * g + 0 = i - 1 /\ 3 * g + 1 = i
        /\ j = 2 => 3 * g + 1 = i - 1 /\ 3 * g + 2 = i
    BY <1>2
  <2> HIDE DEF g, j
  <2> QED
    BY ONLY <2>3, <2>4, <2>5 DEF A, B, C, b
<1>5. e.s = j /\ e.l = (IF i = 0 THEN 0 ELSE d[i]) /\ e.out = s
  BY DEF EncodesTo
<1>6. r = [s |-> (e.s + 1) % 3, l |-> b,
           out |-> e.out
                   \o (IF p = 1 /\ e.out # <<>> /\ LineEnd(Len(e.out) + 1) THEN <<NL>> ELSE <<>>)
                   \o CASE e.s = 0 -> <<b \div 4>>
                        [] e.s = 1 -> <<(e.l % 4) * 16 + b \div 16>>
                        [] e.s = 2 -> <<(e.l % 16) * 4 + b \div 64, b % 64>>]
  BY DEF EncodeByte
<1> HIDE DEF r, n, m, g, j, b, A, B, C
<1>7. c \in Nat
  BY <1>2
<1>8. /\ s \o brk \o <<x[c + 1]>> = Laid(x, c + 1, p)
      /\ c % 4 # 0 => s \o brk \o <<x[c + 1], x[c + 2]>> = Append(Laid(x, c + 1, p), x[c + 2])
  <2> DEFINE h == x[c + 2]
  <2> HIDE DEF c, h
  <2>1. /\ s \o brk \o <<x[c + 1]>> = Laid(x, c + 1, p)
        /\ c % 4 # 0 => s \o brk \o <<x[c + 1], h>> = Append(Laid(x, c + 1, p), h)
    BY ONLY <1>7, BreakIs
  <2> QED
    BY <2>1 DEF h
<1> HIDE DEF c, s, brk
<1>9. CASE j = 0
  <2>1. x[c + 1] = b \div 4
    <3>1. 4 * g + 1 \in 1..m /\ c + 1 = 4 * g + 1
      BY ONLY <1>1, <1>2, <1>9
    <3> QED
      BY ONLY <1>1, <1>3, <1>4, <1>9, <3>1
  <2>2. r = [s |-> 1, l |-> b, out |-> s \o brk \o <<b \div 4>>]
    BY ONLY <1>5, <1>6, <1>9 DEF brk, Break
  <2>3. (i + 1) % 3 = 1 /\ (i + 1) + (i + 1) \div 3 = c + 1 /\ i + 1 # 0
    BY ONLY <1>2, <1>9, i \in Nat
  <2> QED
    BY ONLY <1>8, <2>1, <2>2, <2>3 DEF EncodesTo, r, b
<1>10. CASE j = 1
  <2>1. x[c + 1] = (e.l % 4) * 16 + b \div 16
    <3>1. 4 * g + 2 \in 1..m /\ c + 1 = 4 * g + 2 /\ i # 0
      BY ONLY <1>1, <1>2, <1>10
    <3> QED
      BY ONLY <1>1, <1>3, <1>4, <1>5, <1>10, <3>1
  <2>2. r = [s |-> 2, l |-> b, out |-> s \o brk \o <<(e.l % 4) * 16 + b \div 16>>]
    BY ONLY <1>5, <1>6, <1>10 DEF brk, Break
  <2>3. (i + 1) % 3 = 2 /\ (i + 1) + (i + 1) \div 3 = c + 1 /\ i + 1 # 0
    BY ONLY <1>2, <1>10, i \in Nat
  <2> QED
    BY ONLY <1>8, <2>1, <2>2, <2>3 DEF EncodesTo, r, b
<1>11. CASE j = 2
  <2>1. x[c + 1] = (e.l % 16) * 4 + b \div 64 /\ x[c + 2] = b % 64
    <3>1. 4 * g + 3 \in 1..m /\ c + 1 = 4 * g + 3 /\ 4 * g + 4 \in 1..m /\ c + 2 = 4 * g + 4 /\ i # 0
      BY ONLY <1>1, <1>2, <1>11
    <3> QED
      BY ONLY <1>1, <1>3, <1>4, <1>5, <1>11, <3>1
  <2>2. r = [s |-> 0, l |-> b,
             out |-> s \o brk \o <<(e.l % 16) * 4 + b \div 64, b % 64>>]
    BY ONLY <1>5, <1>6, <1>11 DEF brk, Break
  <2>3. (i + 1) % 3 = 0 /\ (i + 1) + (i + 1) \div 3 = c + 2 /\ i + 1 # 0
    BY ONLY <1>2, <1>11, i \in Nat
  <2>4. c % 4 # 0 /\ (c + 1) % 4 # 0 /\ c + 1 \in Nat /\ c + 1 + 1 = c + 2
    BY ONLY <1>2, <1>11
  <2>5. Laid(x, c + 1 + 1, p) = Append(Laid(x, c + 1, p), x[c + 1 + 1])
    <3> DEFINE k == c + 1
    <3>1. k \in Nat /\ k % 4 # 0
      BY <2>4
    <3> HIDE DEF k
    <3>2. Laid(x, k + 1, p) = Append(Laid(x, k, p), x[k + 1])
      BY ONLY <3>1, LaidInGroup
    <3> QED
      BY <3>2 DEF k
  <2>6. Laid(x, c + 2, p) = Append(Laid(x, c + 1, p), x[c + 2])
    BY ONLY <2>4, <2>5
  <2>7. s \o brk \o <<x[c + 1], x[c + 2]>> = Laid(x, c + 2, p)
    BY ONLY <1>8, <2>4, <2>6
  <2> QED
    BY ONLY <2>1, <2>2, <2>3, <2>7 DEF EncodesTo, r, b
<1> QED
  BY <1>2, <1>9, <1>10, <1>11

LEMMA CatThree ==
    ASSUME NEW s, IsStr(s), NEW a, NEW b, NEW c
    PROVE  s \o <<a, b, c>> = Append(Append(Append(s, a), b), c)
<1>1. PICK S : s \in Seq(S)
  BY DEF IsStr
<1> DEFINE T == S \cup {a, b, c}
<1>2. s \in Seq(T) /\ a \in T /\ b \in T /\ c \in T
  BY <1>1
<1> HIDE DEF T
<1> QED
  BY <1>2

\* Without lines a text is its symbols.
LEMMA LaidIsAll ==
    ASSUME NEW x, NEW y, IsStr(y), \A k \in 1..Len(y) : x[k] = y[k], NEW p, p # 1
    PROVE  Laid(x, Len(y), p) = y
<1>1. Len(y) \in Nat /\ Place(Len(y), p) = Len(y)
  BY StrIs DEF Place
<1>2. \A j \in 1..Len(y) : Index(j, p) = j /\ ~Ends(j, p)
  BY DEF Index, Ends
<1> DEFINE s == Laid(x, Len(y), p)
<1>3. /\ IsStr(s) /\ Len(s) = Len(y)
      /\ \A j \in 1..Len(y) : s[j] = IF Ends(j, p) THEN NL ELSE x[Index(j, p)]
  BY <1>1, SpreadIs DEF Laid
<1> HIDE DEF s
<1>4. \A j \in 1..Len(s) : s[j] = y[j]
  BY <1>2, <1>3
<1>5. s = y
  BY ONLY <1>3, <1>4, IsStr(y), StrEqual
<1> QED
  BY <1>5 DEF s

\* The state of the encoder, and that its fold keeps to it.
EncodeState == [s : 0..2, l : Octet, out : Seq(Character)]

LEMMA EncodeStays ==
    ASSUME NEW e \in EncodeState, NEW c \in Octet, NEW p
    PROVE  EncodeByte(e, c, p = 1) \in EncodeState
<1> DEFINE brk == IF p = 1 /\ e.out # <<>> /\ LineEnd(Len(e.out) + 1) THEN <<NL>> ELSE <<>>
           new == CASE e.s = 0 -> <<c \div 4>>
                    [] e.s = 1 -> <<(e.l % 4) * 16 + c \div 16>>
                    [] e.s = 2 -> <<(e.l % 16) * 4 + c \div 64, c % 64>>
<1>1. e.s \in 0..2 /\ e.l \in Octet /\ e.out \in Seq(Character)
  BY DEF EncodeState
<1>2. EncodeByte(e, c, p = 1) = [s |-> (e.s + 1) % 3, l |-> c, out |-> e.out \o brk \o new]
  BY DEF EncodeByte
<1>3. (e.s + 1) % 3 \in 0..2
  BY <1>1
<1>4. brk \in Seq(Character)
  <2>1. NL \in Character
    BY DEF Character
  <2>2. <<NL>> \in Seq(Character) /\ <<>> \in Seq(Character)
    BY ONLY <2>1
  <2> QED
    BY ONLY <2>2
<1>5. new \in Seq(Character)
  <2>1. /\ c \div 4 \in Character /\ (e.l % 4) * 16 + c \div 16 \in Character
        /\ (e.l % 16) * 4 + c \div 64 \in Character /\ c % 64 \in Character
    BY <1>1, OctetsInSymbols DEF Character
  <2>2. e.s = 0 \/ e.s = 1 \/ e.s = 2
    BY <1>1
  <2> QED
    BY <2>1, <2>2
<1> HIDE DEF brk, new
<1>6. e.out \o brk \o new \in Seq(Character)
  BY <1>1, <1>4, <1>5
<1> DEFINE o == e.out \o brk \o new
<1>7. [s |-> (e.s + 1) % 3, l |-> c, out |-> o] \in EncodeState
  <2> HIDE DEF o
  <2>1. o \in Seq(Character)
    BY <1>6 DEF o
  <2> QED
    BY ONLY <1>3, <2>1, c \in Octet DEF EncodeState
<1> QED
  BY ONLY <1>2, <1>7

\* What the loop of the encoder leaves.
LEMMA EncodeLoop ==
    ASSUME NEW d \in Seq(Octet), NEW p, NEW y, y = Filled(d, 8, 6), NEW x,
           \A k \in 1..Len(y) : x[k] = y[k]
    PROVE  EncodesTo(EncodeFold([s |-> 0, l |-> 0, out |-> <<>>], d, p), d, x, Len(d), p)
<1> DEFINE z == [s |-> 0, l |-> 0, out |-> <<>>]
           r == EncodeFold(z, d, p)
<1>1. z \in EncodeState
  BY DEF EncodeState, Octet
<1>2. IsStr(d) /\ Len(d) \in Nat /\ \A i \in 1..Len(d) : d[i] \in Octet
  BY StrIn, StrIs
<1>3. \A v \in EncodeState : \A i \in 1..Len(d) : EncodeByte(v, d[i], p = 1) \in EncodeState
  BY <1>2, EncodeStays
<1>4. PICK h : EncodeRun(h, EncodeState, z, d, p) /\ r = h[Len(d)]
  <2> HIDE DEF z
  <2> QED
    BY <1>1, <1>2, <1>3, EncodeFolds
<1> DEFINE Q == {k \in Nat : k <= Len(d) => EncodesTo(h[k], d, x, k, p)}
<1>5. 0 \in Q
  <2>1. Place(0, p) = 0
    BY DEF Place
  <2>2. IsStr(Spread(x, 0, p)) /\ Len(Spread(x, 0, p)) = 0
    BY 0 \in Nat, SpreadIs
  <2>3. Spread(x, 0, p) = <<>>
    BY <2>2, StrNull
  <2>4. Laid(x, 0, p) = <<>>
    BY <2>1, <2>3 DEF Laid
  <2>5. 0 % 3 = 0 /\ 0 + 0 \div 3 = 0
    OBVIOUS
  <2>6. h[0] = z
    BY <1>4 DEF EncodeRun
  <2>7. EncodesTo(z, d, x, 0, p)
    BY <2>4, <2>5 DEF EncodesTo
  <2> QED
    BY <2>6, <2>7
<1>6. ASSUME NEW k \in Nat, k \in Q PROVE k + 1 \in Q
  <2> SUFFICES ASSUME k + 1 <= Len(d) PROVE EncodesTo(h[k + 1], d, x, k + 1, p)
    OBVIOUS
  <2>1. k < Len(d) /\ k + 1 \in 1..Len(d) /\ (k + 1) - 1 = k
    BY <1>2
  <2>2. EncodesTo(h[k], d, x, k, p)
    BY <1>6, <2>1
  <2>3. h[k + 1] = EncodeByte(h[k], d[k + 1], p = 1)
    BY <1>4, <2>1 DEF EncodeRun
  <2>4. EncodesTo(EncodeByte(h[k], d[k + 1], p = 1), d, x, k + 1, p)
    BY ONLY <2>1, <2>2, EncodeStep, k \in Nat, d \in Seq(Octet), y = Filled(d, 8, 6),
            \A q \in 1..Len(y) : x[q] = y[q]
  <2> QED
    BY <2>3, <2>4
<1> HIDE DEF Q
<1>7. Nat \subseteq Q
  BY <1>5, <1>6, NatInduct
<1>8. EncodesTo(h[Len(d)], d, x, Len(d), p)
  BY <1>2, <1>7 DEF Q
<1> QED
  BY <1>4, <1>8

\* The characters after the last byte.
LastSymbols(e) == CASE e.s = 0 -> <<>>
             [] e.s = 1 -> <<(e.l % 4) * 16>>
             [] e.s = 2 -> <<(e.l % 16) * 4>>
Filling(e, p) == CASE ~(p = 1) -> <<>>
                [] (p = 1) /\ e.s = 0 -> <<NL>>
                [] (p = 1) /\ e.s = 1 -> <<PAD, PAD, NL>>
                [] (p = 1) /\ e.s = 2 -> <<PAD, NL>>

\* x begins with y.
Starts(x, y) == \A k \in 1..Len(y) : x[k] = y[k]

LEMMA EncodeTail ==
    ASSUME NEW d \in Seq(Octet), NEW p, NEW y, y = Filled(d, 8, 6), NEW x,
           Starts(x, y), NEW e, EncodesTo(e, d, x, Len(d), p)
    PROVE  /\ IsStr(e.out \o LastSymbols(e)) /\ e.out \o LastSymbols(e) = Laid(x, Len(y), p)
           /\ Len(y) % 4 = IF e.s = 0 THEN 0 ELSE e.s + 1
           /\ e.s = 0 \/ e.s = 1 \/ e.s = 2
<1> DEFINE n == Len(d)
           m == Len(y)
           g == n \div 3
           j == n % 3
           c == n + n \div 3
           s == Laid(x, c, p)
           A == ElementAt(d, 3 * g + 0)
           B == ElementAt(d, 3 * g + 1)
           C == ElementAt(d, 3 * g + 2)
<1>1. /\ n \in Nat /\ m \in Nat /\ m = (8 * n + 5) \div 6
      /\ \A k \in 1..m : x[k] = Digit(d, 8, 6, k)
  <2>1. m \in Nat /\ m = (8 * n + 5) \div 6 /\ \A k \in 1..m : y[k] = Digit(d, 8, 6, k)
    BY FilledIs
  <2> QED
    BY <2>1 DEF Starts
<1>2. /\ g \in Nat /\ n = 3 * g + j /\ c = 4 * g + j /\ (j = 0 \/ j = 1 \/ j = 2)
      /\ m = IF j = 0 THEN 4 * g ELSE 4 * g + j + 1
  BY <1>1
<1>3. /\ Digit(d, 8, 6, 4 * g + 2) = (A % 4) * 16 + B \div 16
      /\ Digit(d, 8, 6, 4 * g + 3) = (B % 16) * 4 + C \div 64
  BY <1>2, GroupOfBytes DEF Octet
<1>4. /\ j = 1 => d[n] = A /\ B = 0
      /\ j = 2 => d[n] = B /\ C = 0
  <2>1. \A k \in 1..Len(d) : ElementAt(d, k - 1) = d[k]
    BY DEF ElementAt
  <2>2. \A k \in Nat : k >= Len(d) => ElementAt(d, k) = 0
    BY <1>1 DEF ElementAt
  <2>3. ASSUME j # 0 PROVE ElementAt(d, n - 1) = d[n]
    <3>1. n \in 1..Len(d)
      BY <1>1, <1>2, <2>3
    <3> QED
      BY ONLY <2>1, <3>1
  <2>4. ElementAt(d, n) = 0
    BY <1>1, <2>2
  <2>5. /\ j = 1 => 3 * g + 0 = n - 1 /\ 3 * g + 1 = n
        /\ j = 2 => 3 * g + 1 = n - 1 /\ 3 * g + 2 = n
    BY <1>2
  <2> HIDE DEF g, j
  <2> QED
    BY ONLY <1>1, <2>3, <2>4, <2>5 DEF A, B, C, n
<1>5. e.s = j /\ e.l = (IF n = 0 THEN 0 ELSE d[n]) /\ e.out = s
  BY DEF EncodesTo
<1>6. IsStr(s)
  <2>1. c \in Nat
    BY <1>2
  <2> HIDE DEF c
  <2>2. Place(c, p) \in Nat
    BY <2>1, PlaceNext
  <2> QED
    BY <2>2, SpreadIs DEF Laid
<1>7. j # 0 => s \o <<x[c + 1]>> = Laid(x, c + 1, p) /\ IsStr(s \o <<x[c + 1]>>)
  <2> SUFFICES ASSUME j # 0 PROVE s \o <<x[c + 1]>> = Laid(x, c + 1, p) /\ IsStr(s \o <<x[c + 1]>>)
    OBVIOUS
  <2>1. c \in Nat /\ c % 4 # 0
    BY <1>2
  <2> DEFINE q == x[c + 1]
  <2> HIDE DEF c
  <2>2. Laid(x, c + 1, p) = Append(s, q)
    BY <2>1, LaidInGroup
  <2> HIDE DEF s, q
  <2>3. s \o <<q>> = Append(s, q) /\ IsStr(Append(s, q))
    BY ONLY <1>6, CatAppend
  <2> QED
    BY ONLY <2>2, <2>3 DEF q
<1>8. s \o <<>> = s
  <2> HIDE DEF s
  <2> QED
    BY ONLY <1>6, CatAppend
<1> HIDE DEF n, m, g, j, c, s, A, B, C
<1>9. CASE j = 0
  <2>1. LastSymbols(e) = <<>> /\ c = m /\ m % 4 = 0
    BY ONLY <1>2, <1>5, <1>9 DEF LastSymbols
  <2> QED
    BY ONLY <1>5, <1>6, <1>8, <1>9, <2>1 DEF s, m
<1>10. A \in Octet /\ B \in Octet
  <2>1. 0 \in Octet /\ 3 * g + 0 \in Nat /\ 3 * g + 1 \in Nat
    BY <1>2 DEF Octet
  <2> QED
    BY ONLY <2>1, ElementIn, d \in Seq(Octet) DEF A, B
<1>11. CASE j = 1
  <2>1. 4 * g + 2 \in 1..m /\ c + 1 = 4 * g + 2 /\ n # 0 /\ c + 1 = m /\ m % 4 = 2
    BY ONLY <1>1, <1>2, <1>11
  <2>2. x[c + 1] = (e.l % 4) * 16
    <3>1. A = e.l /\ B = 0
      BY ONLY <1>4, <1>5, <1>11, <2>1
    <3>2. (A % 4) * 16 + B \div 16 = (A % 4) * 16
      BY ONLY <1>10, <3>1 DEF Octet
    <3>3. x[c + 1] = (A % 4) * 16 + B \div 16
      BY ONLY <1>1, <1>3, <2>1
    <3> QED
      BY ONLY <3>1, <3>2, <3>3
  <2>3. LastSymbols(e) = <<x[c + 1]>>
    BY ONLY <1>5, <1>11, <2>2 DEF LastSymbols
  <2> QED
    BY ONLY <1>5, <1>7, <1>11, <2>1, <2>3 DEF m
<1>12. CASE j = 2
  <2>1. 4 * g + 3 \in 1..m /\ c + 1 = 4 * g + 3 /\ n # 0 /\ c + 1 = m /\ m % 4 = 3
    BY ONLY <1>1, <1>2, <1>12
  <2>2. x[c + 1] = (e.l % 16) * 4
    <3>1. B = e.l /\ C = 0
      BY ONLY <1>4, <1>5, <1>12, <2>1
    <3>2. (B % 16) * 4 + C \div 64 = (B % 16) * 4
      BY ONLY <1>10, <3>1 DEF Octet
    <3>3. x[c + 1] = (B % 16) * 4 + C \div 64
      BY ONLY <1>1, <1>3, <2>1
    <3> QED
      BY ONLY <3>1, <3>2, <3>3
  <2>3. LastSymbols(e) = <<x[c + 1]>>
    BY ONLY <1>5, <1>12, <2>2 DEF LastSymbols
  <2> QED
    BY ONLY <1>5, <1>7, <1>12, <2>1, <2>3 DEF m
<1> QED
  BY <1>2, <1>9, <1>11, <1>12

\* The encoder writes the text of its input.
LEMMA EncodeIs ==
    ASSUME NEW d \in Seq(Octet), NEW p
    PROVE  base64encode(d, p = 1) = TextOf(d, p)
<1> DEFINE y == Filled(d, 8, 6)
           x == Chars(y)
           e == EncodeFold([s |-> 0, l |-> 0, out |-> <<>>], d, p)
           m == Len(y)
<1>1. base64encode(d, p = 1) = e.out \o LastSymbols(e) \o Filling(e, p)
  BY DEF base64encode, EncodeFold, LastSymbols, Filling
<1>2. y = Filled(d, 8, 6) /\ IsStr(y)
  BY FilledIs, StrIn
<1>3. /\ m \in Nat /\ Len(x) = m + ((4 - (m % 4)) % 4)
      /\ \A i \in 1..Len(x) : x[i] = IF i <= m THEN y[i] ELSE PAD
  <2> HIDE DEF y
  <2> QED
    BY <1>2, CharsIs
<1>4. TextOf(d, p) = IF p = 1 THEN Append(Laid(x, Len(x), p), NL) ELSE y
  <2> HIDE DEF y
  <2> QED
    BY <1>2, TextIs DEF Laid
<1> HIDE DEF x, m
<1>5. Starts(x, y)
  BY <1>3 DEF m, Starts
<1> HIDE DEF y, e
<1>6. EncodesTo(e, d, x, Len(d), p)
  BY ONLY d \in Seq(Octet), <1>2, <1>5, EncodeLoop DEF e, Starts
<1> DEFINE t == e.out \o LastSymbols(e)
<1>7. IsStr(t) /\ t = Laid(x, m, p) /\ m % 4 = (IF e.s = 0 THEN 0 ELSE e.s + 1) /\ (e.s = 0 \/ e.s = 1 \/ e.s = 2)
  <2>1. /\ IsStr(e.out \o LastSymbols(e)) /\ e.out \o LastSymbols(e) = Laid(x, Len(y), p)
        /\ Len(y) % 4 = IF e.s = 0 THEN 0 ELSE e.s + 1
        /\ e.s = 0 \/ e.s = 1 \/ e.s = 2
    BY ONLY d \in Seq(Octet), <1>2, <1>5, <1>6, EncodeTail
  <2> QED
    BY ONLY <2>1 DEF t, m
<1> HIDE DEF t
<1>8. base64encode(d, p = 1) = t \o Filling(e, p)
  BY ONLY <1>1 DEF t
<1>9. CASE p # 1
  <2>1. Filling(e, p) = <<>>
    BY ONLY <1>9 DEF Filling
  <2>2. t \o <<>> = t
    BY ONLY <1>7, CatAppend
  <2>3. Laid(x, m, p) = y
    BY ONLY <1>2, <1>5, <1>9, LaidIsAll DEF m, Starts
  <2> QED
    BY ONLY <1>4, <1>7, <1>8, <1>9, <2>1, <2>2, <2>3
<1>10. CASE p = 1 /\ e.s = 0
  <2>1. Filling(e, p) = <<NL>>
    BY ONLY <1>10 DEF Filling
  <2>2. t \o <<NL>> = Append(t, NL)
    BY ONLY <1>7, CatAppend
  <2>3. Len(x) = m
    BY ONLY <1>3, <1>7, <1>10
  <2> QED
    BY ONLY <1>4, <1>7, <1>8, <1>10, <2>1, <2>2, <2>3
<1>11. CASE p = 1 /\ e.s = 2
  <2>1. Filling(e, p) = <<PAD, NL>>
    BY ONLY <1>11 DEF Filling
  <2>2. t \o <<PAD, NL>> = Append(Append(t, PAD), NL)
    BY ONLY <1>7, CatAppend
  <2>3. Len(x) = m + 1 /\ m % 4 # 0 /\ x[m + 1] = PAD
    <3>1. Len(x) = m + 1 /\ m % 4 # 0
      BY ONLY <1>3, <1>7, <1>11
    <3> QED
      BY ONLY <1>3, <3>1
  <2>4. Laid(x, m + 1, p) = Append(t, PAD)
    BY ONLY <1>3, <1>7, <2>3, LaidInGroup
  <2> QED
    BY ONLY <1>4, <1>8, <1>11, <2>1, <2>2, <2>3, <2>4
<1>12. CASE p = 1 /\ e.s = 1
  <2>1. Filling(e, p) = <<PAD, PAD, NL>>
    BY ONLY <1>12 DEF Filling
  <2>2. t \o <<PAD, PAD, NL>> = Append(Append(Append(t, PAD), PAD), NL)
    BY ONLY <1>7, CatThree
  <2>3. Len(x) = m + 2 /\ m % 4 # 0 /\ (m + 1) % 4 # 0 /\ x[m + 1] = PAD /\ x[m + 2] = PAD
    <3>1. Len(x) = m + 2 /\ m % 4 # 0 /\ (m + 1) % 4 # 0
      BY ONLY <1>3, <1>7, <1>12
    <3> QED
      BY ONLY <1>3, <3>1
  <2>4. Laid(x, m + 1, p) = Append(t, PAD)
    BY ONLY <1>3, <1>7, <2>3, LaidInGroup
  <2>5. Laid(x, m + 2, p) = Append(Laid(x, m + 1, p), PAD)
    <3> DEFINE k == m + 1
    <3>1. k \in Nat /\ k % 4 # 0 /\ k + 1 = m + 2
      BY ONLY <1>3, <2>3
    <3> HIDE DEF k
    <3>2. Laid(x, k + 1, p) = Append(Laid(x, k, p), x[k + 1])
      BY ONLY <3>1, LaidInGroup
    <3> QED
      BY ONLY <2>3, <3>1, <3>2 DEF k
  <2> QED
    BY ONLY <1>4, <1>8, <1>12, <2>1, <2>2, <2>3, <2>4, <2>5
<1> QED
  BY <1>7, <1>9, <1>10, <1>11, <1>12

-----------------------------------------------------------------------------
(* The decoder's loop.                                                     *)

DecodeState == [k : 0..3, cur : Nat, out : Seq(Nat), next : Nat]

LEMMA FieldsAre ==
    ASSUME NEW d \in DecodeState
    PROVE  /\ d = [k |-> d.k, cur |-> d.cur, out |-> d.out, next |-> d.next]
           /\ d.k \in 0..3 /\ d.cur \in Nat /\ d.out \in Seq(Nat) /\ d.next \in Nat
<1>1. d = [k |-> d.k, cur |-> d.cur, out |-> d.out, next |-> d.next]
  BY DEF DecodeState
<1>2. d.k \in 0..3 /\ d.cur \in Nat /\ d.out \in Seq(Nat) /\ d.next \in Nat
  BY DEF DecodeState
<1> QED
  BY <1>1, <1>2

\* The decoder's state after a symbol, field by field.
LEMMA DecodeFields ==
    ASSUME NEW d \in DecodeState, NEW c \in Symbol
    PROVE  /\ DecodeSymbol(d, c) \in DecodeState
           /\ DecodeSymbol(d, c) =
             CASE d.k = 0 -> [k |-> 1, cur |-> (c * 4) % 256, out |-> d.out, next |-> d.next]
               [] d.k = 1 -> [k |-> 2, cur |-> d.cur, out |-> Append(d.out, d.cur + c \div 16), next |-> (c % 16) * 16]
               [] d.k = 2 -> [k |-> 3, cur |-> d.cur, out |-> Append(d.out, d.next + c \div 4), next |-> (c % 4) * 64]
               [] d.k = 3 -> [k |-> 0, cur |-> d.cur, out |-> Append(d.out, d.next + c), next |-> d.next]
<1> DEFINE a == (c * 4) % 256
           o1 == Append(d.out, d.cur + c \div 16)
           n1 == (c % 16) * 16
           o2 == Append(d.out, d.next + c \div 4)
           n2 == (c % 4) * 64
           o3 == Append(d.out, d.next + c)
<1>1. d.k \in 0..3 /\ d.cur \in Nat /\ d.out \in Seq(Nat) /\ d.next \in Nat
  BY FieldsAre
<1>2. /\ c \in 0..63 /\ a \in Nat /\ n1 \in Nat /\ n2 \in Nat
      /\ c \div 16 \in Nat /\ c \div 4 \in Nat
  BY DEF Symbol
<1>3. d.cur + c \div 16 \in Nat /\ d.next + c \div 4 \in Nat /\ d.next + c \in Nat
  BY ONLY <1>1, <1>2
<1>4. o1 \in Seq(Nat) /\ o2 \in Seq(Nat) /\ o3 \in Seq(Nat)
  BY ONLY <1>1, <1>3
<1>5. DecodeSymbol(d, c) =
        CASE d.k = 0 -> [d EXCEPT !.k = 1, !.cur = a]
          [] d.k = 1 -> [d EXCEPT !.k = 2, !.out = o1, !.next = n1]
          [] d.k = 2 -> [d EXCEPT !.k = 3, !.out = o2, !.next = n2]
          [] d.k = 3 -> [d EXCEPT !.k = 0, !.out = o3]
  BY DEF DecodeSymbol
<1>0. 0 \in 0..3 /\ 1 \in 0..3 /\ 2 \in 0..3 /\ 3 \in 0..3 /\ 0 \in Nat /\ <<>> \in Seq(Nat)
  OBVIOUS
<1> HIDE DEF a, o1, n1, o2, n2, o3
<1>6. [d EXCEPT !.k = 1, !.cur = a] = [k |-> 1, cur |-> a, out |-> d.out, next |-> d.next]
  <2> DEFINE w == [d EXCEPT !.k = 1, !.cur = a]
  <2>1. w \in DecodeState /\ w.k = 1 /\ w.cur = a /\ w.out = d.out /\ w.next = d.next
    BY <1>0, <1>2, <1>4 DEF DecodeState
  <2> HIDE DEF w
  <2>2. w = [k |-> 1, cur |-> a, out |-> d.out, next |-> d.next]
    BY ONLY <2>1, FieldsAre
  <2> QED
    BY <2>2 DEF w
<1>7. [d EXCEPT !.k = 2, !.out = o1, !.next = n1] = [k |-> 2, cur |-> d.cur, out |-> o1, next |-> n1]
  <2> DEFINE w == [d EXCEPT !.k = 2, !.out = o1, !.next = n1]
  <2>1. w \in DecodeState /\ w.k = 2 /\ w.cur = d.cur /\ w.out = o1 /\ w.next = n1
    BY <1>0, <1>2, <1>4 DEF DecodeState
  <2> HIDE DEF w
  <2>2. w = [k |-> 2, cur |-> d.cur, out |-> o1, next |-> n1]
    BY ONLY <2>1, FieldsAre
  <2> QED
    BY <2>2 DEF w
<1>8. [d EXCEPT !.k = 3, !.out = o2, !.next = n2] = [k |-> 3, cur |-> d.cur, out |-> o2, next |-> n2]
  <2> DEFINE w == [d EXCEPT !.k = 3, !.out = o2, !.next = n2]
  <2>1. w \in DecodeState /\ w.k = 3 /\ w.cur = d.cur /\ w.out = o2 /\ w.next = n2
    BY <1>0, <1>2, <1>4 DEF DecodeState
  <2> HIDE DEF w
  <2>2. w = [k |-> 3, cur |-> d.cur, out |-> o2, next |-> n2]
    BY ONLY <2>1, FieldsAre
  <2> QED
    BY <2>2 DEF w
<1>9. [d EXCEPT !.k = 0, !.out = o3] = [k |-> 0, cur |-> d.cur, out |-> o3, next |-> d.next]
  <2> DEFINE w == [d EXCEPT !.k = 0, !.out = o3]
  <2>1. w \in DecodeState /\ w.k = 0 /\ w.cur = d.cur /\ w.out = o3 /\ w.next = d.next
    BY <1>0, <1>2, <1>4 DEF DecodeState
  <2> HIDE DEF w
  <2>2. w = [k |-> 0, cur |-> d.cur, out |-> o3, next |-> d.next]
    BY ONLY <2>1, FieldsAre
  <2> QED
    BY <2>2 DEF w
<1>10. CASE d.k = 0
  <2>1. [k |-> 1, cur |-> a, out |-> d.out, next |-> d.next] \in DecodeState
    BY ONLY <1>1, <1>2 DEF DecodeState
  <2> QED
    BY ONLY <1>5, <1>6, <1>10, <2>1 DEF a
<1>11. CASE d.k = 1
  <2>1. [k |-> 2, cur |-> d.cur, out |-> o1, next |-> n1] \in DecodeState
    BY ONLY <1>1, <1>2, <1>4 DEF DecodeState
  <2> QED
    BY ONLY <1>5, <1>7, <1>11, <2>1 DEF o1, n1
<1>12. CASE d.k = 2
  <2>1. [k |-> 3, cur |-> d.cur, out |-> o2, next |-> n2] \in DecodeState
    BY ONLY <1>1, <1>2, <1>4 DEF DecodeState
  <2> QED
    BY ONLY <1>5, <1>8, <1>12, <2>1 DEF o2, n2
<1>13. CASE d.k = 3
  <2>1. [k |-> 0, cur |-> d.cur, out |-> o3, next |-> d.next] \in DecodeState
    BY ONLY <1>1, <1>4 DEF DecodeState
  <2> QED
    BY ONLY <1>5, <1>9, <1>13, <2>1 DEF o3
<1> QED
  BY <1>1, <1>10, <1>11, <1>12, <1>13

LEMMA DecodeStays ==
    ASSUME NEW d \in DecodeState, NEW c \in Symbol \cup {NL}
    PROVE  DecodeCharacter(d, c) \in DecodeState
<1>1. CASE c = NL
  BY <1>1 DEF DecodeCharacter
<1>2. CASE c # NL
  <2>1. c \in Symbol /\ DecodeCharacter(d, c) = DecodeSymbol(d, c)
    BY <1>2 DEF DecodeCharacter
  <2> QED
    BY <2>1, DecodeFields
<1> QED
  BY <1>1, <1>2

\* The bits of a group that its whole bytes do not hold, or what is left of them
\* after its fourth symbol, or after the next group's first.
Leftover(x, c) ==
    IF c < 2 THEN 0
    ELSE CASE c % 4 = 2 -> (x[c] % 16) * 16
           [] c % 4 = 3 -> (x[c] % 4) * 64
           [] c % 4 = 0 -> (x[c - 1] % 4) * 64
           [] c % 4 = 1 -> (x[c - 2] % 4) * 64

\* What the decoder has after c of the symbols x.
DecodesTo(d, x, c) ==
    /\ d.k = c % 4 /\ d.next = Leftover(x, c)
    /\ Len(d.out) = (6 * c) \div 8
    /\ \A i \in 1..((6 * c) \div 8) : d.out[i] = Digit(x, 6, 8, i)
    /\ c % 4 = 1 => d.cur = x[c] * 4

LEMMA DecodeStep ==
    ASSUME NEW x \in Seq(Symbol), NEW c \in Nat, c < Len(x),
           NEW d \in DecodeState, DecodesTo(d, x, c)
    PROVE  DecodesTo(DecodeSymbol(d, x[c + 1]), x, c + 1)
<1> DEFINE g == c \div 4
           j == c % 4
           b == x[c + 1]
           A == ElementAt(x, 4 * g + 0)
           B == ElementAt(x, 4 * g + 1)
           C == ElementAt(x, 4 * g + 2)
           D == ElementAt(x, 4 * g + 3)
           r == DecodeSymbol(d, b)
<1>1. /\ g \in Nat /\ c = 4 * g + j /\ (j = 0 \/ j = 1 \/ j = 2 \/ j = 3)
      /\ (6 * c) \div 8 = (IF j = 0 \/ j = 1 THEN 3 * g ELSE IF j = 2 THEN 3 * g + 1 ELSE 3 * g + 2)
  OBVIOUS
<1>2. /\ Digit(x, 6, 8, 3 * g + 1) = A * 4 + B \div 16
      /\ Digit(x, 6, 8, 3 * g + 2) = (B % 16) * 16 + C \div 4
      /\ Digit(x, 6, 8, 3 * g + 3) = (C % 4) * 64 + D
  BY <1>1, GroupOfSymbols DEF Symbol
<1>3. b \in Symbol
  BY Len(x) \in Nat
<1>4. /\ j = 0 => b = A
      /\ j = 1 => x[c] = A /\ b = B
      /\ j = 2 => x[c] = B /\ b = C
      /\ j = 3 => x[c] = C /\ b = D
  <2>1. \A k \in 1..Len(x) : ElementAt(x, k - 1) = x[k]
    BY DEF ElementAt
  <2>2. ElementAt(x, c) = x[c + 1]
    BY <2>1, Len(x) \in Nat, c + 1 \in 1..Len(x)
  <2>3. ASSUME j # 0 PROVE ElementAt(x, c - 1) = x[c]
    <3>1. c \in 1..Len(x)
      BY <1>1, <2>3, Len(x) \in Nat
    <3> QED
      BY ONLY <2>1, <3>1
  <2>4. /\ j = 0 => 4 * g + 0 = c
        /\ j = 1 => 4 * g + 0 = c - 1 /\ 4 * g + 1 = c
        /\ j = 2 => 4 * g + 1 = c - 1 /\ 4 * g + 2 = c
        /\ j = 3 => 4 * g + 2 = c - 1 /\ 4 * g + 3 = c
    BY <1>1
  <2> HIDE DEF g, j
  <2> QED
    BY ONLY <2>2, <2>3, <2>4 DEF A, B, C, D, b
<1>5. /\ d.k = j /\ d.next = Leftover(x, c) /\ Len(d.out) = (6 * c) \div 8
      /\ \A i \in 1..((6 * c) \div 8) : d.out[i] = Digit(x, 6, 8, i)
      /\ j = 1 => d.cur = x[c] * 4
      /\ d.out \in Seq(Nat)
  BY DEF DecodesTo, DecodeState
<1>6. r = CASE d.k = 0 -> [k |-> 1, cur |-> (b * 4) % 256, out |-> d.out, next |-> d.next]
            [] d.k = 1 -> [k |-> 2, cur |-> d.cur, out |-> Append(d.out, d.cur + b \div 16), next |-> (b % 16) * 16]
            [] d.k = 2 -> [k |-> 3, cur |-> d.cur, out |-> Append(d.out, d.next + b \div 4), next |-> (b % 4) * 64]
            [] d.k = 3 -> [k |-> 0, cur |-> d.cur, out |-> Append(d.out, d.next + b), next |-> d.next]
  <2> HIDE DEF b
  <2> QED
    BY <1>3, DecodeFields DEF r
<1> SUFFICES DecodesTo(r, x, c + 1)
  OBVIOUS
<1> HIDE DEF r, g, j, b, A, B, C, D
<1>7. CASE j = 0
  <2>1. r = [k |-> 1, cur |-> (b * 4) % 256, out |-> d.out, next |-> d.next]
    BY ONLY <1>5, <1>6, <1>7
  <2>2. (c + 1) % 4 = 1 /\ (6 * (c + 1)) \div 8 = (6 * c) \div 8 /\ (b * 4) % 256 = x[c + 1] * 4
    <3>1. (c + 1) % 4 = 1 /\ (6 * (c + 1)) \div 8 = (6 * c) \div 8
      BY ONLY <1>1, <1>7, c \in Nat
    <3>2. (b * 4) % 256 = b * 4
      BY ONLY <1>3 DEF Symbol
    <3> QED
      BY ONLY <3>1, <3>2 DEF b
  <2>3. Leftover(x, c + 1) = Leftover(x, c)
    <3>1. (c + 1 < 2 <=> c < 2) /\ c % 4 = 0 /\ (c + 1) % 4 = 1 /\ (c + 1) - 2 = c - 1
      BY ONLY <1>1, <1>7, c \in Nat
    <3> QED
      BY ONLY <3>1 DEF Leftover
  <2> QED
    BY ONLY <1>5, <2>1, <2>2, <2>3 DEF DecodesTo, b
<1>8. ASSUME NEW v, v = Digit(x, 6, 8, (6 * c) \div 8 + 1), j # 0, r.out = Append(d.out, v)
      PROVE  /\ Len(r.out) = (6 * (c + 1)) \div 8
             /\ \A i \in 1..((6 * (c + 1)) \div 8) : r.out[i] = Digit(x, 6, 8, i)
  <2> DEFINE l == (6 * c) \div 8
  <2>1. l \in Nat /\ (6 * (c + 1)) \div 8 = l + 1
    <3>1. CASE j = 1
      BY ONLY <1>1, <3>1
    <3>2. CASE j = 2
      BY ONLY <1>1, <3>2
    <3>3. CASE j = 3
      BY ONLY <1>1, <3>3
    <3> QED
      BY ONLY <1>1, <1>8, <3>1, <3>2, <3>3
  <2>2. d.out \in Seq(Nat) /\ Len(d.out) = l /\ \A i \in 1..l : d.out[i] = Digit(x, 6, 8, i)
    BY ONLY <1>5
  <2>3. IsStr(d.out)
    BY <2>2, StrIn
  <2> HIDE DEF l
  <2>4. /\ Len(Append(d.out, v)) = Len(d.out) + 1 /\ Append(d.out, v)[Len(d.out) + 1] = v
        /\ \A i \in 1..Len(d.out) : Append(d.out, v)[i] = d.out[i]
    BY ONLY <2>3, CatAppend
  <2>5. \A i \in 1..(l + 1) : r.out[i] = Digit(x, 6, 8, i)
    <3>1. v = Digit(x, 6, 8, l + 1)
      BY ONLY <1>8 DEF l
    <3>2. ASSUME NEW i \in 1..(l + 1) PROVE r.out[i] = Digit(x, 6, 8, i)
      <4>1. CASE i = l + 1
        BY ONLY <1>8, <2>2, <2>4, <3>1, <4>1
      <4>2. CASE i # l + 1
        <5>1. i \in 1..l
          BY ONLY <2>1, <4>2, i \in 1..(l + 1)
        <5> QED
          BY ONLY <1>8, <2>2, <2>4, <5>1
      <4> QED
        BY <4>1, <4>2
    <3> QED
      BY <3>2
  <2>6. Len(r.out) = l + 1
    BY ONLY <1>8, <2>2, <2>4
  <2> QED
    BY ONLY <2>1, <2>5, <2>6
<1>9. CASE j = 1
  <2>1. r = [k |-> 2, cur |-> d.cur, out |-> Append(d.out, d.cur + b \div 16), next |-> (b % 16) * 16]
    BY ONLY <1>5, <1>6, <1>9
  <2>2. (c + 1) % 4 = 2 /\ ~(c + 1 < 2) /\ (6 * c) \div 8 + 1 = 3 * g + 1
    BY ONLY <1>1, <1>9
  <2>3. d.cur + b \div 16 = Digit(x, 6, 8, (6 * c) \div 8 + 1)
    BY ONLY <1>2, <1>4, <1>5, <1>9, <2>2
  <2>4. Leftover(x, c + 1) = (b % 16) * 16
    BY ONLY <2>2 DEF Leftover, b
  <2>5. /\ Len(r.out) = (6 * (c + 1)) \div 8
        /\ \A i \in 1..((6 * (c + 1)) \div 8) : r.out[i] = Digit(x, 6, 8, i)
    <3>1. j # 0 /\ r.out = Append(d.out, d.cur + b \div 16)
      BY ONLY <1>9, <2>1
    <3> QED
      BY ONLY <1>8, <2>3, <3>1
  <2>6. r.k = 2 /\ r.next = (b % 16) * 16
    BY ONLY <2>1
  <2> QED
    BY ONLY <2>2, <2>4, <2>5, <2>6 DEF DecodesTo
<1>10. CASE j = 2
  <2>1. r = [k |-> 3, cur |-> d.cur, out |-> Append(d.out, d.next + b \div 4), next |-> (b % 4) * 64]
    BY ONLY <1>5, <1>6, <1>10
  <2>2. (c + 1) % 4 = 3 /\ ~(c + 1 < 2) /\ (6 * c) \div 8 + 1 = 3 * g + 2 /\ ~(c < 2) /\ c % 4 = 2
    BY ONLY <1>1, <1>10
  <2>3. d.next + b \div 4 = Digit(x, 6, 8, (6 * c) \div 8 + 1)
    <3>1. d.next = (x[c] % 16) * 16
      BY ONLY <1>5, <2>2 DEF Leftover
    <3> QED
      BY ONLY <1>2, <1>4, <1>10, <2>2, <3>1
  <2>4. Leftover(x, c + 1) = (b % 4) * 64
    BY ONLY <2>2 DEF Leftover, b
  <2>5. /\ Len(r.out) = (6 * (c + 1)) \div 8
        /\ \A i \in 1..((6 * (c + 1)) \div 8) : r.out[i] = Digit(x, 6, 8, i)
    <3>1. j # 0 /\ r.out = Append(d.out, d.next + b \div 4)
      BY ONLY <1>10, <2>1
    <3> QED
      BY ONLY <1>8, <2>3, <3>1
  <2>6. r.k = 3 /\ r.next = (b % 4) * 64
    BY ONLY <2>1
  <2> QED
    BY ONLY <2>2, <2>4, <2>5, <2>6 DEF DecodesTo
<1>11. CASE j = 3
  <2>1. r = [k |-> 0, cur |-> d.cur, out |-> Append(d.out, d.next + b), next |-> d.next]
    BY ONLY <1>5, <1>6, <1>11
  <2>2. (c + 1) % 4 = 0 /\ ~(c + 1 < 2) /\ (6 * c) \div 8 + 1 = 3 * g + 3 /\ ~(c < 2) /\ c % 4 = 3 /\ (c + 1) - 1 = c
    BY ONLY <1>1, <1>11
  <2>3. d.next = (x[c] % 4) * 64
    BY ONLY <1>5, <2>2 DEF Leftover
  <2>4. d.next + b = Digit(x, 6, 8, (6 * c) \div 8 + 1)
    BY ONLY <1>2, <1>4, <1>11, <2>2, <2>3
  <2>5. Leftover(x, c + 1) = (x[c] % 4) * 64
    BY ONLY <2>2 DEF Leftover
  <2>6. /\ Len(r.out) = (6 * (c + 1)) \div 8
        /\ \A i \in 1..((6 * (c + 1)) \div 8) : r.out[i] = Digit(x, 6, 8, i)
    <3>1. j # 0 /\ r.out = Append(d.out, d.next + b)
      BY ONLY <1>11, <2>1
    <3> QED
      BY ONLY <1>8, <2>4, <3>1
  <2>7. r.k = 0 /\ r.next = d.next
    BY ONLY <2>1
  <2> QED
    BY ONLY <2>2, <2>3, <2>5, <2>6, <2>7 DEF DecodesTo
<1> QED
  BY <1>1, <1>7, <1>9, <1>10, <1>11

\* The loop goes past character i.
Passes(t, i, p) == IF Ends(i, p) THEN t[i] = NL ELSE t[i] \in Symbol

\* The loop goes past the first m characters of t, whose symbols are x.
Shape(t, m, x, p) ==
    /\ m \in 0..Len(t) /\ x \in Seq(Symbol) /\ Len(x) = Index(m, p)
    /\ \A j \in 1..m : t[j] = IF Ends(j, p) THEN NL ELSE x[Index(j, p)]
    /\ m < Len(t) => ~Passes(t, m + 1, p)

\* The first symbols have their places in the text.
LEMMA PlaceBefore ==
    ASSUME NEW m \in Nat, NEW p, NEW c \in Nat \ {0}, c <= Index(m, p)
    PROVE  Place(c, p) \in 1..m
<1>1. /\ Place(c, p) \in Nat \ {0} /\ ~Ends(Place(c, p), p) /\ Index(Place(c, p), p) = c
  BY IndexOfPlace
<1> DEFINE k == Place(c, p) - 1
<1>2. k \in Nat /\ k + 1 = Place(c, p)
  BY <1>1
<1> HIDE DEF k
<1>3. /\ Index(k + 1, p) = IF Ends(k + 1, p) THEN Index(k, p) ELSE Index(k, p) + 1
      /\ Index(k, p) \in Nat
  BY <1>2, IndexSteps
<1>4. c = Index(k, p) + 1
  BY <1>1, <1>2, <1>3
<1>5. m <= k => Index(m, p) <= Index(k, p)
  BY <1>2, IndexGrows
<1>6. Index(m, p) \in Nat
  BY IndexSteps
<1>7. ~(m <= k)
  BY <1>3, <1>4, <1>5, <1>6
<1> QED
  BY <1>2, <1>7

\* The symbols before a character.
LEMMA IndexBefore ==
    ASSUME NEW m \in Nat, NEW p, NEW j \in 1..m, ~Ends(j, p)
    PROVE  Index(j, p) \in 1..Index(m, p)
<1>1. j \in Nat \ {0} /\ j \in Nat /\ j <= m
  OBVIOUS
<1>2. Index(j, p) \in Nat \ {0} /\ Index(j, p) <= Index(m, p) /\ Index(m, p) \in Nat
  BY <1>1, PlaceOfIndex, IndexGrows, IndexSteps
<1> QED
  BY <1>2

LEMMA ShapeExists ==
    ASSUME NEW t \in Seq(Character), NEW p
    PROVE  \E m, x : Shape(t, m, x, p)
<1> DEFINE n == Len(t)
           T == {i \in 1..(n + 1) : i = n + 1 \/ ~Passes(t, i, p)}
<1>1. n \in Nat
  OBVIOUS
<1>2. T \subseteq Nat /\ T # {}
  <2>1. n + 1 \in T
    BY <1>1
  <2> QED
    BY <1>1, <2>1
<1>3. PICK i \in T : \A k \in T : i <= k
  <2> HIDE DEF T
  <2> QED
    BY <1>2, LeastNat
<1> DEFINE m == i - 1
           l == Index(m, p)
           x == [c \in 1..l |-> t[Place(c, p)]]
<1>4. m \in 0..n /\ m + 1 = i /\ m \in Nat /\ (m < n => ~Passes(t, m + 1, p))
  BY <1>1, <1>3
<1>5. \A j \in 1..m : Passes(t, j, p)
  BY <1>1, <1>3, <1>4
<1> HIDE DEF m
<1>6. l \in Nat
  BY <1>4, IndexSteps
<1>7. ASSUME NEW c \in 1..l PROVE t[Place(c, p)] \in Symbol
  <2>1. c \in Nat \ {0} /\ c <= l
    BY <1>6
  <2>2. Place(c, p) \in 1..m
    BY <1>4, <2>1, PlaceBefore
  <2>3. ~Ends(Place(c, p), p)
    BY <2>1, IndexOfPlace
  <2> QED
    BY <1>5, <2>2, <2>3 DEF Passes
<1>8. x \in Seq(Symbol) /\ Len(x) = l
  <2>1. x \in [1..l -> Symbol]
    BY <1>7
  <2> HIDE DEF x, l
  <2> QED
    BY <1>6, <2>1
<1>9. ASSUME NEW j \in 1..m PROVE t[j] = IF Ends(j, p) THEN NL ELSE x[Index(j, p)]
  <2>1. CASE Ends(j, p)
    BY <1>5, <2>1 DEF Passes
  <2>2. CASE ~Ends(j, p)
    <3>1. Index(j, p) \in 1..l
      BY <1>4, <2>2, IndexBefore
    <3>2. Place(Index(j, p), p) = j
      BY <1>4, <2>2, PlaceOfIndex
    <3> QED
      BY <2>2, <3>1, <3>2
  <2> QED
    BY <2>1, <2>2
<1> HIDE DEF x, T
<1>10. Shape(t, m, x, p)
  BY <1>4, <1>8, <1>9 DEF Shape
<1> QED
  BY <1>10

LEMMA PrefixIs ==
    ASSUME NEW t \in Seq(Character), NEW p, NEW m, NEW x, Shape(t, m, x, p)
    PROVE  /\ m \in Nat /\ SubSeq(t, 1, m) = Spread(x, m, p)
           /\ \A j \in 1..m : Passes(t, j, p)
<1>1. m \in Nat /\ m <= Len(t) /\ IsStr(t)
  BY StrIn DEF Shape
<1>2. LET s == SubSeq(t, 1, m) IN IsStr(s) /\ Len(s) = m /\ \A i \in 1..m : s[i] = t[i]
  BY <1>1, StrFirst
<1>3. /\ IsStr(Spread(x, m, p)) /\ Len(Spread(x, m, p)) = m
      /\ \A j \in 1..m : Spread(x, m, p)[j] = IF Ends(j, p) THEN NL ELSE x[Index(j, p)]
  BY <1>1, SpreadIs
<1>4. \A j \in 1..m : t[j] = IF Ends(j, p) THEN NL ELSE x[Index(j, p)]
  BY DEF Shape
<1> DEFINE s == SubSeq(t, 1, m)
           u == Spread(x, m, p)
<1>5. s = u
  <2>1. \A j \in 1..Len(s) : s[j] = u[j]
    BY <1>2, <1>3, <1>4
  <2>2. IsStr(s) /\ IsStr(u) /\ Len(s) = Len(u)
    BY <1>2, <1>3
  <2> HIDE DEF s, u
  <2> QED
    BY ONLY <2>1, <2>2, StrEqual
<1>6. ASSUME NEW j \in 1..m PROVE Passes(t, j, p)
  <2>1. CASE Ends(j, p)
    BY <1>4, <2>1 DEF Passes
  <2>2. CASE ~Ends(j, p)
    <3>1. Index(j, p) \in 1..Len(x)
      BY <1>1, <2>2, IndexBefore DEF Shape
    <3>2. x[Index(j, p)] \in Symbol
      BY <3>1 DEF Shape
    <3> QED
      BY <1>4, <2>2, <3>2 DEF Passes
  <2> QED
    BY <2>1, <2>2
<1> QED
  BY <1>1, <1>5, <1>6

\* The loop stops after the prefix.
LEMMA StopIs ==
    ASSUME NEW t \in Seq(Character), NEW p, NEW m, NEW x, Shape(t, m, x, p)
    PROVE  (CHOOSE i \in 1..(Len(t) + 1) :
              /\ i = Len(t) + 1 \/ ~Consumed(t, i, p = 1)
              /\ \A k \in 1..(i - 1) : Consumed(t, k, p = 1)) = m + 1
<1>1. \A i : Consumed(t, i, p = 1) <=> Passes(t, i, p)
  BY DEF Consumed, Passes, Ends
<1>2. m \in Nat /\ m <= Len(t) /\ Len(t) \in Nat /\ (m < Len(t) => ~Passes(t, m + 1, p))
  BY DEF Shape
<1>3. \A j \in 1..m : Passes(t, j, p)
  BY PrefixIs
<1> DEFINE P(i) == /\ i \in 1..(Len(t) + 1)
                   /\ i = Len(t) + 1 \/ ~Passes(t, i, p)
                   /\ \A k \in 1..(i - 1) : Passes(t, k, p)
<1>4. P(m + 1)
  BY <1>2, <1>3
<1>5. ASSUME NEW i, P(i) PROVE i = m + 1
  <2>1. ~(i < m + 1)
    <3> SUFFICES ASSUME i < m + 1 PROVE FALSE
      OBVIOUS
    <3>1. i \in 1..m /\ i # Len(t) + 1
      BY <1>2, <1>5
    <3> QED
      BY <1>3, <1>5, <3>1
  <2>2. ~(m + 1 < i)
    <3> SUFFICES ASSUME m + 1 < i PROVE FALSE
      OBVIOUS
    <3>1. m < Len(t) /\ m + 1 \in 1..(i - 1)
      BY <1>2, <1>5
    <3> QED
      BY <1>2, <1>5, <3>1
  <2> QED
    BY <1>2, <1>5, <2>1, <2>2
<1> DEFINE c == CHOOSE i : P(i)
<1>6. P(c)
  <2> HIDE DEF P
  <2> QED
    BY <1>4
<1>7. c = m + 1
  <2> HIDE DEF P, c
  <2> QED
    BY <1>5, <1>6
<1>8. (CHOOSE i \in 1..(Len(t) + 1) :
              /\ i = Len(t) + 1 \/ ~Consumed(t, i, p = 1)
              /\ \A k \in 1..(i - 1) : Consumed(t, k, p = 1)) = c
  BY <1>1
<1> QED
  BY <1>7, <1>8

\* What the loop of the decoder leaves.
LEMMA DecodeLoop ==
    ASSUME NEW x \in Seq(Symbol), NEW m \in Nat, NEW p, Len(x) = Index(m, p)
    PROVE  LET d == FoldLeft(DecodeCharacter, [k |-> 0, cur |-> 0, out |-> <<>>, next |-> 0], Spread(x, m, p))
           IN d \in DecodeState /\ DecodesTo(d, x, Len(x))
<1> DEFINE z == [k |-> 0, cur |-> 0, out |-> <<>>, next |-> 0]
           s == Spread(x, m, p)
           d == FoldLeft(DecodeCharacter, z, s)
<1>1. z \in DecodeState
  BY DEF DecodeState
<1>2. /\ IsStr(s) /\ Len(s) = m
      /\ \A j \in 1..m : s[j] = IF Ends(j, p) THEN NL ELSE x[Index(j, p)]
  BY SpreadIs
<1>3. ASSUME NEW j \in 1..m, ~Ends(j, p) PROVE x[Index(j, p)] \in Symbol
  <2>1. Index(j, p) \in 1..Len(x)
    BY <1>3, IndexBefore
  <2> QED
    BY <2>1
<1>4. \A v \in DecodeState : \A i \in 1..Len(s) : DecodeCharacter(v, s[i]) \in DecodeState
  <2>1. ASSUME NEW v \in DecodeState, NEW i \in 1..m PROVE DecodeCharacter(v, s[i]) \in DecodeState
    <3>1. s[i] \in Symbol \cup {NL}
      BY <1>2, <1>3
    <3> QED
      BY <3>1, DecodeStays
  <2> QED
    BY <1>2, <2>1
<1> HIDE DEF z, s
<1>5. PICK h : DecodeRun(h, DecodeState, z, s) /\ d = h[m]
  BY <1>1, <1>2, <1>4, DecodeFolds
<1> DEFINE Q == {j \in Nat : j <= m => DecodesTo(h[j], x, Index(j, p))}
<1>6. 0 \in Q
  <2>1. h[0] = z /\ Index(0, p) = 0
    BY <1>5, IndexSteps, 0 \in Nat DEF DecodeRun
  <2>2. DecodesTo(z, x, 0)
    <3>1. 0 % 4 = 0 /\ (6 * 0) \div 8 = 0 /\ Leftover(x, 0) = 0
      BY DEF Leftover
    <3> QED
      BY <3>1 DEF DecodesTo, z
  <2> QED
    BY <2>1, <2>2
<1>7. ASSUME NEW j \in Nat, j \in Q PROVE j + 1 \in Q
  <2> SUFFICES ASSUME j + 1 <= m PROVE DecodesTo(h[j + 1], x, Index(j + 1, p))
    OBVIOUS
  <2>1. j + 1 \in 1..m /\ j <= m /\ (j + 1) - 1 = j /\ j \in 0..m
    OBVIOUS
  <2>2. DecodesTo(h[j], x, Index(j, p))
    BY <1>7, <2>1
  <2>3. h[j] \in DecodeState /\ h[j + 1] = DecodeCharacter(h[j], s[j + 1])
    BY <1>2, <1>5, <2>1 DEF DecodeRun
  <2>4. /\ Index(j + 1, p) = IF Ends(j + 1, p) THEN Index(j, p) ELSE Index(j, p) + 1
        /\ Index(j, p) \in Nat
    BY IndexSteps
  <2>5. CASE Ends(j + 1, p)
    <3>1. s[j + 1] = NL
      BY <1>2, <2>1, <2>5
    <3> QED
      BY ONLY <2>2, <2>3, <2>4, <2>5, <3>1 DEF DecodeCharacter
  <2>6. CASE ~Ends(j + 1, p)
    <3>1. s[j + 1] = x[Index(j + 1, p)] /\ Index(j + 1, p) = Index(j, p) + 1
      BY <1>2, <2>1, <2>4, <2>6
    <3>2. s[j + 1] \in Symbol
      BY <1>3, <2>1, <2>6, <3>1
    <3>3. s[j + 1] # NL
      <4> DEFINE q == s[j + 1]
      <4>1. q \in Symbol
        BY <3>2
      <4> HIDE DEF q
      <4>2. q # NL
        BY ONLY <4>1 DEF Symbol, NL
      <4> QED
        BY <4>2 DEF q
    <3>4. Index(j + 1, p) \in 1..Len(x)
      BY <2>1, <2>6, IndexBefore
    <3>5. Index(j, p) < Len(x)
      BY <2>4, <3>1, <3>4
    <3> DEFINE c == Index(j, p)
    <3>6. DecodesTo(DecodeSymbol(h[j], x[c + 1]), x, c + 1)
      <4>1. c \in Nat /\ c < Len(x) /\ DecodesTo(h[j], x, c)
        BY <2>2, <2>4, <3>5
      <4> HIDE DEF c
      <4> QED
        BY ONLY <2>3, <4>1, x \in Seq(Symbol), DecodeStep
    <3> QED
      BY ONLY <2>3, <3>1, <3>3, <3>6 DEF DecodeCharacter
  <2> QED
    BY <2>5, <2>6
<1> HIDE DEF Q
<1>8. Nat \subseteq Q
  BY <1>6, <1>7, NatInduct
<1>9. DecodesTo(h[m], x, Index(m, p))
  BY <1>8 DEF Q
<1>10. h[m] \in DecodeState
  BY <1>2, <1>5 DEF DecodeRun
<1> QED
  BY <1>5, <1>9, <1>10 DEF z, s

\* What the check after the loop lets through.
LEMMA DecodeEnds ==
    ASSUME NEW x \in Seq(Symbol), NEW d \in DecodeState, DecodesTo(d, x, Len(x))
    PROVE  /\ d.out = Whole(x, 6, 8)
           /\ ~(d.k # 0 /\ d.next # 0) <=> Canonical(x) \/ LoneSymbolPasses(x)
<1> DEFINE n == Len(x)
<1>1. n \in Nat
  OBVIOUS
<1>2. d.out = Whole(x, 6, 8)
  <2> DEFINE z == Whole(x, 6, 8)
  <2>1. z \in Seq(Octet) /\ Len(z) = (6 * n) \div 8 /\ \A k \in 1..Len(z) : z[k] = Digit(x, 6, 8, k)
    BY WholeIs
  <2>2. /\ d.out \in Seq(Nat) /\ Len(d.out) = (6 * n) \div 8
        /\ \A i \in 1..((6 * n) \div 8) : d.out[i] = Digit(x, 6, 8, i)
    BY FieldsAre DEF DecodesTo
  <2> HIDE DEF z, n
  <2>3. IsStr(z) /\ IsStr(d.out) /\ Len(d.out) = Len(z)
    BY <2>1, <2>2, StrIn
  <2>4. \A i \in 1..Len(d.out) : d.out[i] = z[i]
    BY ONLY <2>1, <2>2
  <2>5. d.out = z
    BY ONLY <2>3, <2>4, StrEqual
  <2> QED
    BY <2>5 DEF z
<1>3. d.k = n % 4 /\ d.next = Leftover(x, n)
  BY DEF DecodesTo
<1>4. n % 4 = 0 \/ n % 4 = 1 \/ n % 4 = 2 \/ n % 4 = 3
  BY <1>1
<1>5. \A k \in 1..n : x[k] \in Symbol
  OBVIOUS
<1>6. CASE n % 4 = 0
  <2> HIDE DEF n
  <2> QED
    BY ONLY <1>2, <1>3, <1>6 DEF Canonical, n
<1>7. CASE n % 4 = 2
  <2>1. ~(n < 2) /\ n \in 1..n
    BY <1>1, <1>7
  <2>2. Leftover(x, n) = (x[n] % 16) * 16
    BY ONLY <1>7, <2>1 DEF Leftover
  <2>3. x[n] \in Symbol
    BY <1>5, <2>1
  <2> DEFINE q == x[n]
  <2> HIDE DEF q
  <2>6. (q % 16) * 16 # 0 <=> q % 16 # 0
    <3>1. q \in Symbol
      BY <2>3 DEF q
    <3> QED
      BY ONLY <3>1 DEF Symbol
  <2>4. d.next # 0 <=> x[n] % 16 # 0
    BY ONLY <1>3, <2>2, <2>6 DEF q
  <2>5. d.k # 0 /\ ~LoneSymbolPasses(x)
    BY <1>3, <1>7 DEF LoneSymbolPasses
  <2> HIDE DEF n
  <2> QED
    BY ONLY <1>2, <1>7, <2>4, <2>5 DEF Canonical, n
<1>8. CASE n % 4 = 3
  <2>1. ~(n < 2) /\ n \in 1..n
    BY <1>1, <1>8
  <2>2. Leftover(x, n) = (x[n] % 4) * 64
    BY ONLY <1>8, <2>1 DEF Leftover
  <2>3. x[n] \in Symbol
    BY <1>5, <2>1
  <2> DEFINE q == x[n]
  <2> HIDE DEF q
  <2>6. (q % 4) * 64 # 0 <=> q % 4 # 0
    <3>1. q \in Symbol
      BY <2>3 DEF q
    <3> QED
      BY ONLY <3>1 DEF Symbol
  <2>4. d.next # 0 <=> x[n] % 4 # 0
    BY ONLY <1>3, <2>2, <2>6 DEF q
  <2>5. d.k # 0 /\ ~LoneSymbolPasses(x)
    BY <1>3, <1>8 DEF LoneSymbolPasses
  <2> HIDE DEF n
  <2> QED
    BY ONLY <1>2, <1>8, <2>4, <2>5 DEF Canonical, n
<1>9. CASE n % 4 = 1
  <2>1. d.k # 0 /\ ~Canonical(x)
    BY <1>3, <1>9 DEF Canonical
  <2>2. CASE n > 1
    <3>1. ~(n < 2) /\ n - 2 \in 1..n
      BY <1>1, <1>9, <2>2
    <3>2. Leftover(x, n) = (x[n - 2] % 4) * 64
      BY ONLY <1>9, <3>1 DEF Leftover
    <3>3. x[n - 2] \in Symbol
      BY <1>5, <3>1
    <3> DEFINE q == x[n - 2]
    <3> HIDE DEF q
    <3>6. (q % 4) * 64 # 0 <=> q % 4 # 0
      <4>1. q \in Symbol
        BY <3>3 DEF q
      <4> QED
        BY ONLY <4>1 DEF Symbol
    <3>4. d.next # 0 <=> x[n - 2] % 4 # 0
      BY ONLY <1>3, <3>2, <3>6 DEF q
    <3> HIDE DEF n
    <3> QED
      BY ONLY <1>2, <1>9, <2>1, <2>2, <3>4 DEF LoneSymbolPasses, n
  <2>3. CASE ~(n > 1)
    <3>1. n < 2
      BY <1>1, <2>3
    <3>2. d.next = 0
      BY <1>3, <3>1 DEF Leftover
    <3> HIDE DEF n
    <3> QED
      BY ONLY <1>2, <1>9, <2>1, <2>3, <3>2 DEF LoneSymbolPasses, n
  <2> QED
    BY <2>2, <2>3
<1> QED
  BY <1>4, <1>6, <1>7, <1>8, <1>9

\* Where the loop may stop.
Refuses(t, m, p) ==
    LET n == Len(t)
        lastlen == IF p = 1 THEN n % (LineLen + 1) ELSE 0
    IN \/ lastlen > 0 /\ (lastlen - 1) % 4 # 0
       \/ m + 1 <= n /\ ~Breaks(t, m + 1, lastlen, p = 1)
       \/ p = 1 /\ (m + 1 + 2 < n \/ \E i \in (m + 1)..(n - 1) : t[i] # PAD)

LEMMA DecodeIs ==
    ASSUME NEW t \in Seq(Character), NEW p, NEW m, NEW x, Shape(t, m, x, p)
    PROVE  base64decode(t, p = 1) =
             IF Refuses(t, m, p) \/ ~(Canonical(x) \/ LoneSymbolPasses(x)) THEN Refused
             ELSE [ok |-> TRUE, out |-> Whole(x, 6, 8)]
<1> DEFINE stop == CHOOSE i \in 1..(Len(t) + 1) :
                     /\ i = Len(t) + 1 \/ ~Consumed(t, i, p = 1)
                     /\ \A k \in 1..(i - 1) : Consumed(t, k, p = 1)
           z == [k |-> 0, cur |-> 0, out |-> <<>>, next |-> 0]
           n == Len(t)
           lastlen == IF p = 1 THEN n % (LineLen + 1) ELSE 0
           D(s) == FoldLeft(DecodeCharacter, z, s)
<1>1. base64decode(t, p = 1) =
        IF \/ lastlen > 0 /\ (lastlen - 1) % 4 # 0
           \/ stop <= n /\ ~Breaks(t, stop, lastlen, p = 1)
           \/ p = 1 /\ (stop + 2 < n \/ \E i \in stop..(n - 1) : t[i] # PAD)
           \/ D(SubSeq(t, 1, stop - 1)).k # 0 /\ D(SubSeq(t, 1, stop - 1)).next # 0
        THEN Refused ELSE [ok |-> TRUE, out |-> D(SubSeq(t, 1, stop - 1)).out]
  BY DEF base64decode
<1>2. stop = m + 1
  BY StopIs
<1>3. m \in Nat /\ SubSeq(t, 1, m) = Spread(x, m, p) /\ x \in Seq(Symbol) /\ Len(x) = Index(m, p)
  BY PrefixIs DEF Shape
<1> DEFINE d == D(Spread(x, m, p))
<1>4. d \in DecodeState /\ DecodesTo(d, x, Len(x))
  BY <1>3, DecodeLoop
<1> HIDE DEF stop, D, d
<1>5. /\ d.out = Whole(x, 6, 8)
      /\ ~(d.k # 0 /\ d.next # 0) <=> Canonical(x) \/ LoneSymbolPasses(x)
  BY ONLY <1>3, <1>4, DecodeEnds
<1>6. D(SubSeq(t, 1, stop - 1)) = d
  <2>1. stop - 1 = m
    BY <1>2, <1>3
  <2> QED
    BY <1>3, <2>1 DEF d
<1>7. Refuses(t, m, p) <=> \/ lastlen > 0 /\ (lastlen - 1) % 4 # 0
                           \/ stop <= n /\ ~Breaks(t, stop, lastlen, p = 1)
                           \/ p = 1 /\ (stop + 2 < n \/ \E i \in stop..(n - 1) : t[i] # PAD)
  BY <1>2 DEF Refuses
<1> HIDE DEF lastlen, n
<1> QED
  BY ONLY <1>1, <1>5, <1>6, <1>7

-----------------------------------------------------------------------------
(* The symbols of a text, and its body.                                    *)

\* The first m characters of t are laid from x.
Lies(t, x, m, p) == \A j \in 1..m : t[j] = IF Ends(j, p) THEN NL ELSE x[Index(j, p)]

\* The symbols of a text that begins with x and holds no other symbol.
LEMMA SymbolsIs ==
    ASSUME NEW t, IsStr(t), NEW p, NEW m \in 0..Len(t), NEW x \in Seq(Symbol),
           Len(x) = Index(m, p), Lies(t, x, m, p),
           \A j \in (m + 1)..Len(t) : t[j] \notin Symbol
    PROVE  SymbolsOf(t) = x
<1> DEFINE n == Len(t)
           D == Seq(Symbol)
           C(j) == IF j <= m THEN Index(j, p) ELSE Len(x)
<1>1. n \in Nat /\ m \in Nat /\ m <= n
  BY StrIs
<1>2. \A v \in D : \A i \in 1..Len(t) : SymbolIn(v, t[i]) \in D
  BY DEF SymbolIn
<1>3. <<>> \in D
  OBVIOUS
<1> HIDE DEF D
<1>4. PICK h : SymbolRun(h, D, <<>>, t) /\ SymbolsOf(t) = h[n]
  BY <1>2, <1>3, SymbolFolds DEF SymbolsOf
<1> DEFINE Q == {j \in Nat : j <= n => /\ Len(h[j]) = C(j)
                                       /\ \A i \in 1..C(j) : h[j][i] = x[i]}
<1>5. 0 \in Q
  <2>1. C(0) = 0
    BY <1>1, IndexSteps, 0 \in Nat
  <2>2. h[0] = <<>> /\ Len(<<>>) = 0
    BY <1>4 DEF SymbolRun
  <2> HIDE DEF C
  <2> QED
    BY <2>1, <2>2
<1>6. ASSUME NEW j \in Nat, j \in Q PROVE j + 1 \in Q
  <2> SUFFICES ASSUME j + 1 <= n
               PROVE  Len(h[j + 1]) = C(j + 1) /\ \A i \in 1..C(j + 1) : h[j + 1][i] = x[i]
    OBVIOUS
  <2>1. j + 1 \in 1..n /\ j <= n /\ (j + 1) - 1 = j /\ j \in 0..n
    BY <1>1
  <2>2. Len(h[j]) = C(j) /\ \A i \in 1..C(j) : h[j][i] = x[i]
    BY <1>6, <2>1
  <2>3. h[j] \in Seq(Symbol) /\ h[j + 1] = SymbolIn(h[j], t[j + 1])
    BY <1>4, <2>1 DEF SymbolRun, D
  <2>4. /\ Index(j + 1, p) = IF Ends(j + 1, p) THEN Index(j, p) ELSE Index(j, p) + 1
        /\ Index(j, p) \in Nat
    BY IndexSteps
  <2>5. CASE j + 1 <= m /\ Ends(j + 1, p)
    <3>1. t[j + 1] = NL
      BY <2>1, <2>5 DEF Lies
    <3>2. h[j + 1] = h[j]
      BY <2>3, <3>1 DEF SymbolIn, Symbol, NL
    <3>3. C(j + 1) = C(j)
      BY <1>1, <2>4, <2>5
    <3> HIDE DEF C
    <3> QED
      BY ONLY <2>2, <3>2, <3>3
  <2>6. CASE j + 1 <= m /\ ~Ends(j + 1, p)
    <3> DEFINE c == Index(j, p)
               v == x[c + 1]
    <3>1. C(j) = c /\ C(j + 1) = c + 1 /\ c \in Nat
      BY <1>1, <2>4, <2>6
    <3>2. t[j + 1] = v
      <4>1. j + 1 \in 1..m
        BY <1>1, <2>6
      <4>2. t[j + 1] = x[Index(j + 1, p)]
        BY <2>6, <4>1 DEF Lies
      <4> QED
        BY <2>4, <2>6, <4>2
    <3>3. c + 1 \in 1..Len(x)
      <4>1. j + 1 \in 1..m
        BY <1>1, <2>6
      <4>2. Index(j + 1, p) \in 1..Index(m, p)
        BY <1>1, <2>6, <4>1, IndexBefore
      <4> QED
        BY <2>4, <2>6, <4>2
    <3>4. v \in Symbol
      BY <3>3
    <3> HIDE DEF C, c, v
    <3>5. h[j + 1] = Append(h[j], v)
      BY ONLY <2>3, <3>2, <3>4 DEF SymbolIn
    <3>6. IsStr(h[j]) /\ Len(h[j]) = c
      BY ONLY <2>2, <2>3, <3>1, StrIn
    <3>7. /\ Len(Append(h[j], v)) = Len(h[j]) + 1 /\ Append(h[j], v)[Len(h[j]) + 1] = v
          /\ \A i \in 1..Len(h[j]) : Append(h[j], v)[i] = h[j][i]
      BY ONLY <3>6, CatAppend
    <3>8. ASSUME NEW i \in 1..(c + 1) PROVE h[j + 1][i] = x[i]
      <4>1. CASE i = c + 1
        BY ONLY <3>5, <3>6, <3>7, <4>1 DEF v
      <4>2. CASE i # c + 1
        <5>1. i \in 1..c
          BY <3>1, <4>2
        <5> QED
          BY ONLY <2>2, <3>1, <3>5, <3>6, <3>7, <5>1
      <4> QED
        BY <4>1, <4>2
    <3> QED
      BY ONLY <3>1, <3>5, <3>6, <3>7, <3>8
  <2>7. CASE ~(j + 1 <= m)
    <3>1. t[j + 1] \notin Symbol
      BY <1>1, <2>1, <2>7
    <3>2. h[j + 1] = h[j]
      BY <2>3, <3>1 DEF SymbolIn
    <3>3. C(j + 1) = C(j)
      <4>1. CASE j = m
        BY <1>1, <4>1
      <4>2. CASE j # m
        BY <1>1, <2>7, <4>2
      <4> QED
        BY <4>1, <4>2
    <3> HIDE DEF C
    <3> QED
      BY ONLY <2>2, <3>2, <3>3
  <2> QED
    BY <2>5, <2>6, <2>7
<1> HIDE DEF Q
<1>7. Nat \subseteq Q
  BY <1>5, <1>6, NatInduct
<1>8. C(n) = Len(x)
  BY <1>1
<1>9. h[n] \in Seq(Symbol) /\ Len(h[n]) = Len(x) /\ \A i \in 1..Len(x) : h[n][i] = x[i]
  <2>1. h[n] \in Seq(Symbol)
    BY <1>1, <1>4 DEF SymbolRun, D
  <2>2. n \in Q
    BY <1>1, <1>7
  <2>3. Len(h[n]) = C(n) /\ \A i \in 1..C(n) : h[n][i] = x[i]
    BY <1>1, <2>2 DEF Q
  <2> HIDE DEF C
  <2> QED
    BY ONLY <1>8, <2>1, <2>3
<1>10. h[n] = x
  <2> DEFINE s == h[n]
  <2>1. IsStr(s) /\ IsStr(x) /\ Len(s) = Len(x) /\ \A i \in 1..Len(s) : s[i] = x[i]
    BY <1>9, StrIn
  <2> HIDE DEF s
  <2>2. s = x
    BY ONLY <2>1, StrEqual
  <2> QED
    BY <2>2 DEF s
<1> QED
  BY <1>4, <1>10

\* All but the last character.
LEMMA BodyIs ==
    ASSUME NEW t \in Seq(Character), NEW b \in Nat, Len(t) = b + 1
    PROVE  /\ Front(t) \in Seq(Character) /\ IsStr(Front(t)) /\ Len(Front(t)) = b
           /\ \A j \in 1..b : Front(t)[j] = t[j]
           /\ t # <<>> /\ Last(t) = t[b + 1]
<1>1. t # <<>> /\ Last(t) = t[b + 1]
  BY DEF Last
<1>2. Front(t) = SubSeq(t, 1, b)
  BY DEF Front
<1>3. IsStr(t) /\ b <= Len(t)
  BY StrIn
<1> DEFINE s == SubSeq(t, 1, b)
<1>4. IsStr(s) /\ Len(s) = b /\ \A i \in 1..b : s[i] = t[i]
  BY <1>3, StrFirst
<1> HIDE DEF s
<1>5. s \in Seq(Character)
  <2>1. \A i \in 1..Len(s) : s[i] \in Character
    BY <1>4
  <2> QED
    BY ONLY <1>4, <2>1, StrSub
<1> QED
  BY <1>1, <1>2, <1>4, <1>5 DEF s

\* A text that is laid from c.
LEMMA LiesIs ==
    ASSUME NEW s, IsStr(s), NEW c, NEW m \in Nat, NEW p
    PROVE  s = Spread(c, m, p) <=> Len(s) = m /\ Lies(s, c, m, p)
<1> DEFINE u == Spread(c, m, p)
<1>1. /\ IsStr(u) /\ Len(u) = m
      /\ \A j \in 1..m : u[j] = IF Ends(j, p) THEN NL ELSE c[Index(j, p)]
  BY SpreadIs
<1> HIDE DEF u
<1>2. ASSUME s = u PROVE Len(s) = m /\ Lies(s, c, m, p)
  BY ONLY <1>1, <1>2 DEF Lies
<1>3. ASSUME Len(s) = m, Lies(s, c, m, p) PROVE s = u
  <2>1. \A j \in 1..Len(s) : s[j] = u[j]
    BY ONLY <1>1, <1>3 DEF Lies
  <2> QED
    BY ONLY <1>1, <1>3, <2>1, IsStr(s), StrEqual
<1> QED
  BY <1>2, <1>3 DEF u

\* The last character of a body is its last symbol's, or ends its line.
LEMMA BodyEnds ==
    ASSUME NEW b \in Nat, NEW p, NEW M, M = Place(Index(b, p), p)
    PROVE  M \in Nat /\ (b = M \/ (b = M + 1 /\ Ends(b, p))) /\ (b # 0 /\ Ends(b, p) => b = M + 1)
<1> DEFINE N == Index(b, p)
<1>1. N \in Nat /\ M = Place(N, p)
  BY IndexSteps
<1>2. /\ M \in Nat /\ (M = 0 <=> N = 0)
      /\ Ends(M + 1, p) => Index(M + 2, p) = N + 1
      /\ ~Ends(M + 1, p) => Index(M + 1, p) = N + 1
  <2> HIDE DEF N
  <2> QED
    BY <1>1, PlaceNext
<1>3. M <= b
  <2>1. CASE N = 0
    BY <1>2, <2>1
  <2>2. CASE N # 0
    <3>1. Place(N, p) \in 1..b
      BY <1>1, <2>2, PlaceBefore
    <3> QED
      BY <1>1, <3>1
  <2> QED
    BY <2>1, <2>2
<1>4. M + 1 <= b => Index(M + 1, p) <= N
  BY <1>2, M + 1 \in Nat, IndexGrows
<1>5. M + 2 <= b => Index(M + 2, p) <= N
  BY <1>2, M + 2 \in Nat, IndexGrows
<1>6. b = M \/ b = M + 1
  BY <1>1, <1>2, <1>3, <1>4, <1>5
<1>7. b = M + 1 => Ends(b, p)
  BY <1>1, <1>2, <1>4
<1>8. b # 0 /\ b = M => ~Ends(b, p)
  <2>1. ASSUME b # 0, b = M PROVE ~Ends(b, p)
    <3>1. N \in Nat \ {0}
      BY <1>1, <1>2, <2>1
    <3>2. ~Ends(Place(N, p), p)
      BY <3>1, IndexOfPlace
    <3> QED
      BY <1>1, <2>1, <3>2
  <2> QED
    BY <2>1
<1> QED
  BY <1>2, <1>6, <1>7, <1>8

-----------------------------------------------------------------------------
(* What the decoder takes of a text with lines.                            *)

\* The length of the last line tells where the body's last group ends.
LEMMA LastLine ==
    ASSUME NEW b \in Nat, NEW l, l = (b + 1) % (LineLen + 1)
    PROVE  /\ l \in Nat /\ (l > 0 <=> ~Ends(b + 1, 1))
           /\ (l > 0 /\ (l - 1) % 4 # 0) <=> Index(b, 1) % 4 # 0
<1>1. PICK u, r, a : Where(b + 1, u, r, a)
  BY b + 1 \in Nat, WhereExists
<1>2. l = r /\ r \in Nat /\ a \in Nat /\ a % 4 = 0
  BY <1>1, LineAssumption DEF Where
<1>3. Index(b + 1, 1) = a + r /\ (Ends(b + 1, 1) <=> r = 0)
  BY <1>1, IndexIs
<1>4. /\ Index(b + 1, 1) = IF Ends(b + 1, 1) THEN Index(b, 1) ELSE Index(b, 1) + 1
      /\ Index(b, 1) \in Nat
  BY IndexSteps
<1>5. CASE r = 0
  <2>1. Index(b, 1) % 4 = 0
    BY <1>2, <1>3, <1>4, <1>5
  <2> QED
    BY <1>2, <1>3, <1>5, <2>1
<1>6. CASE r # 0
  <2>1. Index(b, 1) = a + (r - 1) /\ r - 1 \in Nat /\ r > 0
    BY <1>2, <1>3, <1>4, <1>6
  <2>2. (a + (r - 1)) % 4 = (r - 1) % 4
    BY ONLY <1>2, <2>1
  <2> QED
    BY ONLY <1>2, <1>3, <1>6, <2>1, <2>2
<1> QED
  BY <1>5, <1>6

\* The decoder's conditions, of a text of b + 1 characters whose first m the
\* loop goes past.
Good(t, m, b) ==
    /\ Index(b, 1) % 4 = 0
    /\ m = b + 1 \/ (~Ends(m + 1, 1) /\ (t[m + 1] = PAD \/ (m = b /\ t[m + 1] = NL)))
    /\ b <= m + 2
    /\ \A i \in (m + 1)..b : t[i] = PAD

LEMMA RefusesIs ==
    ASSUME NEW t, NEW b \in Nat, Len(t) = b + 1, NEW m \in 0..(b + 1)
    PROVE  Refuses(t, m, 1) <=> ~Good(t, m, b)
<1> DEFINE l == (b + 1) % (LineLen + 1)
<1>1. /\ l \in Nat /\ (l > 0 <=> ~Ends(b + 1, 1))
      /\ (l > 0 /\ (l - 1) % 4 # 0) <=> Index(b, 1) % 4 # 0
  BY LastLine
<1> HIDE DEF l
<1>2. Refuses(t, m, 1) <=> \/ l > 0 /\ (l - 1) % 4 # 0
                           \/ m + 1 <= b + 1 /\ ~Breaks(t, m + 1, l, TRUE)
                           \/ m + 1 + 2 < b + 1
                           \/ \E i \in (m + 1)..((b + 1) - 1) : t[i] # PAD
  <2>1. (1 = 1) = TRUE
    OBVIOUS
  <2> QED
    BY <2>1 DEF Refuses, l
<1>3. m + 1 <= b + 1 =>
        (Breaks(t, m + 1, l, TRUE) <=>
           ~Ends(m + 1, 1) /\ (t[m + 1] = PAD \/ (m = b /\ t[m + 1] = NL)))
  <2> SUFFICES ASSUME m + 1 <= b + 1
               PROVE  Breaks(t, m + 1, l, TRUE) <=>
                        ~Ends(m + 1, 1) /\ (t[m + 1] = PAD \/ (m = b /\ t[m + 1] = NL))
    OBVIOUS
  <2>1. Breaks(t, m + 1, l, TRUE) <=>
          ~LineEnd(m + 1) /\ (t[m + 1] = PAD \/ (l > 0 /\ m + 1 = Len(t) /\ t[m + 1] = NL))
    BY DEF Breaks
  <2>2. m + 1 = Len(t) <=> m = b
    OBVIOUS
  <2>3. LineEnd(m + 1) <=> Ends(m + 1, 1)
    BY DEF Ends
  <2>4. m = b /\ ~Ends(m + 1, 1) => l > 0
    BY <1>1
  <2> QED
    BY ONLY <2>1, <2>2, <2>3, <2>4
<1>4. (m + 1 <= b + 1 <=> m # b + 1) /\ (m + 1 + 2 < b + 1 <=> ~(b <= m + 2)) /\ (b + 1) - 1 = b
  OBVIOUS
<1> QED
  BY ONLY <1>1, <1>2, <1>3, <1>4 DEF Good

LEMMA FrontAppend ==
    ASSUME NEW s, IsStr(s), NEW e
    PROVE  Front(Append(s, e)) = s
<1> DEFINE u == Append(s, e)
           n == Len(s)
<1>1. n \in Nat /\ IsStr(u) /\ Len(u) = n + 1 /\ \A i \in 1..n : u[i] = s[i]
  BY CatAppend, StrIs
<1> HIDE DEF u, n
<1>2. Front(u) = SubSeq(u, 1, n)
  <2>1. Len(u) - 1 = n
    BY <1>1
  <2> QED
    BY <2>1 DEF Front
<1> DEFINE v == SubSeq(u, 1, n)
<1>3. IsStr(v) /\ Len(v) = n /\ \A i \in 1..n : v[i] = u[i]
  <2>1. n <= Len(u)
    BY <1>1
  <2> QED
    BY ONLY <1>1, <2>1, StrFirst
<1> HIDE DEF v
<1>4. \A i \in 1..Len(v) : v[i] = s[i]
  BY ONLY <1>1, <1>3
<1>5. v = s
  BY ONLY <1>3, <1>4, IsStr(s), StrEqual DEF n
<1> QED
  BY ONLY <1>2, <1>5 DEF v, u

\* s is u and one character more.
Extends(s, u, e) ==
    Len(s) = Len(u) + 1 /\ s[Len(u) + 1] = e /\ \A i \in 1..Len(u) : s[i] = u[i]

LEMMA AppendIs ==
    ASSUME NEW s, IsStr(s), NEW u, IsStr(u), NEW e
    PROVE  s = Append(u, e) <=> Extends(s, u, e)
<1> DEFINE v == Append(u, e)
           n == Len(u)
<1>1. n \in Nat /\ IsStr(v) /\ Len(v) = n + 1 /\ v[n + 1] = e /\ \A i \in 1..n : v[i] = u[i]
  BY CatAppend, StrIs
<1> HIDE DEF v, n
<1>2. ASSUME Len(s) = n + 1, s[n + 1] = e, \A i \in 1..n : s[i] = u[i] PROVE s = v
  <2>1. \A i \in 1..Len(s) : s[i] = v[i]
    <3>1. ASSUME NEW i \in 1..(n + 1) PROVE s[i] = v[i]
      <4>1. CASE i = n + 1
        BY ONLY <1>1, <1>2, <4>1
      <4>2. CASE i # n + 1
        <5>1. i \in 1..n
          BY <1>1, <4>2
        <5> QED
          BY ONLY <1>1, <1>2, <5>1
      <4> QED
        BY <4>1, <4>2
    <3> QED
      BY <1>2, <3>1
  <2> QED
    BY ONLY <1>1, <1>2, <2>1, IsStr(s), StrEqual
<1> QED
  BY <1>1, <1>2 DEF v, n, Extends

\* What may end an accepted text, and that a '=' is in its body.
LastPasses(t, b) ==
    \/ t[b + 1] = NL
    \/ ~Ends(b + 1, 1) /\ (t[b + 1] = PAD \/ LoneSymbolPasses(SymbolsOf(t)))
HasPad(t, b) == \E j \in 1..b : t[j] = PAD

\* Accepts, of a text of b + 1 characters and the symbols w of its body: its
\* first M characters are the lines of the canonical symbols y, filled.
Fits(t, b, w, y, M) ==
    /\ Lies(t, Chars(y), M, 1)
    /\ \/ /\ HasPad(t, b)
          /\ b = M \/ (b = M + 1 /\ t[b] = PAD /\ Ends(b, 1) /\ Len(w) % 4 = 3)
       \/ /\ ~HasPad(t, b)
          /\ b = M \/ (b = M + 1 /\ Ends(b, 1) /\ t[b] = NL)
          /\ LastPasses(t, b)

LEMMA AcceptsIs ==
    ASSUME NEW t \in Seq(Character), NEW b \in Nat, Len(t) = b + 1,
           NEW w, w = SymbolsOf(Front(t)), NEW y, y = Filled(Whole(w, 6, 8), 8, 6), IsStr(y),
           NEW M, M = Place(Len(Chars(y)), 1)
    PROVE  Accepts(t, TRUE) <=> Fits(t, b, w, y, M)
<1> DEFINE s == Front(t)
           c == Chars(y)
           F == Laid(c, Len(c), 1)
           canon == Text(Whole(w, 6, 8), TRUE)
<1>1. /\ IsStr(s) /\ Len(s) = b /\ \A j \in 1..b : s[j] = t[j]
      /\ t # <<>> /\ Last(t) = t[b + 1]
  BY BodyIs
<1>2. Len(c) \in Nat /\ M \in Nat
  <2>1. Len(c) \in Nat
    BY CharsIs
  <2> HIDE DEF c
  <2> QED
    BY <2>1, PlaceNext DEF c
<1>3. F = Spread(c, M, 1) /\ IsStr(F) /\ Len(F) = M
  <2>1. F = Spread(c, M, 1)
    BY DEF Laid
  <2> HIDE DEF F, c
  <2> QED
    BY ONLY <1>2, <2>1, SpreadIs
<1>4. canon = Append(F, NL)
  <2>1. TextOf(Whole(w, 6, 8), 1) = IF 1 = 1 THEN Append(Spread(Chars(y), Place(Len(Chars(y)), 1), 1), NL) ELSE y
    BY TextIs
  <2>2. (1 = 1) = TRUE
    OBVIOUS
  <2>3. TextOf(Whole(w, 6, 8), 1) = canon
    BY <2>2 DEF TextOf
  <2> QED
    BY <2>1, <2>2, <2>3 DEF Laid
<1> HIDE DEF s, c, F, canon
<1>5. Front(canon) = F /\ Len(canon) = M + 1
  BY ONLY <1>3, <1>4, FrontAppend, CatAppend
<1>6. ASSUME NEW m \in Nat, m <= b PROVE Lies(s, c, m, 1) <=> Lies(t, c, m, 1)
  <2>1. \A j \in 1..m : s[j] = t[j]
    BY <1>1, <1>6
  <2> QED
    BY ONLY <2>1 DEF Lies
<1>7. s = F <=> b = M /\ Lies(t, c, M, 1)
  <2>1. s = F <=> Len(s) = M /\ Lies(s, c, M, 1)
    BY ONLY <1>1, <1>2, <1>3, LiesIs
  <2>2. b = M => (Lies(s, c, M, 1) <=> Lies(t, c, M, 1))
    BY <1>2, <1>6
  <2> QED
    BY ONLY <1>1, <2>1, <2>2
<1>8. ASSUME NEW e PROVE s = Append(F, e) <=> b = M + 1 /\ t[b] = e /\ Lies(t, c, M, 1)
  <2>1. s = Append(F, e) <=> /\ Len(s) = M + 1 /\ s[M + 1] = e
                             /\ \A i \in 1..M : s[i] = F[i]
    <3>1. IsStr(s) /\ IsStr(F)
      BY <1>1, <1>3
    <3>2. s = Append(F, e) <=> Extends(s, F, e)
      BY ONLY <3>1, AppendIs
    <3> QED
      BY ONLY <1>3, <3>2 DEF Extends
  <2>2. \A j \in 1..M : F[j] = IF Ends(j, 1) THEN NL ELSE c[Index(j, 1)]
    BY <1>2, <1>3, SpreadIs
  <2>3. (\A i \in 1..M : s[i] = F[i]) <=> Lies(s, c, M, 1)
    BY ONLY <2>2 DEF Lies
  <2>4. b = M + 1 => s[M + 1] = t[b] /\ (Lies(s, c, M, 1) <=> Lies(t, c, M, 1))
    <3> SUFFICES ASSUME b = M + 1 PROVE s[M + 1] = t[b] /\ (Lies(s, c, M, 1) <=> Lies(t, c, M, 1))
      OBVIOUS
    <3>1. M <= b /\ b \in 1..b
      BY <1>2
    <3> QED
      BY <1>1, <1>2, <1>6, <3>1
  <2> QED
    BY ONLY <1>1, <2>1, <2>3, <2>4
<1>9. PAD \in ToSet(s) <=> HasPad(t, b)
  <2>1. DOMAIN s = 1..b
    BY <1>1, StrIs
  <2>2. ToSet(s) = {s[i] : i \in 1..b}
    BY <2>1 DEF ToSet
  <2> QED
    BY ONLY <1>1, <2>2 DEF HasPad
<1>10. Accepts(t, TRUE) <=>
         \/ t = <<>>
         \/ /\ PAD \in ToSet(s)
            /\ \/ s = Front(canon)
               \/ /\ s = Append(Front(canon), PAD)
                  /\ LineEnd(Len(s)) /\ Len(w) % 4 = 3
         \/ /\ PAD \notin ToSet(s)
            /\ s = Front(canon) \/ (LineEnd(Len(canon)) /\ s = canon)
            /\ \/ Last(t) = NL
               \/ /\ ~LineEnd(Len(t))
                  /\ \/ Last(t) = PAD
                     \/ LoneSymbolPasses(SymbolsOf(t))
  BY <1>1 DEF Accepts, s, canon
<1>11. LineEnd(Len(s)) <=> Ends(b, 1)
  BY <1>1 DEF Ends
<1>12. LineEnd(Len(canon)) <=> Ends(M + 1, 1)
  BY <1>5 DEF Ends
<1>13. LineEnd(Len(t)) <=> Ends(b + 1, 1)
  BY DEF Ends
<1>14. LastPasses(t, b) <=> \/ Last(t) = NL
                            \/ /\ ~LineEnd(Len(t))
                               /\ \/ Last(t) = PAD
                                  \/ LoneSymbolPasses(SymbolsOf(t))
  BY <1>1, <1>13 DEF LastPasses
<1>15. s = Append(F, PAD) <=> b = M + 1 /\ t[b] = PAD /\ Lies(t, c, M, 1)
  BY <1>8
<1>16. s = canon <=> b = M + 1 /\ t[b] = NL /\ Lies(t, c, M, 1)
  BY <1>4, <1>8
<1>17. t # <<>>
  BY <1>1
<1>18. Accepts(t, TRUE) <=>
             /\ Lies(t, c, M, 1)
             /\ \/ /\ HasPad(t, b)
                   /\ b = M \/ (b = M + 1 /\ t[b] = PAD /\ Ends(b, 1) /\ Len(w) % 4 = 3)
                \/ /\ ~HasPad(t, b)
                   /\ b = M \/ (b = M + 1 /\ Ends(b, 1) /\ t[b] = NL)
                   /\ LastPasses(t, b)
  BY ONLY <1>5, <1>7, <1>9, <1>10, <1>11, <1>12, <1>14, <1>15, <1>16, <1>17
<1> QED
  BY ONLY <1>18 DEF c, Fits

\* Symbols are neither '=' nor a newline.
LEMMA SymbolKinds ==
    ASSUME NEW c \in Symbol
    PROVE  c # PAD /\ c # NL /\ c \in Character
  BY DEF Symbol, PAD, NL, Character

LEMMA PadIsNoSymbol == PAD \notin Symbol /\ NL \notin Symbol /\ PAD # NL /\ PAD \in Character /\ NL \in Character
  BY DEF Symbol, PAD, NL, Character

\* Nothing that is laid from symbols is a '='.
LEMMA LiesWithout ==
    ASSUME NEW t, NEW x \in Seq(Symbol), NEW m \in Nat, NEW p, Len(x) = Index(m, p), Lies(t, x, m, p),
           NEW j \in 1..m
    PROVE  t[j] # PAD /\ (~Ends(j, p) => t[j] \in Symbol)
<1>1. CASE Ends(j, p)
  BY <1>1, PadIsNoSymbol DEF Lies
<1>2. CASE ~Ends(j, p)
  <2>1. Index(j, p) \in 1..Len(x)
    BY <1>2, IndexBefore
  <2> DEFINE c == x[Index(j, p)]
  <2>2. c \in Symbol
    BY <2>1
  <2>3. t[j] = c
    BY <1>2 DEF Lies
  <2> HIDE DEF c
  <2> QED
    BY ONLY <2>2, <2>3, SymbolKinds
<1> QED
  BY <1>1, <1>2

\* The symbols of a body that begins with x, and the characters it stands for.
LEMMA BodySymbols ==
    ASSUME NEW t \in Seq(Character), NEW b \in Nat, Len(t) = b + 1, NEW m \in 0..b,
           NEW x \in Seq(Symbol), Len(x) = Index(m, 1), Lies(t, x, m, 1),
           \A j \in (m + 1)..b : t[j] \notin Symbol
    PROVE  SymbolsOf(Front(t)) = x
<1> DEFINE s == Front(t)
<1>1. IsStr(s) /\ Len(s) = b /\ \A j \in 1..b : s[j] = t[j]
  BY BodyIs
<1>2. Lies(s, x, m, 1) /\ \A j \in (m + 1)..b : s[j] \notin Symbol
  BY <1>1 DEF Lies
<1> HIDE DEF s
<1>3. SymbolsOf(s) = x
  BY ONLY <1>1, <1>2, x \in Seq(Symbol), m \in 0..b, Len(x) = Index(m, 1), SymbolsIs
<1> QED
  BY <1>3 DEF s

\* A body of whole groups.
LEMMA BodyWhole ==
    ASSUME NEW t \in Seq(Character), NEW b \in Nat, Len(t) = b + 1,
           NEW x \in Seq(Symbol), Len(x) = Index(b, 1), Len(x) % 4 = 0, Lies(t, x, b, 1), LastPasses(t, b)
    PROVE  Accepts(t, TRUE) /\ SymbolsOf(Front(t)) = x
<1> DEFINE M == Place(Len(Chars(x)), 1)
<1>1. SymbolsOf(Front(t)) = x
  <2>1. b \in 0..b /\ \A j \in (b + 1)..b : t[j] \notin Symbol
    OBVIOUS
  <2> QED
    BY <2>1, BodySymbols
<1>2. Filled(Whole(x, 6, 8), 8, 6) = x
  BY FilledOfWhole DEF Canonical
<1>3. IsStr(x) /\ Len(x) \in Nat
  BY StrIn
<1>4. Len(Chars(x)) = Len(x) /\ \A i \in 1..Len(x) : Chars(x)[i] = x[i]
  <2>1. /\ Len(Chars(x)) = Len(x) + ((4 - (Len(x) % 4)) % 4)
        /\ \A i \in 1..Len(Chars(x)) : Chars(x)[i] = IF i <= Len(x) THEN x[i] ELSE PAD
    BY <1>3, CharsIs
  <2>2. (4 - (Len(x) % 4)) % 4 = 0
    OBVIOUS
  <2>3. Len(Chars(x)) = Len(x)
    BY <1>3, <2>1, <2>2
  <2> QED
    BY <1>3, <2>1, <2>3
<1>5. M \in Nat /\ (b = M \/ (b = M + 1 /\ Ends(b, 1)))
  BY <1>4, BodyEnds
<1>6. Lies(t, Chars(x), M, 1)
  <2>1. ASSUME NEW j \in 1..M PROVE t[j] = IF Ends(j, 1) THEN NL ELSE Chars(x)[Index(j, 1)]
    <3>1. j \in 1..b
      BY <1>5
    <3>2. t[j] = IF Ends(j, 1) THEN NL ELSE x[Index(j, 1)]
      BY <3>1 DEF Lies
    <3>3. ~Ends(j, 1) => Index(j, 1) \in 1..Len(x)
      BY <3>1, IndexBefore
    <3> QED
      BY ONLY <1>4, <3>2, <3>3
  <2> QED
    BY ONLY <2>1 DEF Lies
<1>7. ~HasPad(t, b)
  BY LiesWithout DEF HasPad
<1>8. b = M + 1 => t[b] = NL
  <2>1. ASSUME b = M + 1 PROVE t[b] = NL
    <3>1. b \in 1..b /\ Ends(b, 1)
      BY <1>5, <2>1
    <3> QED
      BY <3>1 DEF Lies
  <2> QED
    BY <2>1
<1> HIDE DEF M
<1>9. Accepts(t, TRUE) <=> Fits(t, b, x, x, M)
  <2>1. M = Place(Len(Chars(x)), 1)
    BY DEF M
  <2> QED
    BY <1>1, <1>2, <1>3, <2>1, AcceptsIs
<1> QED
  BY ONLY <1>1, <1>5, <1>6, <1>7, <1>8, <1>9, LastPasses(t, b) DEF Fits

\* A body of whole groups but for one or two '='.
LEMMA BodyPadded ==
    ASSUME NEW t \in Seq(Character), NEW b \in Nat, Len(t) = b + 1, NEW x \in Seq(Symbol), Canonical(x),
           NEW m \in Nat, Len(x) = Index(m, 1), Lies(t, x, m, 1), m < b, b <= m + 2, ~Ends(m + 1, 1),
           Index(b, 1) % 4 = 0, \A i \in (m + 1)..b : t[i] = PAD
    PROVE  Accepts(t, TRUE) /\ SymbolsOf(Front(t)) = x
<1> DEFINE q == Len(x)
           c == Chars(x)
           M == Place(Len(c), 1)
<1>1. SymbolsOf(Front(t)) = x
  <2>1. m \in 0..b
    OBVIOUS
  <2>2. \A j \in (m + 1)..b : t[j] \notin Symbol
    BY PadIsNoSymbol
  <2> QED
    BY <2>1, <2>2, BodySymbols
<1>2. Filled(Whole(x, 6, 8), 8, 6) = x
  BY FilledOfWhole
<1>3. IsStr(x) /\ q \in Nat /\ (q % 4 = 0 \/ q % 4 = 2 \/ q % 4 = 3)
  BY StrIn DEF Canonical
<1>4. /\ Len(c) = q + ((4 - (q % 4)) % 4)
      /\ \A i \in 1..Len(c) : c[i] = IF i <= q THEN x[i] ELSE PAD
  BY <1>3, CharsIs
<1>5. Index(m + 1, 1) = q + 1
  BY IndexSteps
<1> HIDE DEF q, c, M
<1>6. b = m + 1 \/ b = m + 2
  OBVIOUS
<1>7. b = m + 2 => Index(b, 1) = IF Ends(b, 1) THEN q + 1 ELSE q + 2
  <2>1. m + 1 \in Nat /\ (m + 1) + 1 = m + 2
    OBVIOUS
  <2> DEFINE k == m + 1
  <2> HIDE DEF k
  <2>2. Index(k + 1, 1) = IF Ends(k + 1, 1) THEN Index(k, 1) ELSE Index(k, 1) + 1
    BY <2>1, IndexSteps DEF k
  <2> QED
    BY ONLY <1>3, <1>5, <2>1, <2>2 DEF k
<1>8. M = Place(Len(c), 1)
  BY DEF M
<1>9. /\ M = m + 1 \/ (M = m + 2 /\ ~Ends(m + 2, 1))
      /\ b = M \/ (b = M + 1 /\ Ends(b, 1) /\ q % 4 = 3)
      /\ Len(c) = IF M = m + 1 THEN q + 1 ELSE q + 2
  <2>1. Place(q + 1, 1) = m + 1
    <3>1. m + 1 \in Nat \ {0}
      OBVIOUS
    <3> QED
      BY <1>5, <3>1, PlaceOfIndex
  <2>2. CASE b = m + 1
    <3>1. q % 4 = 3 /\ Len(c) = q + 1
      BY ONLY <1>3, <1>4, <1>5, <2>2, Index(b, 1) % 4 = 0
    <3> QED
      BY ONLY <1>8, <2>1, <2>2, <3>1
  <2>3. CASE b = m + 2 /\ Ends(b, 1)
    <3>1. (q + 1) % 4 = 0
      BY <1>7, <2>3
    <3>2. q % 4 = 3 /\ Len(c) = q + 1
      <4>1. q % 4 = 3
        BY ONLY <1>3, <3>1
      <4>2. (4 - (q % 4)) % 4 = 1
        BY ONLY <4>1
      <4> QED
        BY ONLY <1>4, <4>1, <4>2
    <3>3. b = (m + 1) + 1
      BY <2>3
    <3> QED
      BY ONLY <1>8, <2>1, <2>3, <3>2, <3>3
  <2>4. CASE b = m + 2 /\ ~Ends(b, 1)
    <3>1. (q + 2) % 4 = 0 /\ Index(b, 1) = q + 2
      BY <1>7, <2>4
    <3>2. Len(c) = q + 2
      BY ONLY <1>3, <1>4, <3>1
    <3>3. b \in Nat \ {0}
      BY <2>4
    <3>4. Place(Index(b, 1), 1) = b
      BY <2>4, <3>3, PlaceOfIndex
    <3>5. b # m + 1
      BY <2>4
    <3> QED
      BY ONLY <1>8, <2>4, <3>1, <3>2, <3>4, <3>5
  <2> QED
    BY <1>6, <2>2, <2>3, <2>4
<1>10. Lies(t, c, M, 1)
  <2>1. ASSUME NEW j \in 1..M PROVE t[j] = IF Ends(j, 1) THEN NL ELSE c[Index(j, 1)]
    <3>1. CASE j <= m
      <4>1. j \in 1..m
        BY <1>9, <3>1
      <4>2. t[j] = IF Ends(j, 1) THEN NL ELSE x[Index(j, 1)]
        BY <4>1 DEF Lies
      <4>3. ~Ends(j, 1) => Index(j, 1) \in 1..q
        BY <4>1, IndexBefore DEF q
      <4>4. ASSUME NEW i \in 1..q PROVE c[i] = x[i]
        BY <1>3, <1>4, <1>9
      <4> QED
        BY ONLY <4>2, <4>3, <4>4
    <3>2. CASE j = m + 1
      <4>1. t[j] = PAD /\ ~Ends(j, 1) /\ Index(j, 1) = q + 1
        BY <1>5, <3>2
      <4>2. q + 1 \in 1..Len(c) /\ ~(q + 1 <= q)
        BY ONLY <1>3, <1>9
      <4> QED
        BY ONLY <1>4, <4>1, <4>2
    <3>3. CASE j = m + 2
      <4>1. M = m + 2 /\ b = m + 2
        BY <1>6, <1>9, <3>3
      <4>2. t[j] = PAD /\ ~Ends(j, 1) /\ Index(j, 1) = q + 2
        BY <1>7, <1>9, <3>3, <4>1
      <4>3. q + 2 \in 1..Len(c) /\ ~(q + 2 <= q)
        BY ONLY <1>3, <1>9, <4>1, m \in Nat
      <4> QED
        BY ONLY <1>4, <4>2, <4>3
    <3> QED
      BY <1>9, <3>1, <3>2, <3>3
  <2> QED
    BY ONLY <2>1 DEF Lies
<1>11. HasPad(t, b)
  <2>1. m + 1 \in 1..b /\ m + 1 \in (m + 1)..b
    OBVIOUS
  <2> QED
    BY <2>1 DEF HasPad
<1>12. t[b] = PAD
  OBVIOUS
<1>13. Accepts(t, TRUE) <=> Fits(t, b, x, x, M)
  <2>1. M = Place(Len(Chars(x)), 1)
    BY DEF c, M
  <2> QED
    BY <1>1, <1>2, <1>3, <2>1, AcceptsIs
<1> QED
  BY ONLY <1>1, <1>9, <1>10, <1>11, <1>12, <1>13 DEF q, c, Fits

\* The last symbol of a lone one's text holds no byte.
LEMMA WholeOfFront ==
    ASSUME NEW x \in Seq(Symbol), Len(x) % 4 = 1, NEW y \in Seq(Symbol), Len(x) = Len(y) + 1,
           \A i \in 1..Len(y) : y[i] = x[i]
    PROVE  Whole(y, 6, 8) = Whole(x, 6, 8)
<1> DEFINE l == Len(y)
           a == Whole(y, 6, 8)
           d == Whole(x, 6, 8)
           G == l \div 4
<1>1. l \in Nat /\ Len(x) = l + 1 /\ l = 4 * G /\ G \in Nat
  <2>1. l \in Nat /\ Len(x) = l + 1
    OBVIOUS
  <2>2. (l + 1) % 4 = 1
    BY <2>1
  <2> HIDE DEF l
  <2> QED
    BY ONLY <2>1, <2>2
<1>2. /\ a \in Seq(Octet) /\ Len(a) = (6 * l) \div 8 /\ \A k \in 1..Len(a) : a[k] = Digit(y, 6, 8, k)
      /\ d \in Seq(Octet) /\ Len(d) = (6 * Len(x)) \div 8 /\ \A k \in 1..Len(d) : d[k] = Digit(x, 6, 8, k)
  BY WholeIs
<1>3. \A i \in 1..l : y[i] = x[i]
  OBVIOUS
<1> HIDE DEF l, a, d, G
<1>4. Len(a) = 3 * G /\ Len(d) = 3 * G
  BY ONLY <1>1, <1>2
<1>5. ASSUME NEW p \in Nat, p < l PROVE ElementAt(y, p) = ElementAt(x, p)
  <2>1. ElementAt(y, p) = y[p + 1]
    BY <1>5 DEF ElementAt, l
  <2>2. ElementAt(x, p) = x[p + 1]
    BY <1>1, <1>5 DEF ElementAt
  <2>3. p + 1 \in 1..l
    BY <1>1, <1>5
  <2> QED
    BY ONLY <1>3, <2>1, <2>2, <2>3
<1>6. ASSUME NEW k \in 1..(3 * G) PROVE a[k] = d[k]
  <2>1. k \in Nat \ {0} /\ k <= 3 * G
    BY <1>1
  <2>2. PICK g \in Nat : k = 3 * g + 1 \/ k = 3 * g + 2 \/ k = 3 * g + 3
    BY ONLY <2>1, ThreeCases
  <2>3. 4 * g + 3 < l /\ 4 * g + 2 < l /\ 4 * g + 1 < l /\ 4 * g + 0 < l
    BY ONLY <1>1, <2>1, <2>2
  <2> DEFINE A == ElementAt(x, 4 * g + 0)
             B == ElementAt(x, 4 * g + 1)
             C == ElementAt(x, 4 * g + 2)
             D == ElementAt(x, 4 * g + 3)
  <2>4. ElementAt(y, 4 * g + 0) = A /\ ElementAt(y, 4 * g + 1) = B /\ ElementAt(y, 4 * g + 2) = C /\ ElementAt(y, 4 * g + 3) = D
    BY ONLY <1>5, <2>3, 4 * g + 0 \in Nat, 4 * g + 1 \in Nat, 4 * g + 2 \in Nat, 4 * g + 3 \in Nat
  <2>5. /\ Digit(x, 6, 8, 3 * g + 1) = A * 4 + B \div 16
        /\ Digit(x, 6, 8, 3 * g + 2) = (B % 16) * 16 + C \div 4
        /\ Digit(x, 6, 8, 3 * g + 3) = (C % 4) * 64 + D
    BY GroupOfSymbols DEF Symbol
  <2>6. /\ Digit(y, 6, 8, 3 * g + 1) = ElementAt(y, 4 * g + 0) * 4 + ElementAt(y, 4 * g + 1) \div 16
        /\ Digit(y, 6, 8, 3 * g + 2) = (ElementAt(y, 4 * g + 1) % 16) * 16 + ElementAt(y, 4 * g + 2) \div 4
        /\ Digit(y, 6, 8, 3 * g + 3) = (ElementAt(y, 4 * g + 2) % 4) * 64 + ElementAt(y, 4 * g + 3)
    BY GroupOfSymbols DEF Symbol
  <2> HIDE DEF A, B, C, D
  <2>7. Digit(y, 6, 8, k) = Digit(x, 6, 8, k)
    BY ONLY <2>2, <2>4, <2>5, <2>6
  <2> QED
    BY ONLY <1>2, <1>4, <2>7, k \in 1..(3 * G)
<1>7. IsStr(a) /\ IsStr(d) /\ Len(a) = Len(d) /\ \A k \in 1..Len(a) : a[k] = d[k]
  <2>1. IsStr(a) /\ IsStr(d)
    BY <1>2, StrIn
  <2> QED
    BY ONLY <1>4, <1>6, <2>1
<1>8. a = d
  BY ONLY <1>7, StrEqual
<1> QED
  BY <1>8 DEF a, d

\* What the decoder takes is accepted.
LEMMA TakesAccepts ==
    ASSUME NEW t \in Seq(Character), NEW b \in Nat, Len(t) = b + 1, NEW m, NEW x, Shape(t, m, x, 1),
           Good(t, m, b), Canonical(x) \/ LoneSymbolPasses(x)
    PROVE  Accepts(t, TRUE) /\ Whole(SymbolsOf(Front(t)), 6, 8) = Whole(x, 6, 8)
<1>1. m \in 0..(b + 1) /\ x \in Seq(Symbol) /\ Len(x) = Index(m, 1) /\ Lies(t, x, m, 1)
  BY DEF Shape, Lies
<1>2. /\ Index(b, 1) % 4 = 0 /\ b <= m + 2 /\ \A i \in (m + 1)..b : t[i] = PAD
      /\ m = b + 1 \/ (~Ends(m + 1, 1) /\ (t[m + 1] = PAD \/ (m = b /\ t[m + 1] = NL)))
  BY DEF Good
<1>3. /\ Index(b + 1, 1) = IF Ends(b + 1, 1) THEN Index(b, 1) ELSE Index(b, 1) + 1
      /\ Index(b, 1) \in Nat
  BY IndexSteps
<1>4. CASE m = b + 1 /\ Ends(b + 1, 1)
  <2>1. Len(x) = Index(b, 1) /\ Len(x) % 4 = 0
    BY <1>1, <1>2, <1>3, <1>4
  <2>2. Lies(t, x, b, 1)
    BY <1>1, <1>4 DEF Lies
  <2>3. b + 1 \in 1..m
    BY <1>4
  <2>4. t[b + 1] = NL
    BY <1>1, <1>4, <2>3 DEF Lies
  <2>5. LastPasses(t, b)
    BY <2>4 DEF LastPasses
  <2>6. Accepts(t, TRUE) /\ SymbolsOf(Front(t)) = x
    BY <1>1, <2>1, <2>2, <2>5, BodyWhole
  <2> QED
    BY <2>6
<1>5. CASE m = b + 1 /\ ~Ends(b + 1, 1)
  <2> DEFINE l == Index(b, 1)
             y == SubSeq(x, 1, l)
  <2>1. Len(x) = l + 1 /\ l \in Nat /\ l % 4 = 0
    BY <1>1, <1>2, <1>3, <1>5
  <2>2. IsStr(y) /\ Len(y) = l /\ \A i \in 1..l : y[i] = x[i]
    <3>1. IsStr(x) /\ l <= Len(x)
      BY <1>1, <2>1, StrIn
    <3> HIDE DEF l
    <3> QED
      BY <2>1, <3>1, StrFirst
  <2> HIDE DEF y
  <2>3. y \in Seq(Symbol)
    <3>1. \A i \in 1..Len(y) : y[i] \in Symbol
      BY <1>1, <2>1, <2>2
    <3> QED
      BY ONLY <2>2, <3>1, StrSub
  <2>4. Len(x) % 4 = 1
    BY ONLY <2>1
  <2>5. LoneSymbolPasses(x)
    BY <2>4 DEF Canonical
  <2>6. SymbolsOf(t) = x
    <3>1. IsStr(t) /\ m \in 0..Len(t) /\ \A j \in (m + 1)..Len(t) : t[j] \notin Symbol
      BY <1>1, <1>5, StrIn
    <3> QED
      BY ONLY <1>1, <3>1, SymbolsIs
  <2>7. LastPasses(t, b)
    BY <1>5, <2>5, <2>6 DEF LastPasses
  <2>8. Lies(t, y, b, 1)
    <3>1. ASSUME NEW j \in 1..b PROVE t[j] = IF Ends(j, 1) THEN NL ELSE y[Index(j, 1)]
      <4>1. j \in 1..m
        BY <1>5
      <4>2. t[j] = IF Ends(j, 1) THEN NL ELSE x[Index(j, 1)]
        BY <1>1, <4>1 DEF Lies
      <4>3. ~Ends(j, 1) => Index(j, 1) \in 1..l
        BY IndexBefore
      <4> QED
        BY ONLY <2>2, <4>2, <4>3
    <3> QED
      BY ONLY <3>1 DEF Lies
  <2>9. Accepts(t, TRUE) /\ SymbolsOf(Front(t)) = y
    <3>1. Len(y) = Index(b, 1) /\ Len(y) % 4 = 0
      BY <2>1, <2>2
    <3> QED
      BY <2>3, <2>7, <2>8, <3>1, BodyWhole
  <2>10. Whole(y, 6, 8) = Whole(x, 6, 8)
    <3>1. Len(x) = Len(y) + 1 /\ \A i \in 1..Len(y) : y[i] = x[i]
      BY <2>1, <2>2
    <3> QED
      BY <1>1, <2>3, <2>4, <3>1, WholeOfFront
  <2> QED
    BY <2>9, <2>10
<1>6. CASE m = b
  <2>1. LastPasses(t, b)
    BY <1>2, <1>6 DEF LastPasses
  <2>2. Accepts(t, TRUE) /\ SymbolsOf(Front(t)) = x
    BY <1>1, <1>2, <1>6, <2>1, BodyWhole
  <2> QED
    BY <2>2
<1>7. CASE m # b + 1 /\ m # b
  <2>1. m \in Nat /\ m < b /\ b <= m + 2 /\ ~Ends(m + 1, 1)
    BY <1>1, <1>2, <1>7
  <2>2. b = m + 1 \/ b = m + 2
    BY <2>1
  <2>3. Index(m + 1, 1) = Index(m, 1) + 1 /\ Index(m, 1) \in Nat
    BY <2>1, IndexSteps
  <2>4. Index(m + 2, 1) = Index(m, 1) + 1 \/ Index(m + 2, 1) = Index(m, 1) + 2
    <3> DEFINE k == m + 1
    <3>1. k \in Nat /\ k + 1 = m + 2 /\ Index(k, 1) = Index(m, 1) + 1
      BY <2>1, <2>3
    <3> HIDE DEF k
    <3>2. Index(k + 1, 1) = Index(k, 1) \/ Index(k + 1, 1) = Index(k, 1) + 1
      BY ONLY <3>1, IndexSteps
    <3> QED
      BY ONLY <2>3, <3>1, <3>2
  <2>5. Len(x) % 4 # 1
    <3> DEFINE q == Len(x)
               i == Index(b, 1)
    <3>1. q \in Nat /\ (i = q + 1 \/ i = q + 2) /\ i % 4 = 0
      BY <1>1, <1>2, <2>2, <2>3, <2>4
    <3> HIDE DEF q, i
    <3>2. q % 4 # 1
      BY ONLY <3>1
    <3> QED
      BY <3>2 DEF q
  <2>6. Canonical(x)
    BY <2>5 DEF LoneSymbolPasses
  <2>7. Accepts(t, TRUE) /\ SymbolsOf(Front(t)) = x
    BY <1>1, <1>2, <2>1, <2>6, BodyPadded
  <2> QED
    BY <2>7
<1> QED
  BY <1>4, <1>5, <1>6, <1>7

\* The symbols of any text.
LEMMA SymbolsType ==
    ASSUME NEW s, IsStr(s)
    PROVE  SymbolsOf(s) \in Seq(Symbol)
<1> DEFINE D == Seq(Symbol)
<1>1. \A v \in D : \A i \in 1..Len(s) : SymbolIn(v, s[i]) \in D
  BY DEF SymbolIn
<1>2. <<>> \in D
  OBVIOUS
<1> HIDE DEF D
<1>3. PICK h : SymbolRun(h, D, <<>>, s) /\ SymbolsOf(s) = h[Len(s)]
  BY <1>1, <1>2, SymbolFolds DEF SymbolsOf
<1>4. Len(s) \in 0..Len(s)
  BY StrIs
<1>5. SymbolsOf(s) \in D
  BY <1>3, <1>4 DEF SymbolRun
<1> QED
  BY <1>5 DEF D

\* The symbols of bytes are canonical.
LEMMA FilledCanonical ==
    ASSUME NEW d \in Seq(Octet)
    PROVE  LET y == Filled(d, 8, 6) IN y \in Seq(Symbol) /\ Canonical(y) /\ Whole(y, 6, 8) = d
<1> DEFINE y == Filled(d, 8, 6)
<1>1. y \in Seq(Symbol) /\ Whole(y, 6, 8) = d
  BY FilledIs, WholeOfFilled
<1>2. Filled(Whole(y, 6, 8), 8, 6) = y
  BY <1>1
<1> HIDE DEF y
<1>3. Canonical(y)
  BY <1>1, <1>2, FilledOfWhole
<1> QED
  BY <1>1, <1>3 DEF y

\* The decoder goes past the first m characters, x, and takes them.
Takes(t, m, x, b) ==
    Shape(t, m, x, 1) /\ Good(t, m, b) /\ (Canonical(x) \/ LoneSymbolPasses(x))

\* A body of whole groups is taken, with the last character the decoder wants.
LEMMA WholeTaken ==
    ASSUME NEW t \in Seq(Character), NEW b \in Nat, Len(t) = b + 1, NEW y \in Seq(Symbol),
           Len(y) = Index(b, 1), Len(y) % 4 = 0, Lies(t, y, b, 1), LastPasses(t, b)
    PROVE  \E m, x : Takes(t, m, x, b)
<1> DEFINE n == b + 1
           e == t[n]
<1>1. /\ Index(n, 1) = IF Ends(n, 1) THEN Index(b, 1) ELSE Index(b, 1) + 1
      /\ Index(b, 1) \in Nat
  BY IndexSteps
<1>2. Canonical(y)
  BY DEF Canonical
<1>3. \A j \in 1..b : t[j] = IF Ends(j, 1) THEN NL ELSE y[Index(j, 1)]
  BY DEF Lies
<1>4. CASE Ends(n, 1)
  <2>1. e = NL
    BY <1>4 DEF LastPasses
  <2>2. \A j \in 1..n : t[j] = IF Ends(j, 1) THEN NL ELSE y[Index(j, 1)]
    <3>1. ASSUME NEW j \in 1..n PROVE t[j] = IF Ends(j, 1) THEN NL ELSE y[Index(j, 1)]
      <4>1. j \in 1..b \/ j = n
        OBVIOUS
      <4> QED
        BY ONLY <1>3, <1>4, <2>1, <4>1 DEF e
    <3> QED
      BY <3>1
  <2>3. n \in 0..Len(t) /\ ~(n < Len(t)) /\ Len(y) = Index(n, 1)
    BY <1>1, <1>4
  <2>4. Shape(t, n, y, 1)
    BY ONLY <2>2, <2>3, y \in Seq(Symbol) DEF Shape
  <2>5. Good(t, n, b)
    <3>1. Index(b, 1) % 4 = 0 /\ b <= n + 2 /\ \A i \in (n + 1)..b : FALSE
      OBVIOUS
    <3> QED
      BY <3>1 DEF Good
  <2> QED
    BY <1>2, <2>4, <2>5 DEF Takes
<1>5. CASE ~Ends(n, 1) /\ e \notin Symbol /\ e \in {NL, PAD}
  <2>1. b \in 0..Len(t) /\ ~Passes(t, b + 1, 1)
    BY <1>5 DEF Passes
  <2>2. Shape(t, b, y, 1)
    BY ONLY <1>3, <2>1, y \in Seq(Symbol), Len(y) = Index(b, 1) DEF Shape
  <2>3. Good(t, b, b)
    <3>1. Index(b, 1) % 4 = 0 /\ b <= b + 2 /\ \A i \in (b + 1)..b : FALSE
      OBVIOUS
    <3> QED
      BY <1>5, <3>1 DEF Good
  <2> QED
    BY <1>2, <2>2, <2>3 DEF Takes
<1>6. CASE ~Ends(n, 1) /\ e \in Symbol
  <2> DEFINE x == Append(y, e)
             l == Len(y)
  <2>1. IsStr(x) /\ Len(x) = l + 1 /\ x[l + 1] = e /\ \A i \in 1..l : x[i] = y[i]
    BY StrIn, CatAppend
  <2>2. x \in Seq(Symbol)
    BY <1>6
  <2>3. l = Index(b, 1) /\ Index(n, 1) = l + 1 /\ l \in Nat
    BY <1>1, <1>6
  <2> HIDE DEF x, l
  <2>4. \A j \in 1..n : t[j] = IF Ends(j, 1) THEN NL ELSE x[Index(j, 1)]
    <3>1. ASSUME NEW j \in 1..n PROVE t[j] = IF Ends(j, 1) THEN NL ELSE x[Index(j, 1)]
      <4>1. CASE j \in 1..b
        <5>1. ~Ends(j, 1) => Index(j, 1) \in 1..l
          BY <2>3, <4>1, IndexBefore
        <5> QED
          BY ONLY <1>3, <2>1, <4>1, <5>1
      <4>2. CASE j = n
        BY ONLY <1>6, <2>1, <2>3, <4>2 DEF e
      <4> QED
        BY <4>1, <4>2
    <3> QED
      BY <3>1
  <2>5. n \in 0..Len(t) /\ ~(n < Len(t))
    OBVIOUS
  <2>6. Shape(t, n, x, 1)
    BY ONLY <2>1, <2>2, <2>3, <2>4, <2>5 DEF Shape
  <2>7. Good(t, n, b)
    <3>1. Index(b, 1) % 4 = 0 /\ b <= n + 2 /\ \A i \in (n + 1)..b : FALSE
      OBVIOUS
    <3> QED
      BY <3>1 DEF Good
  <2>8. SymbolsOf(t) = x
    <3>1. IsStr(t) /\ Lies(t, x, n, 1) /\ \A j \in (n + 1)..Len(t) : t[j] \notin Symbol
      BY <2>4, StrIn DEF Lies
    <3>2. Len(x) = Index(n, 1)
      BY <2>1, <2>3
    <3> QED
      BY ONLY <2>2, <2>5, <3>1, <3>2, SymbolsIs
  <2>9. LoneSymbolPasses(x)
    <3>1. e # NL /\ e # PAD
      BY <1>6, SymbolKinds
    <3> QED
      BY <2>8, <3>1 DEF LastPasses
  <2> QED
    BY <2>6, <2>7, <2>9 DEF Takes
<1>7. CASE ~Ends(n, 1) /\ e \notin Symbol /\ e \notin {NL, PAD}
  <2>1. SymbolsOf(t) = y
    <3>1. IsStr(t) /\ b \in 0..Len(t)
      BY StrIn
    <3>2. \A j \in (b + 1)..Len(t) : t[j] \notin Symbol
      <4>1. ASSUME NEW j \in (b + 1)..Len(t) PROVE j = n
        OBVIOUS
      <4> QED
        BY <1>7, <4>1
    <3> QED
      BY <3>1, <3>2, SymbolsIs
  <2>2. LoneSymbolPasses(y)
    BY <1>7, <2>1 DEF LastPasses
  <2> QED
    BY <2>2 DEF LoneSymbolPasses
<1> QED
  BY <1>4, <1>5, <1>6, <1>7

\* A body that ends with the '=' of its last group is taken.
LEMMA PaddedTaken ==
    ASSUME NEW t \in Seq(Character), NEW b \in Nat, Len(t) = b + 1, NEW y \in Seq(Symbol), Canonical(y),
           NEW M, M = Place(Len(Chars(y)), 1), Lies(t, Chars(y), M, 1), HasPad(t, b),
           b = M \/ (b = M + 1 /\ t[b] = PAD /\ Ends(b, 1) /\ Len(y) % 4 = 3)
    PROVE  \E m, x : Takes(t, m, x, b)
<1> DEFINE q == Len(y)
           c == Chars(y)
           N == Len(c)
           m == Place(q, 1)
<1>1. IsStr(y) /\ q \in Nat /\ (q % 4 = 0 \/ q % 4 = 2 \/ q % 4 = 3)
  BY StrIn DEF Canonical
<1>2. /\ N = q + ((4 - (q % 4)) % 4) /\ N % 4 = 0 /\ N \in Nat
      /\ \A i \in 1..N : c[i] = IF i <= q THEN y[i] ELSE PAD
  BY <1>1, CharsIs
<1> HIDE DEF q, c, N, m
<1>3. M = Place(N, 1) /\ Lies(t, c, M, 1)
  BY DEF N, c
<1>4. M \in Nat /\ Index(M, 1) = N
  BY <1>2, <1>3, PlaceNext
<1>5. q % 4 # 0
  <2> SUFFICES ASSUME q % 4 = 0 PROVE FALSE
    OBVIOUS
  <2>1. N = q
    BY <1>1, <1>2
  <2>2. b = M
    BY DEF q
  <2>3. \A j \in 1..M : t[j] = IF Ends(j, 1) THEN NL ELSE y[Index(j, 1)]
    <3>1. ASSUME NEW j \in 1..M PROVE t[j] = IF Ends(j, 1) THEN NL ELSE y[Index(j, 1)]
      <4>1. t[j] = IF Ends(j, 1) THEN NL ELSE c[Index(j, 1)]
        BY <1>3 DEF Lies
      <4>2. ~Ends(j, 1) => Index(j, 1) \in 1..q
        BY <1>4, <2>1, IndexBefore
      <4>3. \A i \in 1..q : c[i] = y[i]
        BY <1>2, <2>1
      <4> QED
        BY ONLY <4>1, <4>2, <4>3
    <3> QED
      BY <3>1
  <2>4. Lies(t, y, b, 1)
    BY ONLY <2>2, <2>3 DEF Lies
  <2>5. Len(y) = Index(b, 1)
    BY <1>4, <2>1, <2>2 DEF q
  <2>6. \A j \in 1..b : t[j] # PAD
    BY <2>4, <2>5, LiesWithout
  <2> QED
    BY <2>6 DEF HasPad
<1>6. /\ m \in Nat /\ Index(m, 1) = q /\ ~Ends(m + 1, 1)
      /\ Place(q + 1, 1) = m + 1 /\ Index(m + 1, 1) = q + 1
  BY <1>1, <1>5, PlaceNext DEF m
<1>7. q % 4 = 3 => N = q + 1 /\ M = m + 1
  BY <1>2, <1>3, <1>6
<1>8. q % 4 = 2 => N = q + 2 /\ M = m + 2 /\ Index(m + 2, 1) = q + 2 /\ ~Ends(m + 2, 1) /\ b = M
  <2> SUFFICES ASSUME q % 4 = 2
               PROVE  N = q + 2 /\ M = m + 2 /\ Index(m + 2, 1) = q + 2 /\ ~Ends(m + 2, 1) /\ b = M
    OBVIOUS
  <2> DEFINE r == q + 1
             k == m + 1
  <2>1. r \in Nat /\ r % 4 # 0 /\ r + 1 = q + 2 /\ k + 1 = m + 2
    BY <1>1, <1>6
  <2>2. k = Place(r, 1)
    BY <1>6
  <2>3. N = q + 2
    BY <1>2
  <2>4. b = M
    BY DEF q
  <2> HIDE DEF r, k
  <2>5. ~Ends(k + 1, 1) /\ Place(r + 1, 1) = k + 1 /\ Index(k + 1, 1) = r + 1
    BY <2>1, <2>2, PlaceNext
  <2> QED
    BY ONLY <1>3, <2>1, <2>3, <2>4, <2>5
<1>9. M = m + 1 \/ M = m + 2
  BY <1>1, <1>5, <1>7, <1>8
<1>10. q + 1 <= N /\ \A i \in 1..q : c[i] = y[i]
  BY <1>1, <1>2, <1>5, <1>7, <1>8
<1>11. t[m + 1] = PAD
  <2>1. m + 1 \in 1..M /\ q + 1 \in 1..N /\ ~(q + 1 <= q)
    BY <1>1, <1>6, <1>9, <1>10, <1>2
  <2>2. t[m + 1] = c[q + 1]
    BY ONLY <1>3, <1>6, <2>1 DEF Lies
  <2> QED
    BY ONLY <1>2, <2>1, <2>2
<1>12. ASSUME b = m + 2 PROVE t[m + 2] = PAD
  <2>1. CASE q % 4 = 2
    <3>1. m + 2 \in 1..M /\ q + 2 \in 1..N /\ ~(q + 2 <= q)
      BY <1>1, <1>2, <1>6, <1>8, <2>1
    <3>2. t[m + 2] = c[q + 2]
      BY ONLY <1>3, <1>8, <2>1, <3>1 DEF Lies
    <3> QED
      BY ONLY <1>2, <3>1, <3>2
  <2>2. CASE q % 4 = 3
    <3>1. b # M
      BY <1>6, <1>7, <1>12, <2>2
    <3> QED
      BY <1>12, <3>1
  <2> QED
    BY <1>1, <1>5, <2>1, <2>2
<1>13. b = m + 1 \/ b = m + 2
  BY <1>1, <1>4, <1>5, <1>6, <1>7, <1>8
<1>14. Shape(t, m, y, 1)
  <2>1. m \in 0..Len(t) /\ m \in Nat
    BY <1>6, <1>13
  <2>2. Len(y) = Index(m, 1)
    BY <1>6 DEF q
  <2>3. ASSUME NEW j \in 1..m PROVE t[j] = IF Ends(j, 1) THEN NL ELSE y[Index(j, 1)]
    <3>1. j \in 1..M
      BY <1>6, <1>9
    <3>2. t[j] = IF Ends(j, 1) THEN NL ELSE c[Index(j, 1)]
      BY <1>3, <3>1 DEF Lies
    <3>3. ~Ends(j, 1) => Index(j, 1) \in 1..q
      BY <1>6, IndexBefore
    <3> QED
      BY ONLY <1>10, <3>2, <3>3
  <2>4. ~Passes(t, m + 1, 1)
    BY ONLY <1>6, <1>11, PadIsNoSymbol DEF Passes
  <2> QED
    BY ONLY <2>1, <2>2, <2>3, <2>4, y \in Seq(Symbol) DEF Shape
<1>15. Good(t, m, b)
  <2>1. Index(b, 1) % 4 = 0
    <3>1. CASE b = M
      BY <1>2, <1>4, <3>1
    <3>2. CASE b = M + 1 /\ Ends(b, 1)
      BY <3>2, IndexSteps
    <3> QED
      BY <3>1, <3>2
  <2>2. b <= m + 2
    BY <1>6, <1>13
  <2>3. ASSUME NEW i \in (m + 1)..b PROVE t[i] = PAD
    <3>1. i = m + 1 \/ (i = m + 2 /\ b = m + 2)
      BY <1>6, <1>13
    <3> QED
      BY ONLY <1>11, <1>12, <3>1
  <2> QED
    BY ONLY <1>6, <1>11, <2>1, <2>2, <2>3 DEF Good
<1> QED
  BY <1>14, <1>15 DEF Takes

\* What is accepted is taken.
LEMMA AcceptsTaken ==
    ASSUME NEW t \in Seq(Character), NEW b \in Nat, Len(t) = b + 1, Accepts(t, TRUE)
    PROVE  \E m, x : Takes(t, m, x, b)
<1> DEFINE w == SymbolsOf(Front(t))
           y == Filled(Whole(w, 6, 8), 8, 6)
           M == Place(Len(Chars(y)), 1)
<1>1. w \in Seq(Symbol)
  BY BodyIs, SymbolsType
<1> HIDE DEF w
<1>2. Whole(w, 6, 8) \in Seq(Octet)
  BY <1>1, WholeIs
<1>3. y \in Seq(Symbol) /\ Canonical(y)
  BY <1>2, FilledCanonical
<1>4. Len(w) % 4 # 1 => Len(y) = Len(w)
  BY <1>1, FilledOfWhole
<1>5. IsStr(y)
  BY <1>3, StrIn
<1> HIDE DEF y, M
<1>6. Accepts(t, TRUE) <=> Fits(t, b, w, y, M)
  <2>1. w = SymbolsOf(Front(t)) /\ y = Filled(Whole(w, 6, 8), 8, 6) /\ M = Place(Len(Chars(y)), 1)
    BY DEF w, y, M
  <2> QED
    BY <1>5, <2>1, AcceptsIs
<1>7. /\ Lies(t, Chars(y), M, 1)
      /\ \/ /\ HasPad(t, b)
            /\ b = M \/ (b = M + 1 /\ t[b] = PAD /\ Ends(b, 1) /\ Len(w) % 4 = 3)
         \/ /\ ~HasPad(t, b)
            /\ b = M \/ (b = M + 1 /\ Ends(b, 1) /\ t[b] = NL)
            /\ LastPasses(t, b)
  BY <1>6 DEF Fits
<1>8. M = Place(Len(Chars(y)), 1)
  BY DEF M
<1>9. CASE HasPad(t, b)
  <2>1. b = M \/ (b = M + 1 /\ t[b] = PAD /\ Ends(b, 1) /\ Len(w) % 4 = 3)
    BY <1>7, <1>9
  <2>2. b = M \/ (b = M + 1 /\ t[b] = PAD /\ Ends(b, 1) /\ Len(y) % 4 = 3)
    <3>1. Len(w) % 4 = 3 => Len(y) % 4 = 3
      BY <1>4
    <3> QED
      BY <2>1, <3>1
  <2> QED
    BY <1>3, <1>7, <1>8, <1>9, <2>2, PaddedTaken
<1>10. CASE ~HasPad(t, b)
  <2> DEFINE q == Len(y)
             c == Chars(y)
             N == Len(c)
  <2>1. /\ N = q + ((4 - (q % 4)) % 4) /\ N % 4 = 0 /\ N \in Nat /\ q \in Nat
        /\ \A i \in 1..N : c[i] = IF i <= q THEN y[i] ELSE PAD
    BY <1>5, CharsIs
  <2>2. /\ Lies(t, c, M, 1) /\ LastPasses(t, b)
        /\ b = M \/ (b = M + 1 /\ Ends(b, 1) /\ t[b] = NL)
    BY <1>7, <1>10
  <2>3. M \in Nat /\ Index(M, 1) = N
    BY <1>8, <2>1, PlaceNext
  <2> HIDE DEF q, c, N
  <2>4. N = q
    <3> SUFFICES ASSUME N # q PROVE FALSE
      OBVIOUS
    <3>1. N \in Nat \ {0} /\ ~(N <= q) /\ N \in 1..N
      BY <2>1
    <3>2. c[N] = PAD
      BY <2>1, <3>1
    <3>3. M \in 1..M /\ ~Ends(M, 1)
      <4>1. M = Place(N, 1)
        BY <1>8 DEF N, c
      <4>2. M \in Nat \ {0} /\ ~Ends(M, 1)
        BY <3>1, <4>1, IndexOfPlace
      <4> QED
        BY <4>2
    <3>4. t[M] = PAD
      BY ONLY <2>2, <2>3, <3>2, <3>3 DEF Lies
    <3>5. M \in 1..b
      BY <2>2, <3>3
    <3> QED
      BY <1>10, <3>4, <3>5 DEF HasPad
  <2>5. Len(y) % 4 = 0
    BY <2>1, <2>4 DEF q
  <2>6. Len(y) = Index(b, 1)
    <3>1. M + 1 \in Nat /\ (Ends(M + 1, 1) => Index(M + 1, 1) = Index(M, 1))
      BY <2>3, IndexSteps
    <3> QED
      BY <2>2, <2>3, <2>4, <3>1 DEF q
  <2>7. ASSUME NEW j \in 1..b PROVE t[j] = IF Ends(j, 1) THEN NL ELSE y[Index(j, 1)]
    <3>1. CASE j \in 1..M
      <4>1. t[j] = IF Ends(j, 1) THEN NL ELSE c[Index(j, 1)]
        BY <2>2, <3>1 DEF Lies
      <4>2. ~Ends(j, 1) => Index(j, 1) \in 1..q
        BY <2>3, <2>4, <3>1, IndexBefore
      <4>3. \A i \in 1..q : c[i] = y[i]
        BY <2>1, <2>4
      <4> QED
        BY ONLY <4>1, <4>2, <4>3
    <3>2. CASE j \notin 1..M
      <4>1. j = b /\ Ends(b, 1) /\ t[b] = NL
        BY <2>2, <2>3, <3>2
      <4> QED
        BY <4>1
    <3> QED
      BY <3>1, <3>2
  <2>8. Lies(t, y, b, 1)
    BY ONLY <2>7 DEF Lies
  <2> QED
    BY <1>3, <2>2, <2>5, <2>6, <2>8, WholeTaken
<1> QED
  BY <1>9, <1>10

-----------------------------------------------------------------------------
(* The decoder and what it accepts.                                        *)

\* The bytes a text stands for.
BytesOf(t, pad) == Whole(SymbolsOf(IF pad /\ t # <<>> THEN Front(t) ELSE t), 6, 8)

\* What a reader says of a text.
Agrees(r, t, pad) ==
    /\ r.ok <=> Accepts(t, pad)
    /\ r.ok => r.out = BytesOf(t, pad)

LEMMA RefusedIs == Refused.ok = FALSE
  BY DEF Refused
LEMMA TakenIs ==
    ASSUME NEW r, NEW z, r = [ok |-> TRUE, out |-> z]
    PROVE  r.ok = TRUE /\ r.out = z
  OBVIOUS
LEMMA AgreesWhen ==
    ASSUME NEW r, NEW t, NEW p, (r.ok = TRUE /\ Accepts(t, p = 1) /\ r.out = BytesOf(t, p = 1))
                                \/ (r.ok = FALSE /\ ~Accepts(t, p = 1))
    PROVE  Agrees(r, t, p = 1)
  BY Zenon DEF Agrees

\* With lines.
LEMMA LinesExact ==
    ASSUME NEW t \in Seq(Character)
    PROVE  Agrees(base64decode(t, TRUE), t, TRUE)
<1> DEFINE r == base64decode(t, TRUE)
           n == Len(t)
<1>1. (1 = 1) = TRUE /\ n \in Nat
  OBVIOUS
<1>2. ASSUME NEW m, NEW x, Shape(t, m, x, 1)
      PROVE  r = IF Refuses(t, m, 1) \/ ~(Canonical(x) \/ LoneSymbolPasses(x)) THEN Refused
                 ELSE [ok |-> TRUE, out |-> Whole(x, 6, 8)]
  <2>1. base64decode(t, 1 = 1) =
          IF Refuses(t, m, 1) \/ ~(Canonical(x) \/ LoneSymbolPasses(x)) THEN Refused
          ELSE [ok |-> TRUE, out |-> Whole(x, 6, 8)]
    BY <1>2, DecodeIs
  <2> QED
    BY <1>1, <2>1
<1>3. PICK m, x : Shape(t, m, x, 1)
  BY ShapeExists
<1>4. CASE n = 0
  <2>1. t = <<>> /\ IsStr(t)
    <3>1. IsStr(t)
      BY StrIn
    <3> QED
      BY <1>4, <3>1, StrNull
  <2>2. m = 0 /\ x \in Seq(Symbol) /\ Len(x) = 0
    <3>1. m = 0 /\ x \in Seq(Symbol) /\ Len(x) = Index(m, 1)
      BY <1>3, <1>4 DEF Shape
    <3>2. Index(0, 1) = 0
      BY IndexSteps, 0 \in Nat
    <3> QED
      BY <3>1, <3>2
  <2>3. ~Refuses(t, m, 1)
    <3>1. 0 % (LineLen + 1) = 0
      BY LineAssumption
    <3>2. ~(0 + 1 <= 0) /\ ~(0 + 1 + 2 < 0) /\ \A i \in (0 + 1)..(0 - 1) : FALSE
      OBVIOUS
    <3> QED
      BY <1>4, <2>2, <3>1, <3>2 DEF Refuses
  <2>4. Canonical(x)
    BY <2>2 DEF Canonical
  <2>5. SymbolsOf(t) = x
    <3>1. 0 \in 0..n /\ Len(x) = Index(0, 1) /\ Lies(t, x, 0, 1)
      <4>1. Index(0, 1) = 0
        BY IndexSteps, 0 \in Nat
      <4> QED
        BY <1>4, <2>2, <4>1 DEF Lies
    <3>2. \A j \in (0 + 1)..n : t[j] \notin Symbol
      BY <1>4
    <3> QED
      BY <2>1, <2>2, <3>1, <3>2, SymbolsIs
  <2>6. Accepts(t, TRUE)
    BY <2>1 DEF Accepts
  <2>7. r = [ok |-> TRUE, out |-> Whole(x, 6, 8)]
    BY <1>2, <1>3, <2>3, <2>4
  <2> HIDE DEF r
  <2>8. r.ok = TRUE /\ r.out = Whole(x, 6, 8)
    BY <2>7, TakenIs
  <2>9. BytesOf(t, TRUE) = Whole(x, 6, 8)
    BY <2>1, <2>5 DEF BytesOf
  <2>10. Agrees(r, t, TRUE)
    BY ONLY <2>6, <2>8, <2>9, <1>1, AgreesWhen
  <2> QED
    BY <2>10 DEF r
<1>5. CASE n # 0
  <2> DEFINE b == n - 1
  <2>1. b \in Nat /\ n = b + 1 /\ t # <<>>
    BY <1>1, <1>5
  <2> HIDE DEF b
  <2>2. ASSUME NEW k, NEW z, Shape(t, k, z, 1)
        PROVE  ~(Refuses(t, k, 1) \/ ~(Canonical(z) \/ LoneSymbolPasses(z))) <=> Takes(t, k, z, b)
    <3>1. k \in 0..(b + 1)
      BY <2>1, <2>2 DEF Shape
    <3>2. Refuses(t, k, 1) <=> ~Good(t, k, b)
      BY <2>1, <3>1, RefusesIs
    <3> QED
      BY <2>2, <3>2 DEF Takes
  <2>3. CASE Takes(t, m, x, b)
    <3>1. r = [ok |-> TRUE, out |-> Whole(x, 6, 8)]
      BY <1>2, <1>3, <2>2, <2>3
    <3> HIDE DEF r
    <3>2. Accepts(t, TRUE) /\ Whole(SymbolsOf(Front(t)), 6, 8) = Whole(x, 6, 8)
      <4>1. Shape(t, m, x, 1) /\ Good(t, m, b) /\ (Canonical(x) \/ LoneSymbolPasses(x))
        BY <2>3 DEF Takes
      <4> QED
        BY <2>1, <4>1, TakesAccepts
    <3>3. r.ok = TRUE /\ r.out = Whole(x, 6, 8)
      BY <3>1, TakenIs
    <3>4. BytesOf(t, TRUE) = Whole(x, 6, 8)
      BY <2>1, <3>2 DEF BytesOf
    <3>5. Agrees(r, t, TRUE)
      BY ONLY <3>2, <3>3, <3>4, <1>1, AgreesWhen
    <3> QED
      BY <3>5 DEF r
  <2>4. CASE ~Takes(t, m, x, b)
    <3>1. r = Refused
      BY <1>2, <1>3, <2>2, <2>4
    <3>2. ASSUME Accepts(t, TRUE) PROVE FALSE
      <4>1. PICK k, z : Takes(t, k, z, b)
        BY <2>1, <3>2, AcceptsTaken
      <4>2. Shape(t, k, z, 1)
        BY <4>1 DEF Takes
      <4>3. r = [ok |-> TRUE, out |-> Whole(z, 6, 8)]
        BY <1>2, <2>2, <4>1, <4>2
      <4> HIDE DEF r
      <4>4. r.ok = TRUE
        BY <4>3, TakenIs
      <4> QED
        BY <3>1, <4>4, RefusedIs
    <3> HIDE DEF r
    <3>3. r.ok = FALSE
      BY <3>1, RefusedIs
    <3>4. Agrees(r, t, TRUE)
      BY ONLY <3>2, <3>3, <1>1, AgreesWhen
    <3> QED
      BY <3>4 DEF r
  <2> QED
    BY <2>3, <2>4
<1> QED
  BY <1>4, <1>5

\* Without lines a text is laid from itself.
LEMMA LineLies ==
    ASSUME NEW t, NEW m \in Nat
    PROVE  Index(m, 0) = m /\ ~Ends(m, 0) /\ (\A x : Lies(t, x, m, 0) <=> \A j \in 1..m : t[j] = x[j])
<1>1. (0 = 1) = FALSE
  OBVIOUS
<1> QED
  BY <1>1 DEF Index, Ends, Lies

\* A text of symbols without lines.
LEMMA LineSymbols ==
    ASSUME NEW t \in Seq(Symbol)
    PROVE  /\ SymbolsOf(t) = t
           /\ t = Text(Whole(SymbolsOf(t), 6, 8), FALSE) <=> Canonical(t)
<1>1. IsStr(t) /\ Len(t) \in Nat
  BY StrIn
<1>2. SymbolsOf(t) = t
  <2>1. Len(t) = Index(Len(t), 0) /\ Lies(t, t, Len(t), 0)
    BY <1>1, LineLies
  <2>2. Len(t) \in 0..Len(t) /\ \A j \in (Len(t) + 1)..Len(t) : t[j] \notin Symbol
    BY <1>1
  <2> QED
    BY <1>1, <2>1, <2>2, SymbolsIs
<1> DEFINE d == Whole(t, 6, 8)
           y == Filled(d, 8, 6)
<1>3. d \in Seq(Octet)
  BY WholeIs
<1>4. IsStr(y)
  <2> HIDE DEF d
  <2>1. y \in Seq(Symbol)
    BY <1>3, FilledIs
  <2> HIDE DEF y
  <2> QED
    BY <2>1, StrIn
<1>5. y = t <=> Canonical(t)
  BY FilledOfWhole
<1> HIDE DEF d, y
<1>6. TextOf(d, 0) = IF 0 = 1 THEN Append(Spread(Chars(y), Place(Len(Chars(y)), 0), 0), NL) ELSE y
  <2>1. y = Filled(d, 8, 6)
    BY DEF y
  <2> QED
    BY ONLY <1>4, <2>1, TextIs
<1>7. (0 = 1) = FALSE
  OBVIOUS
<1>8. Text(d, FALSE) = y
  BY <1>6, <1>7 DEF TextOf
<1> QED
  BY <1>2, <1>5, <1>8 DEF d

\* Without lines.
LEMMA LineExact ==
    ASSUME NEW t \in Seq(Character)
    PROVE  Agrees(base64decode(t, FALSE), t, FALSE)
<1> DEFINE r == base64decode(t, FALSE)
           n == Len(t)
<1>1. (0 = 1) = FALSE /\ n \in Nat /\ IsStr(t)
  BY StrIn
<1>2. PICK m, x : Shape(t, m, x, 0)
  BY ShapeExists
<1>3. m \in 0..n /\ x \in Seq(Symbol) /\ Len(x) = m /\ (\A j \in 1..m : t[j] = x[j])
      /\ (m < n => ~Passes(t, m + 1, 0))
  <2>1. m \in 0..n /\ x \in Seq(Symbol) /\ Len(x) = Index(m, 0) /\ Lies(t, x, m, 0)
        /\ (m < n => ~Passes(t, m + 1, 0))
    BY <1>2 DEF Shape, Lies
  <2>2. m \in Nat
    BY <2>1
  <2> QED
    BY <2>1, <2>2, LineLies
<1>4. Refuses(t, m, 0) <=> m < n
  <2>1. (IF 0 = 1 THEN n % (LineLen + 1) ELSE 0) = 0
    OBVIOUS
  <2>2. Refuses(t, m, 0) <=> m + 1 <= n
    BY ONLY <2>1 DEF Refuses, Breaks
  <2> QED
    BY <1>1, <1>3, <2>2
<1>5. r = IF m < n \/ ~(Canonical(x) \/ LoneSymbolPasses(x)) THEN Refused
          ELSE [ok |-> TRUE, out |-> Whole(x, 6, 8)]
  <2>1. base64decode(t, 0 = 1) =
          IF Refuses(t, m, 0) \/ ~(Canonical(x) \/ LoneSymbolPasses(x)) THEN Refused
          ELSE [ok |-> TRUE, out |-> Whole(x, 6, 8)]
    BY <1>2, DecodeIs
  <2> QED
    BY <1>1, <1>4, <2>1
<1> HIDE DEF r
<1>6. Accepts(t, FALSE) <=> /\ \A i \in DOMAIN t : t[i] \in Symbol
                            /\ t = Text(Whole(SymbolsOf(t), 6, 8), FALSE) \/ LoneSymbolPasses(t)
  BY DEF Accepts
<1>7. CASE m < n
  <2>1. ~Passes(t, m + 1, 0) /\ m + 1 \in 1..n /\ m + 1 \in Nat
    BY <1>1, <1>3, <1>7
  <2>2. ~Ends(m + 1, 0)
    BY <2>1, LineLies
  <2>3. t[m + 1] \notin Symbol
    BY <2>1, <2>2 DEF Passes
  <2>4. ~Accepts(t, FALSE)
    <3>1. m + 1 \in DOMAIN t
      BY <1>1, <2>1, StrIs
    <3> QED
      BY <1>6, <2>3, <3>1
  <2>5. r = Refused
    BY <1>5, <1>7
  <2>6. r.ok = FALSE
    BY <2>5, RefusedIs
  <2>7. Agrees(r, t, FALSE)
    BY ONLY <2>4, <2>6, <1>1, AgreesWhen
  <2> QED
    BY <2>7 DEF r
<1>8. CASE m = n
  <2>1. t = x
    <3>1. IsStr(x) /\ Len(x) = Len(t) /\ \A j \in 1..Len(x) : x[j] = t[j]
      BY <1>3, <1>8, StrIn
    <3> QED
      BY ONLY <1>1, <3>1, StrEqual
  <2>2. /\ SymbolsOf(x) = x
        /\ x = Text(Whole(SymbolsOf(x), 6, 8), FALSE) <=> Canonical(x)
    BY <1>3, LineSymbols
  <2>3. \A i \in DOMAIN x : x[i] \in Symbol
    BY <1>3
  <2>4. Accepts(t, FALSE) <=> Canonical(x) \/ LoneSymbolPasses(x)
    BY ONLY <1>6, <2>1, <2>2, <2>3
  <2>5. BytesOf(t, FALSE) = Whole(x, 6, 8)
    BY <2>1, <2>2 DEF BytesOf
  <2>6. ~(m < n)
    BY <1>3, <1>8
  <2>7. CASE Canonical(x) \/ LoneSymbolPasses(x)
    <3>1. r = [ok |-> TRUE, out |-> Whole(x, 6, 8)]
      BY <1>5, <2>6, <2>7
    <3>2. r.ok = TRUE /\ r.out = Whole(x, 6, 8)
      BY <3>1, TakenIs
    <3>3. Agrees(r, t, FALSE)
      BY ONLY <2>4, <2>5, <2>7, <3>2, <1>1, AgreesWhen
    <3> QED
      BY <3>3 DEF r
  <2>8. CASE ~(Canonical(x) \/ LoneSymbolPasses(x))
    <3>1. r = Refused
      BY <1>5, <2>8
    <3>2. r.ok = FALSE
      BY <3>1, RefusedIs
    <3>3. Agrees(r, t, FALSE)
      BY ONLY <2>4, <2>8, <3>2, <1>1, AgreesWhen
    <3> QED
      BY <3>3 DEF r
  <2> QED
    BY <2>7, <2>8
<1>9. m \in Nat /\ m <= n
  BY <1>3
<1>10. m < n \/ m = n
  BY ONLY <1>1, <1>9
<1> QED
  BY <1>7, <1>8, <1>10

\* The symbols of a text that is laid from filled symbols, of one line or more.
LEMMA LaidSymbols ==
    ASSUME NEW t \in Seq(Character), NEW y \in Seq(Symbol), Len(y) % 4 # 1,
           NEW M, M = Place(Len(Chars(y)), 1), Len(t) = M + 1, Lies(t, Chars(y), M, 1)
    PROVE  M \in Nat /\ SymbolsOf(Front(t)) = y
<1> DEFINE q == Len(y)
           c == Chars(y)
           N == Len(c)
           m == Place(q, 1)
<1>1. IsStr(y) /\ q \in Nat
  BY StrIn
<1>2. /\ N = q + ((4 - (q % 4)) % 4) /\ N \in Nat
      /\ \A i \in 1..N : c[i] = IF i <= q THEN y[i] ELSE PAD
  BY <1>1, CharsIs
<1> HIDE DEF q, c, N, m
<1>3. M = Place(N, 1) /\ Lies(t, c, M, 1)
  BY DEF N, c
<1>4. M \in Nat /\ Index(M, 1) = N
  BY <1>2, <1>3, PlaceNext
<1>5. m = Place(q, 1) /\ m \in Nat /\ Index(m, 1) = q /\ (m = 0 <=> q = 0)
  BY <1>1, PlaceNext DEF m
<1>6. q <= N
  BY <1>1, <1>2
<1>7. m <= M
  <2>1. CASE q = 0
    BY <1>4, <1>5, <2>1
  <2>2. CASE q # 0
    <3>1. q \in Nat \ {0} /\ q <= Index(M, 1)
      BY <1>1, <1>4, <1>6, <2>2
    <3>2. Place(q, 1) \in 1..M
      BY ONLY <1>4, <3>1, PlaceBefore
    <3> QED
      BY <1>5, <3>2
  <2> QED
    BY <2>1, <2>2
<1>8. Lies(t, y, m, 1)
  <2>1. ASSUME NEW j \in 1..m PROVE t[j] = IF Ends(j, 1) THEN NL ELSE y[Index(j, 1)]
    <3>1. j \in 1..M
      BY <1>4, <1>5, <1>7
    <3>2. t[j] = IF Ends(j, 1) THEN NL ELSE c[Index(j, 1)]
      BY <1>3, <3>1 DEF Lies
    <3>3. ~Ends(j, 1) => Index(j, 1) \in 1..q
      BY <1>5, IndexBefore
    <3>4. \A i \in 1..q : c[i] = y[i]
      BY <1>1, <1>2, <1>6
    <3> QED
      BY ONLY <3>2, <3>3, <3>4
  <2> QED
    BY ONLY <2>1 DEF Lies
<1>9. ASSUME NEW j \in (m + 1)..M PROVE t[j] \notin Symbol
  <2>1. j \in 1..M /\ j \in Nat \ {0} /\ m <= j /\ j # m
    BY <1>4, <1>5
  <2>2. t[j] = IF Ends(j, 1) THEN NL ELSE c[Index(j, 1)]
    BY <1>3, <2>1 DEF Lies
  <2>3. CASE Ends(j, 1)
    BY <2>2, <2>3, PadIsNoSymbol
  <2>4. CASE ~Ends(j, 1)
    <3>1. Index(j, 1) \in 1..N
      BY <1>4, <2>1, <2>4, IndexBefore
    <3>2. q <= Index(j, 1)
      BY <1>5, <2>1, IndexGrows
    <3>3. Place(Index(j, 1), 1) = j
      BY <2>1, <2>4, PlaceOfIndex
    <3>4. Index(j, 1) # q
      BY <1>5, <2>1, <3>3
    <3>5. ~(Index(j, 1) <= q)
      BY <1>1, <1>2, <3>1, <3>2, <3>4
    <3>6. t[j] = PAD
      BY ONLY <1>2, <2>2, <2>4, <3>1, <3>5
    <3> QED
      BY <3>6, PadIsNoSymbol
  <2> QED
    BY <2>3, <2>4
<1>10. SymbolsOf(Front(t)) = y
  <2>1. m \in 0..M /\ Len(y) = Index(m, 1) /\ \A j \in (m + 1)..M : t[j] \notin Symbol
    BY <1>4, <1>5, <1>7, <1>9 DEF q
  <2> QED
    BY <1>4, <1>8, <2>1, BodySymbols
<1> QED
  BY <1>4, <1>10

\* The text of a datum is accepted and stands for it.
LEMMA TextExact ==
    ASSUME NEW d \in Seq(Octet), NEW p \in {0, 1}, NEW t, t = TextOf(d, p)
    PROVE  t \in Seq(Character) /\ Accepts(t, p = 1) /\ BytesOf(t, p = 1) = d
<1> DEFINE y == Filled(d, 8, 6)
<1>1. y \in Seq(Symbol) /\ Canonical(y) /\ Whole(y, 6, 8) = d
  BY FilledCanonical
<1>2. y = Filled(d, 8, 6)
  OBVIOUS
<1> HIDE DEF y
<1>3. IsStr(y)
  BY <1>1, StrIn
<1>4. t = IF p = 1 THEN Append(Spread(Chars(y), Place(Len(Chars(y)), p), p), NL) ELSE y
  BY <1>2, <1>3, TextIs
<1>5. CASE p = 0
  <2>1. t = y /\ (p = 1) = FALSE
    BY <1>4, <1>5
  <2>2. /\ SymbolsOf(y) = y
        /\ y = Text(Whole(SymbolsOf(y), 6, 8), FALSE) <=> Canonical(y)
    BY <1>1, LineSymbols
  <2>3. y \in Seq(Character)
    <3>1. \A i \in 1..Len(y) : y[i] \in Character
      BY <1>1, SymbolKinds
    <3> QED
      BY ONLY <1>3, <3>1, StrSub
  <2>4. \A i \in DOMAIN y : y[i] \in Symbol
    BY <1>1
  <2>5. Accepts(y, FALSE)
    BY ONLY <1>1, <2>2, <2>4 DEF Accepts
  <2>6. BytesOf(y, FALSE) = d
    BY <1>1, <2>2 DEF BytesOf
  <2> QED
    BY ONLY <2>1, <2>3, <2>5, <2>6
<1>6. CASE p = 1
  <2> DEFINE c == Chars(y)
             N == Len(c)
             M == Place(N, 1)
             F == Spread(c, M, 1)
  <2>1. /\ N = Len(y) + ((4 - (Len(y) % 4)) % 4) /\ N \in Nat
        /\ \A i \in 1..N : c[i] = IF i <= Len(y) THEN y[i] ELSE PAD
    BY <1>3, CharsIs
  <2>2. t = Append(F, NL) /\ M = Place(N, 1)
    BY <1>4, <1>6
  <2> HIDE DEF c, N, M, F
  <2>3. M \in Nat /\ Index(M, 1) = N
    BY <2>1, <2>2, PlaceNext
  <2>4. IsStr(F) /\ Len(F) = M /\ \A j \in 1..M : F[j] = IF Ends(j, 1) THEN NL ELSE c[Index(j, 1)]
    BY <2>3, SpreadIs DEF F
  <2>5. /\ IsStr(t) /\ Len(t) = M + 1 /\ t[M + 1] = NL
        /\ \A i \in 1..M : t[i] = F[i]
    <3> DEFINE u == Append(F, NL)
    <3>1. /\ IsStr(u) /\ Len(u) = Len(F) + 1 /\ u[Len(F) + 1] = NL
          /\ \A i \in 1..Len(F) : u[i] = F[i]
      BY ONLY <2>4, CatAppend
    <3> HIDE DEF u
    <3>2. t = u /\ Len(F) = M
      BY <2>2, <2>4 DEF u
    <3> QED
      BY ONLY <3>1, <3>2
  <2>6. Lies(t, c, M, 1)
    BY ONLY <2>4, <2>5 DEF Lies
  <2>7. t \in Seq(Character)
    <3>1. ASSUME NEW i \in 1..N PROVE c[i] \in Character
      <4>1. CASE i <= Len(y)
        <5>1. i \in 1..Len(y)
          BY <1>3, <4>1, StrIs
        <5>2. y[i] \in Symbol
          BY <1>1, <5>1
        <5> QED
          BY <2>1, <4>1, <5>2, SymbolKinds
      <4>2. CASE ~(i <= Len(y))
        BY <2>1, <4>2, PadIsNoSymbol
      <4> QED
        BY <4>1, <4>2
    <3>2. ASSUME NEW j \in 1..(M + 1) PROVE t[j] \in Character
      <4>1. CASE j = M + 1
        BY <2>5, <4>1, PadIsNoSymbol
      <4>2. CASE j # M + 1
        <5>1. j \in 1..M
          BY <2>3, <4>2
        <5>2. t[j] = IF Ends(j, 1) THEN NL ELSE c[Index(j, 1)]
          BY <2>6, <5>1 DEF Lies
        <5>3. ~Ends(j, 1) => Index(j, 1) \in 1..N
          BY <2>3, <5>1, IndexBefore
        <5> QED
          BY ONLY <3>1, <5>2, <5>3, PadIsNoSymbol
      <4> QED
        BY <4>1, <4>2
    <3>3. \A i \in 1..Len(t) : t[i] \in Character
      BY <2>5, <3>2
    <3> QED
      BY ONLY <2>5, <3>3, StrSub
  <2>8. M = Place(Len(Chars(y)), 1) /\ Lies(t, Chars(y), M, 1)
    BY <2>2, <2>6 DEF N, c
  <2>9. Len(y) % 4 # 1
    BY <1>1 DEF Canonical
  <2>10. SymbolsOf(Front(t)) = y
    BY <1>1, <2>5, <2>7, <2>8, <2>9, LaidSymbols
  <2>11. Accepts(t, TRUE) <=> Fits(t, M, y, y, M)
    <3>1. y = SymbolsOf(Front(t)) /\ y = Filled(Whole(y, 6, 8), 8, 6)
      BY <1>1, <1>2, <2>10
    <3> QED
      BY <1>3, <2>3, <2>5, <2>7, <2>8, <3>1, AcceptsIs
  <2>12. LastPasses(t, M)
    BY <2>5 DEF LastPasses
  <2>13. Accepts(t, TRUE)
    BY ONLY <2>8, <2>11, <2>12 DEF Fits
  <2>14. t # <<>>
    BY <2>3, <2>5
  <2>15. BytesOf(t, TRUE) = d
    BY <1>1, <2>10, <2>14 DEF BytesOf
  <2>16. (p = 1) = TRUE
    BY <1>6
  <2> QED
    BY ONLY <2>7, <2>13, <2>15, <2>16
<1> QED
  BY <1>5, <1>6

-----------------------------------------------------------------------------
(* The codec's specification.                                              *)

LEMMA SubStays ==
    ASSUME NEW s \in Seq(Character), NEW a \in Nat \ {0}, NEW b \in Nat, b <= Len(s)
    PROVE  SubSeq(s, a, b) \in Seq(Character)
<1> DEFINE k == a - 1
           u == SubSeq(s, k + 1, b)
<1>1. k \in Nat /\ k + 1 = a /\ IsStr(s)
  BY StrIn
<1> HIDE DEF k
<1>2. /\ IsStr(u) /\ Len(u) = IF k <= b THEN b - k ELSE 0
      /\ \A i \in 1..(b - k) : u[i] = s[k + i]
  BY <1>1, StrPart
<1> HIDE DEF u
<1>3. ASSUME NEW i \in 1..Len(u) PROVE u[i] \in Character
  <2>1. Len(u) = b - k /\ i \in 1..(b - k)
    BY <1>1, <1>2
  <2>2. k + i \in 1..Len(s)
    BY <1>1, <2>1
  <2> QED
    BY <1>2, <2>1, <2>2
<1>4. u \in Seq(Character)
  BY ONLY <1>2, <1>3, StrSub
<1> QED
  BY <1>1, <1>4 DEF u

\* A changed text is a text.
LEMMA ChangeStays ==
    ASSUME NEW s \in Seq(Character), NEW c \in Character
    PROVE  /\ \A i \in DOMAIN s : /\ ReplaceAt(s, i, c) \in Seq(Character)
                                  /\ RemoveAt(s, i) \in Seq(Character)
           /\ \A i \in 1..(Len(s) + 1) : InsertAt(s, i, c) \in Seq(Character)
<1>1. Len(s) \in Nat /\ DOMAIN s = 1..Len(s)
  OBVIOUS
<1>2. ASSUME NEW i \in 1..(Len(s) + 1) PROVE SubSeq(s, 1, i - 1) \in Seq(Character)
  <2>1. i - 1 \in Nat /\ i - 1 <= Len(s) /\ 1 \in Nat \ {0}
    BY <1>1
  <2> QED
    BY <2>1, SubStays
<1>3. ASSUME NEW i \in Nat \ {0} PROVE SubSeq(s, i, Len(s)) \in Seq(Character)
  <2>1. Len(s) <= Len(s)
    BY <1>1
  <2> QED
    BY <1>1, <2>1, SubStays
<1>4. ASSUME NEW i \in DOMAIN s PROVE ReplaceAt(s, i, c) \in Seq(Character)
  <2>1. i \in 1..Len(s)
    BY <1>1
  <2> QED
    BY <2>1 DEF ReplaceAt
<1>5. ASSUME NEW i \in DOMAIN s PROVE RemoveAt(s, i) \in Seq(Character)
  <2>1. i \in 1..(Len(s) + 1) /\ i + 1 \in Nat \ {0}
    BY <1>1
  <2>2. SubSeq(s, 1, i - 1) \in Seq(Character) /\ SubSeq(s, i + 1, Len(s)) \in Seq(Character)
    BY <1>2, <1>3, <2>1
  <2> QED
    BY <2>2 DEF RemoveAt
<1>6. ASSUME NEW i \in 1..(Len(s) + 1) PROVE InsertAt(s, i, c) \in Seq(Character)
  <2>1. i \in Nat \ {0}
    BY <1>1
  <2>2. SubSeq(s, 1, i - 1) \in Seq(Character) /\ SubSeq(s, i, Len(s)) \in Seq(Character)
    BY <1>2, <1>3, <2>1
  <2>3. <<c>> \in Seq(Character)
    OBVIOUS
  <2> QED
    BY <2>2, <2>3 DEF InsertAt
<1> QED
  BY <1>4, <1>5, <1>6

\* What the reader returned.
Answer(f, t) == IF f = "lines" THEN base64decode(t, TRUE) ELSE base64decode(t, FALSE)

CodecOK ==
    InBase64 =>
      /\ data \in Seq(Octet) /\ sent = Texts(form, data) /\ text \in Seq(Character)
      /\ result = <<>> \/ result = <<Answer(form, text)>>

\* The text of a datum is the encoder's.
LEMMA TextsIs ==
    ASSUME NEW f \in {"lines", "line"}, NEW d \in Seq(Octet)
    PROVE  /\ f = "lines" => Texts(f, d) = TextOf(d, 1)
           /\ f # "lines" => Texts(f, d) = TextOf(d, 0)
           /\ Texts(f, d) \in Seq(Character)
<1>1. (1 = 1) = TRUE /\ (0 = 1) = FALSE /\ 0 \in {0, 1} /\ 1 \in {0, 1}
  OBVIOUS
<1>2. base64encode(d, 1 = 1) = TextOf(d, 1) /\ base64encode(d, 0 = 1) = TextOf(d, 0)
  BY EncodeIs
<1>3. base64encode(d, TRUE) = TextOf(d, 1) /\ base64encode(d, FALSE) = TextOf(d, 0)
  BY <1>1, <1>2
<1>4. TextOf(d, 0) \in Seq(Character) /\ TextOf(d, 1) \in Seq(Character)
  BY <1>1, TextExact
<1>5. CASE f = "lines"
  <2>1. Texts(f, d) = base64encode(d, TRUE)
    BY <1>5 DEF Texts
  <2> QED
    BY <1>3, <1>4, <1>5, <2>1
<1>6. CASE f = "line"
  <2>1. Texts(f, d) = base64encode(d, FALSE) /\ f # "lines"
    BY <1>6 DEF Texts
  <2> QED
    BY <1>3, <1>4, <2>1
<1> QED
  BY <1>5, <1>6

LEMMA CodecInit == Init => CodecOK
<1> SUFFICES ASSUME Init, InBase64
             PROVE  /\ data \in Seq(Octet) /\ sent = Texts(form, data) /\ text \in Seq(Character)
                    /\ result = <<>>
  BY DEF CodecOK
<1>1. data \in Seq(Octet)
  <2>1. data \in Data
    BY DEF Init
  <2> QED
    BY <2>1, CodecsAssumption
<1>2. sent = Texts(form, data) /\ text = sent /\ result = <<>>
  BY DEF Init
<1>3. form \in {"lines", "line"}
  BY DEF InBase64
<1>4. Texts(form, data) \in Seq(Character)
  BY <1>1, <1>3, TextsIs
<1> QED
  BY <1>1, <1>2, <1>4

LEMMA CodecNext == CodecOK /\ [Next]_vars => CodecOK'
<1> SUFFICES ASSUME CodecOK, [Next]_vars, InBase64'
             PROVE  /\ data' \in Seq(Octet) /\ sent' = Texts(form', data') /\ text' \in Seq(Character)
                    /\ result' = <<>> \/ result' = <<Answer(form', text')>>
  BY DEF CodecOK
<1>1. form' = form /\ data' = data
  BY DEF Next, OtherWriter, Change, Read, Done, vars
<1>2. InBase64
  BY <1>1 DEF InBase64
<1>3. /\ data \in Seq(Octet) /\ sent = Texts(form, data) /\ text \in Seq(Character)
      /\ result = <<>> \/ result = <<Answer(form, text)>>
  BY <1>2 DEF CodecOK
<1>4. CASE OtherWriter
  BY <1>2, <1>4 DEF OtherWriter
<1>5. CASE Change
  <2>1. sent' = sent /\ result' = result /\ result = <<>>
    BY <1>5 DEF Change
  <2>2. text' \in Seq(Character)
    <3>1. \/ \E i \in DOMAIN text, c \in Probes : text' = ReplaceAt(text, i, c)
          \/ \E i \in 1 .. Len(text) + 1, c \in Probes : text' = InsertAt(text, i, c)
          \/ \E i \in DOMAIN text : text' = RemoveAt(text, i)
      BY <1>2, <1>5 DEF Change
    <3>2. Probes \subseteq Character /\ PAD \in Character
      BY CodecsAssumption, PadIsNoSymbol
    <3> QED
      BY ONLY <1>3, <3>1, <3>2, ChangeStays
  <2> QED
    BY <1>1, <1>3, <2>1, <2>2
<1>6. CASE Read
  <2>1. sent' = sent /\ text' = text
    BY <1>6 DEF Read
  <2>2. form = "lines" \/ form = "line"
    BY <1>2 DEF InBase64
  <2>3. result' = <<Answer(form, text)>>
    <3>1. result' = <<CASE form = "lines" -> base64decode(text, TRUE)
                        [] form = "line" -> base64decode(text, FALSE)
                        [] form = "recipient" -> x25519pubkey(text)
                        [] form = "identity" -> x25519privkey(text)>>
      BY <1>6 DEF Read
    <3>2. CASE form = "lines"
      BY <3>1, <3>2 DEF Answer
    <3>3. CASE form = "line"
      BY <3>1, <3>3 DEF Answer
    <3> QED
      BY <2>2, <3>2, <3>3
  <2> QED
    BY <1>1, <1>3, <2>1, <2>3
<1>7. CASE Done \/ UNCHANGED vars
  <2>1. sent' = sent /\ text' = text /\ result' = result
    BY <1>7 DEF Done, vars
  <2> QED
    BY <1>1, <1>3, <2>1
<1> QED
  BY <1>4, <1>5, <1>6, <1>7 DEF Next

\* In every state the texts are exact.
LEMMA CodecExact == CodecOK => Base64Exact
<1> SUFFICES ASSUME CodecOK, InBase64 PROVE Base64Exact
  BY DEF Base64Exact
<1>1. /\ data \in Seq(Octet) /\ sent = Texts(form, data) /\ text \in Seq(Character)
      /\ result = <<>> \/ result = <<Answer(form, text)>>
      /\ form \in {"lines", "line"}
  BY DEF CodecOK, InBase64
<1>2. (1 = 1) = TRUE /\ (0 = 1) = FALSE /\ 0 \in {0, 1} /\ 1 \in {0, 1}
  OBVIOUS
<1>3. CASE form = "lines"
  <2>1. sent = TextOf(data, 1)
    BY <1>1, <1>3, TextsIs
  <2>2. sent = Text(data, TRUE)
    BY <1>2, <2>1 DEF TextOf
  <2>3. Accepts(sent, TRUE) /\ BytesOf(sent, TRUE) = data
    BY <1>1, <1>2, <2>1, TextExact
  <2>4. ASSUME result # <<>>
        PROVE  /\ result[1].ok <=> Accepts(text, TRUE)
               /\ result[1].ok => result[1].out = BytesOf(text, TRUE)
    <3> DEFINE r == base64decode(text, TRUE)
    <3>1. Agrees(r, text, TRUE)
      BY <1>1, LinesExact
    <3>2. Answer(form, text) = r
      BY ONLY <1>3, Zenon DEF Answer
    <3>3. result[1] = Answer(form, text)
      BY ONLY <1>1, <2>4
    <3> HIDE DEF r
    <3> QED
      BY ONLY <3>1, <3>2, <3>3, Zenon DEF Agrees
  <2>5. (form = "lines") = TRUE
    BY <1>3
  <2>6. ASSUME result # <<>>, text = sent PROVE result[1].ok /\ result[1].out = data
    BY ONLY <2>3, <2>4, <2>6, Zenon
  <2> QED
    BY ONLY <2>2, <2>4, <2>5, <2>6, Zenon DEF Base64Exact, BytesOf
<1>4. CASE form = "line"
  <2>1. sent = TextOf(data, 0)
    BY <1>1, <1>4, TextsIs
  <2>2. sent = Text(data, FALSE)
    BY <1>2, <2>1 DEF TextOf
  <2>3. Accepts(sent, FALSE) /\ BytesOf(sent, FALSE) = data
    BY <1>1, <1>2, <2>1, TextExact
  <2>4. ASSUME result # <<>>
        PROVE  /\ result[1].ok <=> Accepts(text, FALSE)
               /\ result[1].ok => result[1].out = BytesOf(text, FALSE)
    <3> DEFINE r == base64decode(text, FALSE)
    <3>1. Agrees(r, text, FALSE)
      BY <1>1, LineExact
    <3>2. Answer(form, text) = r
      BY ONLY <1>4, "lines" # "line", Zenon DEF Answer
    <3>3. result[1] = Answer(form, text)
      BY ONLY <1>1, <2>4
    <3> HIDE DEF r
    <3> QED
      BY ONLY <3>1, <3>2, <3>3, Zenon DEF Agrees
  <2>5. (form = "lines") = FALSE
    BY <1>4
  <2>6. ASSUME result # <<>>, text = sent PROVE result[1].ok /\ result[1].out = data
    BY ONLY <2>3, <2>4, <2>6, Zenon
  <2> QED
    BY ONLY <2>2, <2>4, <2>5, <2>6, Zenon DEF Base64Exact, BytesOf
<1> QED
  BY <1>1, <1>3, <1>4

(***************************************************************************)
(* base64encode writes, of any bytes whatever, the text of Base64, in lines *)
(* (the armor) and in one line (the header).                               *)
(***************************************************************************)
THEOREM EncodeIsExact ==
    \A d \in Seq(Octet) : /\ base64encode(d, TRUE) = Text(d, TRUE)
                          /\ base64encode(d, FALSE) = Text(d, FALSE)
<1>1. SUFFICES ASSUME NEW d \in Seq(Octet)
               PROVE  base64encode(d, TRUE) = Text(d, TRUE) /\ base64encode(d, FALSE) = Text(d, FALSE)
  OBVIOUS
<1>2. (1 = 1) = TRUE /\ (0 = 1) = FALSE
  OBVIOUS
<1>3. base64encode(d, 1 = 1) = TextOf(d, 1) /\ base64encode(d, 0 = 1) = TextOf(d, 0)
  BY EncodeIs
<1> QED
  BY <1>2, <1>3 DEF TextOf

(***************************************************************************)
(* base64decode takes, of all texts there are, exactly those Accepts       *)
(* describes, and returns the bytes their whole groups hold.               *)
(***************************************************************************)
THEOREM DecodeIsExact ==
    \A t \in Seq(Character) :
        /\ base64decode(t, TRUE).ok <=> Accepts(t, TRUE)
        /\ base64decode(t, TRUE).ok => base64decode(t, TRUE).out = BytesOf(t, TRUE)
        /\ base64decode(t, FALSE).ok <=> Accepts(t, FALSE)
        /\ base64decode(t, FALSE).ok => base64decode(t, FALSE).out = BytesOf(t, FALSE)
<1>1. ASSUME NEW t \in Seq(Character)
      PROVE  Agrees(base64decode(t, TRUE), t, TRUE) /\ Agrees(base64decode(t, FALSE), t, FALSE)
  BY LinesExact, LineExact
<1> QED
  BY ONLY <1>1, Zenon DEF Agrees

(***************************************************************************)
(* The text of any bytes is one base64decode takes, and stands for them.   *)
(***************************************************************************)
THEOREM TextIsTaken ==
    \A d \in Seq(Octet) : /\ Accepts(Text(d, TRUE), TRUE) /\ BytesOf(Text(d, TRUE), TRUE) = d
                          /\ Accepts(Text(d, FALSE), FALSE) /\ BytesOf(Text(d, FALSE), FALSE) = d
<1>1. SUFFICES ASSUME NEW d \in Seq(Octet)
               PROVE  /\ Accepts(Text(d, TRUE), TRUE) /\ BytesOf(Text(d, TRUE), TRUE) = d
                      /\ Accepts(Text(d, FALSE), FALSE) /\ BytesOf(Text(d, FALSE), FALSE) = d
  OBVIOUS
<1>2. (1 = 1) = TRUE /\ (0 = 1) = FALSE /\ 0 \in {0, 1} /\ 1 \in {0, 1}
  OBVIOUS
<1>3. TextOf(d, 1) = Text(d, TRUE) /\ TextOf(d, 0) = Text(d, FALSE)
  BY <1>2 DEF TextOf
<1>4. Accepts(TextOf(d, 1), 1 = 1) /\ BytesOf(TextOf(d, 1), 1 = 1) = d
  BY <1>2, TextExact
<1>5. Accepts(TextOf(d, 0), 0 = 1) /\ BytesOf(TextOf(d, 0), 0 = 1) = d
  BY <1>2, TextExact
<1> QED
  BY ONLY <1>2, <1>3, <1>4, <1>5

(***************************************************************************)
(* So in every run, with any data and after any number of changes on the   *)
(* way, what is written is the text, and what is read is what Accepts says *)
(* of the text that has arrived.                                           *)
(***************************************************************************)
THEOREM Base64IsExact == Spec => []Base64Exact
<1>1. Init => CodecOK
  BY CodecInit
<1>2. CodecOK /\ [Next]_vars => CodecOK'
  BY CodecNext
<1>3. CodecOK => Base64Exact
  BY CodecExact
<1> QED
  BY <1>1, <1>2, <1>3, PTL DEF Spec
==============================================================================
