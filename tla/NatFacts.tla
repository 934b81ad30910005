------------------------------ MODULE NatFacts -------------------------------
(***************************************************************************)
(* Induction over the natural numbers, with a set in the place of the      *)
(* predicate, the least element of a set of numbers, the folds of          *)
(* sequences and recursive functions, with functions in the place of       *)
(* operators, and sequences of whatever elements.                          *)
(***************************************************************************)
EXTENDS Integers, FiniteSetsExt, SequenceTheorems, WellFoundedInduction, TLAPS

\* A set of natural numbers that is not empty has a least element.
LEMMA LeastNat ==
    ASSUME NEW T, T \subseteq Nat, T # {}
    PROVE  \E x \in T : \A y \in T : x <= y
<1> DEFINE R == {ss \in Nat \X Nat : ss[1] < ss[2]}
<1>1. IsWellFoundedOn(R, Nat)
  BY NatLessThanWellFounded DEF OpToRel
<1>2. \E x \in T : \A y \in T : ~ (<<y, x>> \in R)
  <2> HIDE DEF R
  <2> QED
    BY <1>1, WFMin
<1>3. PICK x \in T : \A y \in T : ~ (<<y, x>> \in R)
  BY <1>2
<1>4. ASSUME NEW y \in T PROVE x <= y
  <2>1. x \in Nat /\ y \in Nat
    OBVIOUS
  <2>2. <<y, x>> \notin R
    BY <1>3
  <2> QED
    BY <2>1, <2>2
<1> QED
  BY <1>4

\* A set that holds 0 and the successor of each of its numbers holds them all.
LEMMA NatInduct ==
    ASSUME NEW P, 0 \in P, \A n \in Nat : n \in P => n + 1 \in P
    PROVE  Nat \subseteq P
<1> DEFINE T == {n \in Nat : n \notin P}
<1>1. SUFFICES ASSUME T # {} PROVE FALSE
  OBVIOUS
<1>2. PICK x \in T : \A y \in T : x <= y
  BY <1>1, LeastNat
<1>3. x # 0 /\ x - 1 \in Nat /\ x - 1 \notin T
  BY <1>2
<1> QED
  BY <1>2, <1>3

\* What Min chooses (memalloc's first free slot).
LEMMA MinIsLeast ==
    ASSUME NEW S, S \subseteq Nat, S # {}
    PROVE  Min(S) \in S /\ \A y \in S : Min(S) <= y
  BY LeastNat DEF Min

\* Division, by what the quotient is.
LEMMA Quotient ==
    ASSUME NEW S \in Nat \ {0}, NEW a \in Nat
    PROVE  a \div S \in Nat /\ (a \div S) * S <= a /\ a < (a \div S) * S + S
  OBVIOUS

\* Multiples of S.
LEMMA Multiples ==
    ASSUME NEW S \in Nat, NEW k \in Nat, NEW q \in Nat
    PROVE  /\ k * S \in Nat /\ (k + 1) * S = k * S + S
           /\ k < q => (k + 1) * S <= q * S
           /\ k <= q => k * S <= q * S
<1>1. k * S \in Nat /\ (k + 1) * S = k * S + S
  OBVIOUS
<1>2. \A x, y \in Nat : x <= y => x * S <= y * S
  OBVIOUS
<1>3. k < q => (k + 1) * S <= q * S
  <2>1. k < q => k + 1 <= q /\ k + 1 \in Nat
    OBVIOUS
  <2> QED
    BY <1>2, <2>1
<1> QED
  BY <1>1, <1>2, <1>3

\* The interval of length S that a number is in.
LEMMA SameMultiple ==
    ASSUME NEW S \in Nat, NEW k \in Nat, NEW q \in Nat, NEW a \in Int,
           q * S <= a, a < q * S + S, k * S <= a, a < k * S + S
    PROVE  k = q
<1>1. /\ k < q => k * S + S <= q * S
      /\ q < k => q * S + S <= k * S
      /\ k * S \in Nat /\ q * S \in Nat
  BY Multiples
<1> QED
  BY <1>1

\* The remainder of a division.
LEMMA Remainder ==
    ASSUME NEW S \in Nat \ {0}, NEW a \in Nat
    PROVE  a % S = a - (a \div S) * S
  OBVIOUS

\* Division and remainder, from what they must be.
LEMMA QuotientIs ==
    ASSUME NEW S \in Nat \ {0}, NEW q \in Nat, NEW c \in Nat, c < S, NEW a \in Nat, a = q * S + c
    PROVE  a \div S = q /\ a % S = c
<1> DEFINE d == a \div S
           p == q * S
           r == d * S
<1>1. d \in Nat /\ r <= a /\ a < r + S /\ a % S = a - r
  BY Quotient, Remainder
<1>2. p \in Nat /\ r \in Nat
  BY <1>1, Multiples
<1>3. p <= a /\ a < p + S
  <2>1. a = p + c
    OBVIOUS
  <2> HIDE DEF p
  <2> QED
    BY <1>2, <2>1
<1>4. d = q
  <2> HIDE DEF d
  <2> QED
    BY <1>1, <1>3, SameMultiple
<1>5. r = p
  BY <1>4
<1>6. a - r = c
  <2>1. a = p + c
    OBVIOUS
  <2> HIDE DEF p, r
  <2> QED
    BY <1>2, <1>5, <2>1
<1> QED
  BY <1>1, <1>4, <1>6

-----------------------------------------------------------------------------
\* The greatest of some of the numbers 1 to n.
LEMMA MaxIsGreatest ==
    ASSUME NEW n \in Nat, NEW T \in SUBSET (1..n), T # {}
    PROVE  Max(T) \in T /\ \A y \in T : y <= Max(T)
<1> DEFINE U == {n - x : x \in T}
<1>1. U \subseteq Nat /\ U # {}
  <2>1. \A x \in T : n - x \in Nat
    OBVIOUS
  <2> QED
    BY <2>1
<1>2. PICK u \in U : \A w \in U : u <= w
  <2> HIDE DEF U
  <2> QED
    BY <1>1, LeastNat
<1>3. PICK m \in T : u = n - m
  OBVIOUS
<1>4. \A y \in T : m >= y
  <2> TAKE y \in T
  <2>1. n - y \in U
    OBVIOUS
  <2> QED
    BY <1>2, <1>3, <2>1
<1> QED
  BY <1>3, <1>4 DEF Max

(***************************************************************************)
(* FoldLeft is a function of the sets of places that are folded, each by   *)
(* its greatest place.  Step i is the function G[i] on D.                  *)
(***************************************************************************)
FoldsOver(g, n, D, z, G) ==
    \A T \in SUBSET (1..n) :
        /\ g[T] \in D
        /\ g[T] = IF T = {} THEN z ELSE G[Max(T)][g[T \ {Max(T)}]]

FoldTo(k, D, z, G) ==
    \E g : g = [T \in SUBSET (1..k) |-> g[T]] /\ FoldsOver(g, k, D, z, G)

LEMMA FoldExists ==
    ASSUME NEW D, NEW z \in D, NEW n \in Nat, NEW G \in [1..n -> [D -> D]]
    PROVE  FoldTo(n, D, z, G)
<1> DEFINE P == {k \in Nat : k <= n => FoldTo(k, D, z, G)}
<1>1. 0 \in P
  <2> DEFINE g == [T \in SUBSET (1..0) |-> z]
  <2>1. SUBSET (1..0) = {{}}
    OBVIOUS
  <2>2. FoldsOver(g, 0, D, z, G)
    BY <2>1 DEF FoldsOver
  <2>3. g = [T \in SUBSET (1..0) |-> g[T]]
    OBVIOUS
  <2>4. FoldTo(0, D, z, G)
    BY <2>2, <2>3 DEF FoldTo
  <2> QED
    BY <2>4
<1>2. ASSUME NEW k \in Nat, k \in P PROVE k + 1 \in P
  <2> SUFFICES ASSUME k + 1 <= n
               PROVE  FoldTo(k + 1, D, z, G)
    OBVIOUS
  <2>1. PICK g : FoldsOver(g, k, D, z, G)
    BY <1>2 DEF FoldTo
  <2> DEFINE m == k + 1
             h == [T \in SUBSET (1..m) |->
                     IF m \in T THEN G[m][g[T \ {m}]] ELSE g[T]]
  <2>a. m \in 1..n /\ m \in Nat
    OBVIOUS
  <2>2. ASSUME NEW T \in SUBSET (1..m)
        PROVE  /\ h[T] \in D
               /\ h[T] = IF T = {} THEN z ELSE G[Max(T)][h[T \ {Max(T)}]]
    <3>1. T \ {m} \in SUBSET (1..k)
      OBVIOUS
    <3>2. CASE m \in T
      <4>1. g[T \ {m}] \in D
        BY <2>1, <3>1 DEF FoldsOver
      <4>2. Max(T) = m
        <5>1. Max(T) \in T /\ \A y \in T : y <= Max(T)
          BY <2>a, <3>2, MaxIsGreatest
        <5>2. PICK x \in T : x = Max(T)
          BY <5>1
        <5>3. x \in 1..m /\ m <= x
          BY <5>1, <5>2, <3>2
        <5> QED
          BY <5>2, <5>3
      <4>3. h[T \ {m}] = g[T \ {m}]
        BY <3>1
      <4>4. h[T] = G[m][g[T \ {m}]]
        BY <3>2
      <4>5. G[m] \in [D -> D]
        BY <2>a
      <4> QED
        BY <3>2, <4>1, <4>2, <4>3, <4>4, <4>5
    <3>3. CASE m \notin T
      <4>1. T \in SUBSET (1..k)
        BY <3>1, <3>3
      <4>2. h[T] = g[T]
        BY <3>3
      <4>3. CASE T = {}
        BY <2>1, <4>1, <4>2, <4>3 DEF FoldsOver
      <4>4. CASE T # {}
        <5>1. T \ {Max(T)} \in SUBSET (1..k) /\ m \notin T \ {Max(T)}
          BY <3>3, <4>1
        <5>2. h[T \ {Max(T)}] = g[T \ {Max(T)}]
          BY <5>1
        <5> QED
          BY <2>1, <4>1, <4>2, <4>4, <5>2 DEF FoldsOver
      <4> QED
        BY <4>3, <4>4
    <3> QED
      BY <3>2, <3>3
  <2>3. h = [T \in SUBSET (1..m) |-> h[T]]
    OBVIOUS
  <2> HIDE DEF h
  <2>4. FoldsOver(h, m, D, z, G)
    BY <2>2 DEF FoldsOver
  <2> QED
    BY <2>3, <2>4 DEF FoldTo
<1> HIDE DEF P
<1>3. Nat \subseteq P
  BY <1>1, <1>2, NatInduct
<1> QED
  BY <1>3 DEF P

\* A function that takes the steps of a fold as far as it stays in D.
Stepping(f, n, D, z, G) ==
    \A T \in SUBSET (1..n) :
        /\ T = {} => f[T] = z
        /\ T # {} /\ f[T \ {Max(T)}] \in D => f[T] = G[Max(T)][f[T \ {Max(T)}]]

\* It is the fold.
LEMMA FoldUnique ==
    ASSUME NEW D, NEW z, NEW n \in Nat, NEW G, NEW g, FoldsOver(g, n, D, z, G), NEW f,
           Stepping(f, n, D, z, G)
    PROVE  \A T \in SUBSET (1..n) : f[T] = g[T]
<1> DEFINE P == {k \in Nat : k <= n => \A T \in SUBSET (1..k) : f[T] = g[T]}
<1>1. 0 \in P
  <2>1. \A T \in SUBSET (1..0) : T = {} /\ T \in SUBSET (1..n)
    OBVIOUS
  <2> QED
    BY <2>1 DEF FoldsOver, Stepping
<1>2. ASSUME NEW k \in Nat, k \in P PROVE k + 1 \in P
  <2> SUFFICES ASSUME k + 1 <= n, NEW T \in SUBSET (1..(k + 1))
               PROVE  f[T] = g[T]
    OBVIOUS
  <2>1. \A U \in SUBSET (1..k) : f[U] = g[U]
    BY <1>2
  <2>2. T \in SUBSET (1..n)
    OBVIOUS
  <2>3. CASE T = {}
    BY <2>2, <2>3 DEF FoldsOver, Stepping
  <2>4. CASE T # {}
    <3>1. Max(T) \in T /\ \A y \in T : y <= Max(T)
      BY <2>4, MaxIsGreatest, k + 1 \in Nat
    <3>2. T \ {Max(T)} \in SUBSET (1..k)
      <4>1. ASSUME NEW y \in T, y # Max(T) PROVE y \in 1..k
        <5>1. PICK x \in T : x = Max(T)
          BY <3>1
        <5>2. x \in 1..(k + 1) /\ y \in 1..(k + 1) /\ y <= x /\ y # x
          BY <3>1, <4>1, <5>1
        <5> QED
          BY <5>2
      <4> QED
        BY <4>1
    <3>3. T \ {Max(T)} \in SUBSET (1..n)
      BY <2>2
    <3>4. f[T \ {Max(T)}] = g[T \ {Max(T)}] /\ g[T \ {Max(T)}] \in D
      BY <2>1, <3>2, <3>3 DEF FoldsOver
    <3> QED
      BY <2>2, <2>4, <3>4 DEF FoldsOver, Stepping
  <2> QED
    BY <2>3, <2>4
<1> HIDE DEF P
<1>3. Nat \subseteq P
  BY <1>1, <1>2, NatInduct
<1> QED
  BY <1>3 DEF P

\* The value after each step.
LEMMA FoldValues ==
    ASSUME NEW D, NEW z, NEW n \in Nat, NEW G, NEW g, FoldsOver(g, n, D, z, G)
    PROVE  /\ g[1..0] = z
           /\ \A i \in 1..n : g[1..i] = G[i][g[1..(i - 1)]]
           /\ \A i \in 0..n : g[1..i] \in D
<1>1. g[1..0] = z
  <2>1. 1..0 = {} /\ {} \in SUBSET (1..n)
    OBVIOUS
  <2> QED
    BY <2>1 DEF FoldsOver
<1>2. ASSUME NEW i \in 1..n PROVE g[1..i] = G[i][g[1..(i - 1)]]
  <2>1. 1..i \in SUBSET (1..n) /\ 1..i # {} /\ i \in 1..i
    OBVIOUS
  <2>2. Max(1..i) \in 1..i /\ \A y \in 1..i : y <= Max(1..i)
    BY <2>1, MaxIsGreatest
  <2>3. Max(1..i) = i
    BY <2>1, <2>2
  <2>4. (1..i) \ {i} = 1..(i - 1)
    OBVIOUS
  <2> QED
    BY <2>1, <2>3, <2>4 DEF FoldsOver
<1>3. ASSUME NEW i \in 0..n PROVE g[1..i] \in D
  <2>1. 1..i \in SUBSET (1..n)
    OBVIOUS
  <2> QED
    BY <2>1 DEF FoldsOver
<1> QED
  BY <1>1, <1>2, <1>3

\* The values of a fold from one step to the next: FoldLeft(op, z, s), when
\* G[i] is op(_, s[i]) on D and f what FoldLeft chooses.
FoldRun(h, n, D, z, G) ==
    /\ h[0] = z /\ \A i \in 1..n : h[i] = G[i][h[i - 1]]
    /\ \A i \in 0..n : h[i] \in D

LEMMA FoldRuns ==
    ASSUME NEW D, NEW z \in D, NEW n \in Nat, NEW G \in [1..n -> [D -> D]], NEW f,
           Stepping(f, n, D, z, G)
    PROVE  \E h : FoldRun(h, n, D, z, G) /\ f[1..n] = h[n]
<1>1. PICK g : FoldsOver(g, n, D, z, G)
  BY FoldExists DEF FoldTo
<1>2. f[1..n] = g[1..n]
  BY <1>1, FoldUnique
<1>3. /\ g[1..0] = z
      /\ \A i \in 1..n : g[1..i] = G[i][g[1..(i - 1)]]
      /\ \A i \in 0..n : g[1..i] \in D
  BY <1>1, FoldValues
<1> DEFINE h == [i \in 0..n |-> g[1..i]]
<1>4. \A i \in 0..n : h[i] = g[1..i]
  OBVIOUS
<1> HIDE DEF h
<1>5. ASSUME NEW i \in 1..n PROVE h[i] = G[i][h[i - 1]]
  <2>1. i - 1 \in 0..n /\ i \in 0..n
    OBVIOUS
  <2> QED
    BY <1>3, <1>4, <2>1
<1>6. 0 \in 0..n /\ n \in 0..n
  OBVIOUS
<1>7. FoldRun(h, n, D, z, G)
  BY <1>3, <1>4, <1>5, <1>6 DEF FoldRun
<1> QED
  BY <1>2, <1>4, <1>6, <1>7

(***************************************************************************)
(* Functions on the natural numbers, each value by the one before it.      *)
(***************************************************************************)
\* h is z, and from i - 1 to i the step G[i], as far as n.
RunTo(h, n, z, G) == h[0] = z /\ \A i \in 1..n : h[i] = G[i][h[i - 1]]

LEMMA RunExists ==
    ASSUME NEW z, NEW G, NEW n \in Nat
    PROVE  \E h : RunTo(h, n, z, G)
<1> DEFINE P == {k \in Nat : \E h : RunTo(h, k, z, G)}
<1>1. 0 \in P
  <2> DEFINE h == [i \in 0..0 |-> z]
  <2>1. RunTo(h, 0, z, G)
    BY DEF RunTo
  <2> QED
    BY <2>1
<1>2. ASSUME NEW k \in Nat, k \in P PROVE k + 1 \in P
  <2>1. PICK h : RunTo(h, k, z, G)
    BY <1>2
  <2> DEFINE m == k + 1
             e == [i \in 0..m |-> IF i = m THEN G[m][h[k]] ELSE h[i]]
  <2>2. m \in Nat /\ m # 0 /\ m - 1 = k
    OBVIOUS
  <2>3. \A i \in 0..m : e[i] = IF i = m THEN G[m][h[k]] ELSE h[i]
    OBVIOUS
  <2> HIDE DEF e
  <2>4. e[0] = z
    BY <2>1, <2>2, <2>3 DEF RunTo
  <2>5. ASSUME NEW i \in 1..m PROVE e[i] = G[i][e[i - 1]]
    <3>1. i - 1 \in 0..m /\ i - 1 # m /\ i \in 0..m
      BY <2>2
    <3>2. e[i - 1] = h[i - 1]
      BY <2>3, <3>1
    <3>3. CASE i = m
      BY <2>2, <2>3, <3>1, <3>2, <3>3
    <3>4. CASE i # m
      <4>1. i \in 1..k
        BY <2>2, <3>4
      <4>2. h[i] = G[i][h[i - 1]]
        BY <2>1, <4>1 DEF RunTo
      <4> QED
        BY <2>3, <3>1, <3>2, <3>4, <4>2
    <3> QED
      BY <3>3, <3>4
  <2>6. RunTo(e, m, z, G)
    BY <2>4, <2>5 DEF RunTo
  <2> QED
    BY <2>6
<1> HIDE DEF P
<1>3. Nat \subseteq P
  BY <1>1, <1>2, NatInduct
<1> QED
  BY <1>3 DEF P

LEMMA RunUnique ==
    ASSUME NEW z, NEW G, NEW n \in Nat, NEW h, NEW m \in Nat, NEW e,
           RunTo(h, n, z, G), RunTo(e, m, z, G)
    PROVE  \A k \in Nat : k <= n /\ k <= m => h[k] = e[k]
<1> DEFINE P == {k \in Nat : k <= n /\ k <= m => h[k] = e[k]}
<1>1. 0 \in P
  BY DEF RunTo
<1>2. ASSUME NEW k \in Nat, k \in P PROVE k + 1 \in P
  <2> SUFFICES ASSUME k + 1 <= n, k + 1 <= m PROVE h[k + 1] = e[k + 1]
    OBVIOUS
  <2> DEFINE j == k + 1
  <2>1. j \in 1..n /\ j \in 1..m /\ j - 1 = k /\ k <= n /\ k <= m
    OBVIOUS
  <2>2. h[k] = e[k]
    BY <1>2, <2>1
  <2> HIDE DEF j
  <2>3. h[j] = G[j][h[j - 1]] /\ e[j] = G[j][e[j - 1]]
    BY <2>1 DEF RunTo
  <2>4. h[j] = e[j]
    BY <2>1, <2>2, <2>3
  <2> QED
    BY <2>4 DEF j
<1> HIDE DEF P
<1>3. Nat \subseteq P
  BY <1>1, <1>2, NatInduct
<1> QED
  BY <1>3 DEF P

\* A function that starts with z and takes the steps of G.
Iterates(f, z, G) ==
    /\ f = [k \in Nat |-> f[k]]
    /\ f[0] = z /\ \A k \in Nat : f[k + 1] = G[k + 1][f[k]]

LEMMA IterateExists ==
    ASSUME NEW z, NEW G
    PROVE  \E f : Iterates(f, z, G)
<1> DEFINE R(k) == CHOOSE h : RunTo(h, k, z, G)
           f == [k \in Nat |-> R(k)[k]]
<1>1. \A k \in Nat : RunTo(R(k), k, z, G)
  BY RunExists
<1>2. \A k \in Nat : f[k] = R(k)[k]
  OBVIOUS
<1>3. f = [k \in Nat |-> f[k]]
  OBVIOUS
<1> HIDE DEF f, R
<1>4. f[0] = z
  BY <1>1, <1>2 DEF RunTo
<1>5. ASSUME NEW k \in Nat PROVE f[k + 1] = G[k + 1][f[k]]
  <2> DEFINE j == k + 1
  <2>1. j \in Nat /\ j \in 1..j /\ j - 1 = k /\ k <= j
    OBVIOUS
  <2> HIDE DEF j
  <2>2. RunTo(R(j), j, z, G) /\ RunTo(R(k), k, z, G)
    BY <1>1, <2>1
  <2>3. R(j)[j] = G[j][R(j)[k]]
    BY <2>1, <2>2 DEF RunTo
  <2>4. R(j)[k] = R(k)[k]
    BY <2>1, <2>2, RunUnique
  <2>5. f[j] = G[j][f[k]]
    BY <1>2, <2>1, <2>3, <2>4
  <2> QED
    BY <2>5 DEF j
<1> QED
  BY <1>3, <1>4, <1>5 DEF Iterates

-----------------------------------------------------------------------------
(* Sequences of whatever elements.                                         *)

IsStr(s) == \E S : s \in Seq(S)

LEMMA StrIs ==
    ASSUME NEW s, IsStr(s)
    PROVE  /\ Len(s) \in Nat /\ DOMAIN s = 1..Len(s) /\ s = [i \in 1..Len(s) |-> s[i]]
           /\ s \in Seq({s[i] : i \in 1..Len(s)})
<1>1. PICK S : s \in Seq(S)
  BY DEF IsStr
<1>2. Len(s) \in Nat /\ DOMAIN s = 1..Len(s) /\ s \in [1..Len(s) -> S]
  BY <1>1, LenProperties
<1> DEFINE R == {s[i] : i \in 1..Len(s)}
<1>3. s \in [1..Len(s) -> R]
  BY <1>2
<1> HIDE DEF R
<1>4. s \in Seq(R)
  BY <1>2, <1>3
<1> QED
  BY <1>2, <1>4 DEF R

LEMMA FunctionIsStr ==
    ASSUME NEW n \in Nat, NEW f, f = [i \in 1..n |-> f[i]]
    PROVE  IsStr(f) /\ Len(f) = n
<1> DEFINE S == {f[i] : i \in 1..n}
<1>1. f \in [1..n -> S]
  <2> HIDE DEF S
  <2>1. \A i \in 1..n : f[i] \in S
    BY DEF S
  <2> QED
    BY <2>1
<1> HIDE DEF S
<1>2. f \in Seq(S)
  BY <1>1
<1>3. Len(f) = n
  BY <1>1
<1> QED
  BY <1>2, <1>3 DEF IsStr

LEMMA StrIn == ASSUME NEW S, NEW s \in Seq(S) PROVE IsStr(s)
  BY DEF IsStr

LEMMA StrSub ==
    ASSUME NEW S, NEW s, IsStr(s), \A i \in 1..Len(s) : s[i] \in S
    PROVE  s \in Seq(S)
<1>1. Len(s) \in Nat /\ s = [i \in 1..Len(s) |-> s[i]]
  BY StrIs
<1>2. s \in [1..Len(s) -> S]
  BY <1>1
<1> QED
  BY <1>1, <1>2

LEMMA StrEqual ==
    ASSUME NEW s, NEW t, IsStr(s), IsStr(t), Len(s) = Len(t),
           \A i \in 1..Len(s) : s[i] = t[i]
    PROVE  s = t
<1>1. /\ Len(s) \in Nat /\ s = [i \in 1..Len(s) |-> s[i]]
      /\ t = [i \in 1..Len(t) |-> t[i]]
  BY StrIs
<1> QED
  BY <1>1

LEMMA StrEmpty == IsStr(<<>>) /\ Len(<<>>) = 0
<1>1. <<>> \in Seq({})
  OBVIOUS
<1> QED
  BY <1>1 DEF IsStr

LEMMA StrNull == ASSUME NEW s, IsStr(s), Len(s) = 0 PROVE s = <<>>
<1>1. IsStr(<<>>) /\ Len(<<>>) = 0
  BY StrEmpty
<1> QED
  BY <1>1, StrEqual

LEMMA StrOne == ASSUME NEW x PROVE IsStr(<<x>>) /\ Len(<<x>>) = 1 /\ <<x>>[1] = x
<1>1. <<x>> \in Seq({x})
  OBVIOUS
<1> QED
  BY <1>1 DEF IsStr

LEMMA StrTwo ==
    ASSUME NEW x, NEW y
    PROVE  IsStr(<<x, y>>) /\ Len(<<x, y>>) = 2 /\ <<x, y>>[1] = x /\ <<x, y>>[2] = y
<1>1. <<x, y>> \in Seq({x, y})
  OBVIOUS
<1> QED
  BY <1>1 DEF IsStr

LEMMA StrCat ==
    ASSUME NEW s, NEW t, IsStr(s), IsStr(t)
    PROVE  /\ IsStr(s \o t) /\ Len(s \o t) = Len(s) + Len(t)
           /\ Len(s) \in Nat /\ Len(t) \in Nat
           /\ \A i \in 1..(Len(s) + Len(t)) :
                 (s \o t)[i] = IF i <= Len(s) THEN s[i] ELSE t[i - Len(s)]
<1>1. PICK S : s \in Seq(S)
  BY DEF IsStr
<1>2. PICK T : t \in Seq(T)
  BY DEF IsStr
<1> DEFINE U == S \cup T
<1>3. s \in Seq(U) /\ t \in Seq(U)
  BY <1>1, <1>2
<1> HIDE DEF U
<1>4. Len(s) \in Nat /\ Len(t) \in Nat
  BY <1>3, LenProperties
<1> QED
  BY <1>3, <1>4, ConcatProperties DEF IsStr

LEMMA StrPart ==
    ASSUME NEW s, IsStr(s), NEW a \in Nat, NEW b \in Nat, b <= Len(s)
    PROVE  LET p == SubSeq(s, a + 1, b)
           IN /\ IsStr(p) /\ Len(p) = IF a <= b THEN b - a ELSE 0
              /\ \A i \in 1..(b - a) : p[i] = s[a + i]
<1> DEFINE p == SubSeq(s, a + 1, b)
<1>1. PICK S : s \in Seq(S)
  BY DEF IsStr
<1>2. Len(s) \in Nat /\ \A i \in (a + 1)..b : s[i] \in S
  BY <1>1, LenProperties
<1>3. /\ p \in Seq(S) /\ Len(p) = IF a + 1 <= b THEN b - (a + 1) + 1 ELSE 0
      /\ \A i \in 1..(b - (a + 1) + 1) : p[i] = s[a + 1 + i - 1]
  <2>1. a + 1 \in Int /\ b \in Int
    OBVIOUS
  <2> QED
    BY <1>2, <2>1, SubSeqProperties
<1> HIDE DEF p
<1>4. Len(p) = IF a <= b THEN b - a ELSE 0
  BY <1>3
<1>5. \A i \in 1..(b - a) : p[i] = s[a + i]
  <2> TAKE i \in 1..(b - a)
  <2>1. i \in 1..(b - (a + 1) + 1) /\ a + 1 + i - 1 = a + i
    OBVIOUS
  <2> QED
    BY <1>3, <2>1
<1> QED
  BY <1>3, <1>4, <1>5 DEF IsStr, p

\* The first n of s.
LEMMA StrFirst ==
    ASSUME NEW s, IsStr(s), NEW n \in Nat, n <= Len(s)
    PROVE  LET p == SubSeq(s, 1, n)
           IN IsStr(p) /\ Len(p) = n /\ \A i \in 1..n : p[i] = s[i]
<1> DEFINE p == SubSeq(s, 0 + 1, n)
<1>1. /\ IsStr(p) /\ Len(p) = IF 0 <= n THEN n - 0 ELSE 0
      /\ \A i \in 1..(n - 0) : p[i] = s[0 + i]
  BY StrPart, 0 \in Nat
<1>2. p = SubSeq(s, 1, n)
  OBVIOUS
<1> HIDE DEF p
<1>3. Len(p) = n /\ \A i \in 1..n : p[i] = s[i]
  BY <1>1
<1> QED
  BY <1>1, <1>2, <1>3

LEMMA StrAll == ASSUME NEW s, IsStr(s) PROVE SubSeq(s, 1, Len(s)) = s
<1>1. Len(s) \in Nat
  BY StrIs
<1> DEFINE p == SubSeq(s, 1, Len(s))
<1>2. IsStr(p) /\ Len(p) = Len(s) /\ \A i \in 1..Len(s) : p[i] = s[i]
  BY <1>1, StrFirst
<1> HIDE DEF p
<1>3. p = s
  BY <1>2, StrEqual
<1> QED
  BY <1>3 DEF p
=============================================================================
