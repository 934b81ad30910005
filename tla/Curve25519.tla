----------------------------- MODULE Curve25519 ------------------------------
(***************************************************************************)
(* crypto/curve25519.c over fewer and narrower limbs.  A field element is  *)
(* a sequence of signed limbs, limb i (from 0) weighing 2^Weight(i).  A     *)
(* string of bytes is the number it spells, its lowest byte first.         *)
(* Integers are unbounded here.                                            *)
(***************************************************************************)
EXTENDS Layout, Sequences, SequencesExt

CONSTANTS
    CarryOrder,   \* limbs in the order of FE_CARRY
    A24,          \* (A + 2) / 4 of the curve y^2 = x^3 + A x^2 + x (121666)
    ScalarLen,    \* bits of a scalar (256)
    BasePoint     \* (9)

Prime == 2^Bits - Fold

ASSUME CurveAssumption ==
    /\ ScalarLen \in 5..256
    /\ CarryOrder \in Seq(0 .. Limbs - 1)
    /\ A24 \in Nat \ {0} /\ BasePoint \in Nat

LimbOf(f, i) == f[i + 1]
\* The element whose limb i is l(i), as a tuple.
Element(l(_)) == <<>> \o [k \in 1..Limbs |-> l(k - 1)]
\* l(0) + ... + l(Limbs - 1).
Total(l(_)) ==
    LET upto[i \in 0..Limbs] == IF i = 0 THEN 0 ELSE upto[i - 1] + l(i - 1)
    IN upto[Limbs]

fe_0 == Element(LAMBDA i : 0)
fe_1 == Element(LAMBDA i : IF i = 0 THEN 1 ELSE 0)
fe_neg(f) == Element(LAMBDA i : 0 - LimbOf(f, i))
fe_add(f, g) == Element(LAMBDA i : LimbOf(f, i) + LimbOf(g, i))
fe_sub(f, g) == Element(LAMBDA i : LimbOf(f, i) - LimbOf(g, i))
fe_cswap(f, g, b) == IF b = 1 THEN <<g, f>> ELSE <<f, g>>
fe_ccopy(f, g, b) == IF b = 1 THEN g ELSE f

\* c = (t_i + half) >> width: to the nearest, so that what stays is signed.
\* What leaves the last limb comes back to the first, Fold times.
Carried(t, i) ==
    LET c == (LimbOf(t, i) + 2^(Width(i) - 1)) \div 2^Width(i)
        last == i = Limbs - 1
        next == IF last THEN 0 ELSE i + 1
    IN [t EXCEPT ![i + 1] = @ - c * 2^Width(i),
                 ![next + 1] = @ + (IF last THEN c * Fold ELSE c)]
FE_CARRY(t) == FoldLeft(Carried, t, CarryOrder)

\* The highest bit of s is not looked at.
fe_frombytes(s) ==
    FE_CARRY(Element(LAMBDA i : (s \div 2^Weight(i)) % 2^Width(i)))

\* Downwards, q becomes 0, or -1 when h is negative; upwards, Fold * q is
\* carried through.
fe_tobytes(h) ==
    LET down(q, i) == (q + LimbOf(h, i)) \div 2^Width(i)
        limbs == [k \in 1..Limbs |-> k - 1]
        q0 == FoldLeft(down, (Fold * LimbOf(h, Limbs - 1) + 2^(Narrow - 1)) \div 2^Narrow,
                       limbs)
        up(m, i) == LET t == LimbOf(h, i) + m.q
                    IN [q |-> t \div 2^Width(i),
                        s |-> m.s + (t % 2^Width(i)) * 2^Weight(i)]
    IN FoldLeft(up, [q |-> Fold * q0, s |-> 0], limbs).s

----------------------------------------------------------------------------
fe_mul_small(f, g) == FE_CARRY(Element(LAMBDA i : LimbOf(f, i) * g))
fe_mul(f, g) ==
    LET term(k, i) == LET j == (k - i + Limbs) % Limbs
                      IN Factor(i, j) * LimbOf(f, i) * LimbOf(g, j)
    IN FE_CARRY(Element(LAMBDA k : Total(LAMBDA i : term(k, i))))
\* Each pair of limbs once, twice over when they are two.
fe_sq(f) ==
    LET term(k, i) == LET j == (k - i + Limbs) % Limbs
                      IN CASE i < j -> 2 * Factor(i, j) * LimbOf(f, i) * LimbOf(f, j)
                           [] i = j -> Factor(i, i) * LimbOf(f, i) * LimbOf(f, i)
                           [] OTHER -> 0
    IN FE_CARRY(Element(LAMBDA k : Total(LAMBDA i : term(k, i))))

fe_isequal(f, g) == fe_tobytes(f) = fe_tobytes(g)

\* 2^k modulo m.
PowerOfTwo(k, m) ==
    LET power[n \in Nat] ==
          IF n = 0 THEN 1
          ELSE LET half == power[n \div 2]
               IN (((half * half) % m) * 2^(n % 2)) % m
    IN power[k]

\* The addition chain of invsqrt in the exponents, modulo m.
ChainExponent(m) ==
    LET sq(e, times) == (e * PowerOfTwo(times, m)) % m
        mul(d, e) == (d + e) % m
        a == sq(1, 1)
        b == mul(1, sq(a, 2))
        x5 == mul(b, sq(mul(a, b), 1))
        x10 == mul(sq(x5, 5), x5)
        x20 == mul(sq(x10, 10), x10)
        x40 == mul(sq(x20, 20), x20)
        x50 == mul(sq(x40, 10), x10)
        x100 == mul(sq(x50, 50), x50)
        x200 == mul(sq(x100, 100), x100)
        x250 == mul(sq(x200, 50), x50)
    IN mul(sq(x250, 2), 1)

\* x^((p - 5) / 8), which is what the chain is for.
ChainPower(x) ==
    LET power[b \in Seq(Int), e \in Nat, done \in Seq(Int)] ==
          IF e = 0 THEN done
          ELSE power[fe_sq(b), e \div 2, IF e % 2 = 1 THEN fe_mul(b, done) ELSE done]
    IN power[x, (Prime - 5) \div 8, fe_1]

\* A table entry in the code.
sqrtm1 == fe_frombytes(CHOOSE x \in 2..Prime : (x * x) % Prime = Prime - 1)

\* The rest of invsqrt, from t0 = x^((p - 5) / 8) and quartic = t0^2 * x.
root(x, t0, quartic) ==
    LET z0 == fe_isequal(x, fe_0)
        p1 == fe_isequal(quartic, fe_1)
        m1 == fe_isequal(quartic, fe_neg(fe_1))
        ms == fe_isequal(quartic, fe_neg(sqrtm1))
    IN [isr |-> fe_ccopy(fe_mul(t0, sqrtm1), t0, IF m1 \/ ms THEN 0 ELSE 1),
        square |-> p1 \/ m1 \/ z0]
quarticroot(x, t0) == root(x, t0, fe_mul(fe_sq(t0), x))
invsqrt(x) == quarticroot(x, ChainPower(x))

fe_invert(x) == fe_mul(fe_sq(invsqrt(fe_sq(x)).isr), x)

----------------------------------------------------------------------------
\* Clears the three lowest bits and the highest, sets the next one.
trim_scalar(s) ==
    2^(ScalarLen - 2) + ((s - (s % 8)) % 2^(ScalarLen - 2))
scalar_bit(s, i) == (s \div 2^i) % 2

\* Mutant of Swapped: a swap left over from the last turn is forgotten.
SwappedByBit(swap, b) == b = 1
Swapped(swap, b) == (swap + b) % 2 = 1      \* swap ^= b

\* One turn of the loop of scalarmult for bit b; the points stay swapped.
ladder_sums(b, x1, da, cb, aa, bb, e) ==
    [swap |-> b,
     x2 |-> fe_mul(aa, bb),
     z2 |-> fe_mul(e, fe_add(bb, fe_mul_small(e, A24))),
     x3 |-> fe_sq(fe_add(da, cb)),
     z3 |-> fe_mul(x1, fe_sq(fe_sub(da, cb)))]
ladder_products(b, x1, da, cb, aa, bb) ==
    ladder_sums(b, x1, da, cb, aa, bb, fe_sub(aa, bb))
ladder_points(b, x1, x2, z2, x3, z3) ==
    ladder_products(b, x1, fe_mul(fe_sub(x3, z3), fe_add(x2, z2)),
                    fe_mul(fe_add(x3, z3), fe_sub(x2, z2)),
                    fe_sq(fe_add(x2, z2)), fe_sq(fe_sub(x2, z2)))
ladder_step(m, b, x1) ==
    LET x == fe_cswap(m.x2, m.x3, IF Swapped(m.swap, b) THEN 1 ELSE 0)
        z == fe_cswap(m.z2, m.z3, IF Swapped(m.swap, b) THEN 1 ELSE 0)
    IN ladder_points(b, x1, x[1], z[1], x[2], z[2])

\* The end of scalarmult: X / Z of the first point.
abscissa(m) ==
    fe_tobytes(fe_mul(fe_cswap(m.x2, m.x3, m.swap)[1],
                      fe_invert(fe_cswap(m.z2, m.z3, m.swap)[1])))
LadderStates == [swap : {0, 1}, x2 : Seq(Int), z2 : Seq(Int), x3 : Seq(Int), z3 : Seq(Int)]
ladder(scalar, x1, nb_bits) ==
    LET from[m \in LadderStates, left \in Nat] ==
          IF left = 0 THEN abscissa(m)
          ELSE from[ladder_step(m, scalar_bit(scalar, left - 1), x1), left - 1]
    IN from[[swap |-> 0, x2 |-> fe_1, z2 |-> fe_0, x3 |-> x1, z3 |-> fe_1], nb_bits]
scalarmult(scalar, p, nb_bits) == ladder(scalar, fe_frombytes(p), nb_bits)

notzero(out) == [ok |-> out # 0, out |-> out]
x25519(priv, pub) == notzero(scalarmult(trim_scalar(priv), pub, ScalarLen - 1))
x25519pub(priv) == x25519(priv, BasePoint)

----------------------------------------------------------------------------
(***************************************************************************)
(* The reference, RFC 7748: x(k * P) for a point P of abscissa u, on the   *)
(* curve or on its twist.  B * y^2 = x^3 + A * x^2 + x with the B for      *)
(* which y is 1; a P of order two has y = 0.  <<>> is the neutral point.   *)
(***************************************************************************)
Value(f) == Total(LAMBDA i : LimbOf(f, i) * 2^Weight(i)) % Prime
CurveA == 4 * A24 - 2
Reciprocals == <<>> \o [x \in 1 .. Prime - 1 |->
                          CHOOSE y \in 1 .. Prime - 1 : (x * y) % Prime = 1]
Over(x, y) == (x * Reciprocals[y % Prime]) % Prime
OnCurve(u) == (((u * u) % Prime) * (u + CurveA) + u) % Prime

PointSum(P, Q, b) ==
    IF P = <<>> THEN Q
    ELSE IF Q = <<>> THEN P
    ELSE IF P[1] = Q[1] /\ (P[2] + Q[2]) % Prime = 0 THEN <<>>
    ELSE LET slope == IF P = Q
                      THEN Over((3 * P[1] * P[1] + 2 * CurveA * P[1] + 1) % Prime,
                                (2 * b * P[2]) % Prime)
                      ELSE Over(Q[2] - P[2], Q[1] - P[1])
             x == (b * ((slope * slope) % Prime) - CurveA - P[1] - Q[1]) % Prime
         IN <<x, (slope * (P[1] - x) - P[2]) % Prime>>

\* [k]P, most significant bit first.
Times25519(k, P, b) ==
    LET upto[n \in Nat] ==
          IF n = 0 THEN <<>>
          ELSE LET half == upto[n \div 2]
                   twice == PointSum(half, half, b)
               IN IF n % 2 = 0 THEN twice ELSE PointSum(twice, P, b)
    IN upto[k]

\* The scalars that count: 2^(ScalarLen - 2) + 8 * n.
ScalarOf(priv) == 2^(ScalarLen - 2) + 8 * ((priv \div 8) % 2^(ScalarLen - 5))
Shared(k, u) ==
    LET x == (u % 2^Bits) % Prime
        f == OnCurve(x)
        Q == IF f = 0 THEN Times25519(k, <<x, 0>>, 1) ELSE Times25519(k, <<x, 1>>, f)
    IN IF Q = <<>> THEN 0 ELSE Q[1]
=============================================================================
