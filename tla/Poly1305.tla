------------------------------ MODULE Poly1305 -------------------------------
(***************************************************************************)
(* The arithmetic of Poly1305 in crypto/chacha20poly1305.c, with two limbs *)
(* for its four: the modulus is 4 * Limb^2 - 5 for 2^130 - 5.  A variable  *)
(* of 32 bits holds a limb, one of 64 two of them.                         *)
(***************************************************************************)
EXTENDS Integers, Sequences

CONSTANT LimbBits   \* bits of a limb (32)

ASSUME LimbAssumption == LimbBits \in 5..32

Limb == 2^LimbBits
Wide(x) == x % (Limb * Limb)

\* poly1305_init clears the top four bits of each limb of r, and the two
\* lowest of all but the first.
ClearedR == {r \in (0 .. Limb \div 16 - 1) \X (0 .. Limb \div 16 - 1) : r[2] % 4 = 0}

\* One turn of poly_blocks: h = (h + c) * r, end the bit above c.
poly_block(h, r, c, end) ==
    LET s0 == h[1] + c[1]
        s1 == h[2] + c[2]
        s2 == h[3] + end
        rr0 == (r[1] \div 4) * 5          \* loses two bits,
        rr1 == r[2] \div 4 + r[2]         \* which are 0 here
        rr2 == r[1] % 4                   \* and come back here
        x0 == Wide(s0 * r[1] + s1 * rr1 + s2 * rr0)
        x1 == Wide(s0 * r[2] + s1 * r[1] + s2 * rr1)
        u5 == (s2 * rr2 + (x1 \div Limb)) % Limb
        u0 == (u5 \div 4) * 5 + (x0 % Limb)
        u1 == (u0 \div Limb) + (x1 % Limb) + (x0 \div Limb)
    IN <<u0 % Limb, u1 % Limb, u1 \div Limb + (u5 % 4)>>

\* Mutant of poly_sum: h is not reduced before the pad is added.
poly_sum_unreduced(h, pad) ==
    LET c0 == h[1] + pad[1]
    IN <<c0 % Limb, (c0 \div Limb + h[2] + pad[2]) % Limb>>
\* The end of poly1305_final: the tag's limbs.
poly_sum(h, pad) ==
    LET over == ((5 + h[1]) \div Limb + h[2]) \div Limb + h[3]
        c0 == (over \div 4) * 5 + h[1] + pad[1]
    IN <<c0 % Limb, (c0 \div Limb + h[2] + pad[2]) % Limb>>

----------------------------------------------------------------------------
Number(s) == s[1] + Limb * s[2]
HNumber(h) == Number(h) + Limb * Limb * h[3]
Modulus == 4 * Limb * Limb - 5
\* The postcondition of poly_blocks, from which the next call starts.
HBound(h) == h[1] \in 0..(Limb - 1) /\ h[2] \in 0..(Limb - 1) /\ h[3] \in 0..4

BlockIsExact(h, r, c, end) ==
    LET new == poly_block(h, r, c, end)
    IN /\ HBound(new)
       /\ HNumber(new) % Modulus =
            ((HNumber(h) + Number(c) + end * Limb * Limb) * Number(r)) % Modulus
TagIsExact(h, pad) ==
    Number(poly_sum(h, pad)) = ((HNumber(h) % Modulus) + Number(pad)) % (Limb * Limb)
=============================================================================
