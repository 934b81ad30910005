------------------------------- MODULE Digits --------------------------------
(***************************************************************************)
(* Numbers written most significant digit first, one bit at a time: the    *)
(* reference the encoders are compared with.  Nothing here translates      *)
(* code.  A digit sequence s of width w is a sequence over 0 .. 2^w - 1.   *)
(***************************************************************************)
EXTENDS Integers, Sequences

\* Bit i (from 0) of s; bits past the end are 0.
Bit(s, w, i) ==
    IF i >= w * Len(s) THEN 0
    ELSE (s[i \div w + 1] \div 2^(w - 1 - (i % w))) % 2

\* The k-th digit of v bits of the bits of s.
Digit(s, w, v, k) ==
    LET upto[i \in 0..v] ==
          IF i = 0 THEN 0 ELSE 2 * upto[i - 1] + Bit(s, w, (k - 1) * v + i - 1)
    IN upto[v]

\* The whole digits of v bits in s, and the same with the rest filled with 0.
Whole(s, w, v) ==
    [k \in 1 .. (w * Len(s)) \div v |-> Digit(s, w, v, k)]
Filled(s, w, v) ==
    [k \in 1 .. (w * Len(s) + v - 1) \div v |-> Digit(s, w, v, k)]

\* What a decoder or an encoder returns when it fails.
Refused == [ok |-> FALSE, out |-> <<>>]
=============================================================================
