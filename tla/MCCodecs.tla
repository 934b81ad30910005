------------------------------ MODULE MCCodecs -------------------------------
(***************************************************************************)
(* Codecs for TLC: data of every length up to MaxBytes and keys whose      *)
(* bytes are 1, 2, 3, ... times a stride, modulo 256.                      *)
(***************************************************************************)
EXTENDS Codecs

CONSTANTS
    MaxBytes,      \* longest Base64 datum
    Strides,       \* the strides
    DeepStrides    \* ... of the keys in DeepKeys

Bytes(n, k) == [i \in 1..n |-> (i * k) % 256]
MCData == {Bytes(n, k) : n \in 0..MaxBytes, k \in Strides}
MCKeyData == {Bytes(KeyLen, k) : k \in Strides}
MCDeepKeys == {Bytes(KeyLen, k) : k \in DeepStrides}
=============================================================================
